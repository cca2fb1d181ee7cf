---------------------------- MODULE MonthsProofs ----------------------------
(* What Months keeps for any length of month, clamp and lag: a result is of  *)
(* a finished month, an announcement is of a frozen one, and a frozen result *)
(* lacks only captures of the month's last Clamp + Lag ticks.                *)
(* The outbox loses no count of what was posted twice; and whatever the      *)
(* feed's calendar, pages and caches, no news that a provider had to tell    *)
(* goes missing and no bot that pages the feed passes a row.                 *)
EXTENDS MCMonths, Sequences, FiniteSetTheorems, WellFoundedInduction, TLAPS

-----------------------------------------------------------------------------
(* The calendar.                                                             *)

\* A tick lies in its month.
LEMMA MonthBounds ==
    ASSUME NEW t \in Nat
    PROVE  /\ Month(t) \in Nat
           /\ Month(t) * MonthLen <= t
           /\ t < (Month(t) + 1) * MonthLen
<1>1. MonthLen \in Nat \ {0}
    BY MonthNumbers
<1> QED BY <1>1, SMT DEF Month

LEMMA MonthEndType == ASSUME NEW m \in Nat PROVE MonthEnd(m) \in Nat
<1>1. MonthLen \in Nat
    BY MonthNumbers
<1> QED BY <1>1, SMT DEF MonthEnd

\* A month that is over at t ended at or before t.
LEMMA OverMeansEnded ==
    ASSUME NEW t \in Nat, NEW m \in Nat
    PROVE  m < Month(t) <=> MonthEnd(m) <= t
<1>1. MonthLen \in Nat \ {0}
    BY MonthNumbers
<1>2. /\ Month(t) \in Nat
      /\ Month(t) * MonthLen <= t
      /\ t < (Month(t) + 1) * MonthLen
    BY MonthBounds
<1>3. \A i, j \in Nat : i <= j => i * MonthLen <= j * MonthLen
    BY <1>1, SMT
<1>4. m < Month(t) => (m + 1) * MonthLen <= Month(t) * MonthLen
    BY <1>2, <1>3
<1>5. Month(t) <= m => (Month(t) + 1) * MonthLen <= (m + 1) * MonthLen
    BY <1>2, <1>3
<1>6. (m + 1) * MonthLen \in Nat /\ Month(t) * MonthLen \in Nat
    BY <1>1, <1>2
<1> DEFINE end == (m + 1) * MonthLen
           first == Month(t) * MonthLen
           next == (Month(t) + 1) * MonthLen
<1>7. MonthEnd(m) = end
    BY DEF MonthEnd
<1>8. CASE m < Month(t)
    <2>1. end <= first /\ first <= t /\ end \in Nat /\ first \in Nat
        BY <1>2, <1>4, <1>6, <1>8
    <2> HIDE DEF end, first
    <2> QED BY <1>7, <1>8, <2>1
<1>9. CASE ~(m < Month(t))
    <2>1. next <= end /\ t < next /\ end \in Nat /\ next \in Nat
        BY <1>1, <1>2, <1>5, <1>6, <1>9
    <2> HIDE DEF end, next
    <2> QED BY <1>7, <1>9, <2>1
<1> QED BY <1>8, <1>9
-----------------------------------------------------------------------------
(* The invariant.                                                            *)

MonthInv ==
    /\ now \in Ticks
    /\ log \subseteq Ticks
    /\ DOMAIN result \subseteq Nat
    /\ OnlyFinishedMonths
    /\ AnnouncedIsFrozen
    /\ MissesOnlyTheLastMoments

\* A step freezes these months from the log as it is, and announces no other.
FreezesOnly(months) ==
    /\ DOMAIN result' = months \cup DOMAIN result
    /\ \A m \in months : result'[m] = Computed(m)
    /\ \A m \in DOMAIN result \ months : result'[m] = result[m]
    /\ DOMAIN outbox' \subseteq months \cup DOMAIN outbox

\* A step that freezes finished months from the log as it is, announces no other,
\* and adds captures of the last Lag + Clamp ticks only, keeps the invariant.
LEMMA FreezingStep ==
    ASSUME MonthInv, UNCHANGED now,
           NEW months, \A m \in months : m \in Nat /\ m < Month(now),
           FreezesOnly(months),
           log' \subseteq Ticks, \A t \in log' \ log : t >= now - Lag - Clamp
    PROVE  MonthInv'
<1>1. Horizon \in Nat /\ Lag \in Nat /\ Clamp \in Nat /\ now \in Nat
    BY MonthNumbers DEF MonthInv, Ticks
<1>2. OnlyFinishedMonths' /\ AnnouncedIsFrozen'
    BY DEF MonthInv, OnlyFinishedMonths, AnnouncedIsFrozen, FreezesOnly
<1>3. ASSUME NEW m \in DOMAIN result', NEW t \in Computed(m)' \ result'[m]
      PROVE  t >= MonthEnd(m) - Clamp - Lag
    <2>1. m \in Nat /\ m < Month(now)
        BY DEF MonthInv, OnlyFinishedMonths, FreezesOnly
    <2>2. MonthEnd(m) <= now /\ MonthEnd(m) \in Int
        BY <1>1, <2>1, OverMeansEnded, MonthEndType
    <2>3. t \in log'
        BY DEF Computed
    <2>4. t \in Nat
        BY <2>3 DEF Ticks
    <2>5. CASE t \in log' \ log
        <3>1. t >= now - Lag - Clamp
            BY <2>5
        <3> QED BY <1>1, <2>2, <2>4, <3>1
    <2>6. CASE t \in log
        <3>1. t \in Computed(m)
            BY <2>6 DEF Computed
        <3>2. m \in DOMAIN result \ months
            BY <3>1 DEF FreezesOnly
        <3>3. t \in Computed(m) \ result[m]
            BY <3>1, <3>2 DEF FreezesOnly
        <3> QED BY <3>2, <3>3 DEF MonthInv, MissesOnlyTheLastMoments
    <2> QED BY <2>3, <2>5, <2>6
<1>4. MissesOnlyTheLastMoments'
    BY <1>3 DEF MissesOnlyTheLastMoments, MonthEnd
<1>5. (now \in Ticks)' /\ (log \subseteq Ticks)' /\ (DOMAIN result \subseteq Nat)'
    BY DEF MonthInv, Ticks, FreezesOnly
<1> QED BY <1>2, <1>4, <1>5 DEF MonthInv

\* The months a call at cur freezes are over, when cur is the month of a tick that
\* has come.
LEMMA PendingIsOver ==
    ASSUME MonthInv, NEW r \in Ticks, r <= now, NEW m \in Pending(Month(r))
    PROVE  m \in Nat /\ m < Month(now)
<1>1. r \in Nat /\ now \in Nat
    BY MonthNumbers DEF MonthInv, Ticks
<1>2. PICK t \in log : m = Month(t + UtcOffset)
    BY DEF Pending, Active
<1>3. t + UtcOffset \in Nat
    BY MonthNumbers DEF MonthInv, Ticks
<1>4. m \in Nat /\ m < Month(r)
    BY <1>2, <1>3, MonthBounds DEF Pending
<1>5. MonthEnd(m) <= r /\ MonthEnd(m) \in Int
    BY <1>1, <1>4, OverMeansEnded, MonthEndType
<1>6. MonthEnd(m) <= now
    BY <1>1, <1>5
<1> QED BY <1>1, <1>4, <1>6, OverMeansEnded

\* Freezing months and queueing their announcements.
LEMMA FreezeFacts ==
    ASSUME NEW months, Freeze(months), Enqueue(months)
    PROVE  FreezesOnly(months)
BY DEF Freeze, Enqueue, FreezesOnly

\* A call of maybe_roll_months freezes some set of months that are over.
LEMMA RollFacts ==
    ASSUME MonthInv, NEW r \in Ticks, r <= now, RollMonths(Month(r))
    PROVE  \E months :
              /\ \A m \in months : m \in Nat /\ m < Month(now)
              /\ FreezesOnly(months)
<1>1. CASE memo = Month(r)
    <2>1. UNCHANGED <<result, outbox>>
        BY <1>1 DEF RollMonths
    <2>2. FreezesOnly({})
        BY <2>1 DEF FreezesOnly
    <2> QED BY <2>2
<1>2. CASE memo # Month(r)
    <2>1. Freeze(Pending(Month(r))) /\ Enqueue(Pending(Month(r)))
        BY <1>2 DEF RollMonths
    <2>2. FreezesOnly(Pending(Month(r)))
        BY <2>1, FreezeFacts
    <2>3. \A m \in Pending(Month(r)) : m \in Nat /\ m < Month(now)
        BY PendingIsOver
    <2> QED BY <2>2, <2>3
<1> QED BY <1>1, <1>2

\* The steps that touch neither the clock, the log nor the results, and add no
\* announcement.
LEMMA QuietStep ==
    ASSUME MonthInv, UNCHANGED <<now, log, result>>,
           DOMAIN outbox' \subseteq DOMAIN outbox
    PROVE  MonthInv'
BY DEF MonthInv, Ticks, OnlyFinishedMonths, AnnouncedIsFrozen, MissesOnlyTheLastMoments,
       Computed, MonthEnd

\* Time passes: what was over stays over.
LEMMA TickStep == ASSUME MonthInv, Tick PROVE MonthInv'
<1>1. now \in Nat /\ now' = now + 1 /\ now' \in Ticks
    BY MonthNumbers DEF MonthInv, Tick, Ticks
<1>2. UNCHANGED tables
    BY DEF Tick
<1>3. OnlyFinishedMonths'
    <2> SUFFICES ASSUME NEW m \in DOMAIN result PROVE m < Month(now')
        BY <1>2 DEF OnlyFinishedMonths, tables
    <2>1. m \in Nat /\ m < Month(now)
        BY DEF MonthInv, OnlyFinishedMonths
    <2>2. MonthEnd(m) <= now /\ MonthEnd(m) \in Int
        BY <1>1, <2>1, OverMeansEnded, MonthEndType
    <2>3. MonthEnd(m) <= now' /\ now' \in Nat
        BY <1>1, <2>2
    <2> QED BY <2>1, <2>3, OverMeansEnded
<1> QED BY <1>1, <1>2, <1>3 DEF tables, MonthInv, AnnouncedIsFrozen,
                                MissesOnlyTheLastMoments, Computed, MonthEnd
\* Every step keeps the invariant.
LEMMA MonthStep == MonthInv /\ [Next]_vars => MonthInv'
<1> SUFFICES ASSUME MonthInv, [Next]_vars PROVE MonthInv'
    OBVIOUS
<1>n. now \in Ticks /\ now \in Nat /\ Clamp \in Nat /\ Lag \in Nat
    BY MonthNumbers DEF MonthInv, Ticks
<1>1. CASE UNCHANGED vars
    BY <1>1, QuietStep DEF vars
<1>2. CASE Tick
    BY <1>2, TickStep
<1>3. ASSUME NEW cur, CallerRollsBack(cur) PROVE MonthInv'
    BY <1>3, QuietStep DEF CallerRollsBack, tables
<1>4. ASSUME NEW r \in ReceiptTimes, NEW t \in ScoringTimes(r), BatchCommits(r, t)
      PROVE  MonthInv'
    <2>1. r \in Ticks /\ r \in Nat /\ r <= now /\ now - Lag <= r
        BY MonthNumbers DEF ReceiptTimes, Ticks
    <2>2. t \in Ticks /\ t \in Nat /\ r - Clamp <= t
        BY MonthNumbers DEF ScoringTimes, Ticks
    <2>3. t >= now - Lag - Clamp
        BY <1>n, <2>1, <2>2
    <2>4. UNCHANGED now /\ log' = log \cup {t} /\ RollMonths(Month(r))
        BY <1>4 DEF BatchCommits
    <2>5. PICK months : /\ \A m \in months : m \in Nat /\ m < Month(now)
                        /\ FreezesOnly(months)
        BY <2>1, <2>4, RollFacts
    <2>6. log' \subseteq Ticks /\ \A x \in log' \ log : x >= now - Lag - Clamp
        BY <2>2, <2>3, <2>4 DEF MonthInv
    <2> QED BY <2>4, <2>5, <2>6, FreezingStep
<1>5. CASE RollMonths(Month(now)) /\ UNCHANGED <<now, log>>
    <2>1. PICK months : /\ \A m \in months : m \in Nat /\ m < Month(now)
                        /\ FreezesOnly(months)
        BY <1>5, <1>n, RollFacts
    <2>2. log' \subseteq Ticks /\ log' \ log = {}
        BY <1>5 DEF MonthInv
    <2> QED BY <1>5, <2>1, <2>2, FreezingStep
<1>6. ASSUME NEW m \in MonthSet, AdminFreeze(m) PROVE MonthInv'
    <2>1. m \in Nat /\ m < Month(now) /\ UNCHANGED <<now, log>>
        BY <1>6 DEF AdminFreeze, MonthSet
    <2>2. FreezesOnly({m})
        BY <1>6, FreezeFacts DEF AdminFreeze
    <2>3. \A x \in {m} : x \in Nat /\ x < Month(now)
        BY <2>1
    <2>4. log' \subseteq Ticks /\ log' \ log = {}
        BY <2>1 DEF MonthInv
    <2> QED BY <2>1, <2>2, <2>3, <2>4, FreezingStep
<1>7. CASE Restart
    BY <1>7, QuietStep DEF Restart, tables
<1>8. CASE SetAnnouncements
    BY <1>8, QuietStep DEF SetAnnouncements, tables
<1>9. CASE BeginDrain \/ PostDelivered \/ PostRefused \/ PostTimesOut \/ MarkRaises
    <2>1. UNCHANGED <<now, log, result, outbox>>
        BY <1>9 DEF BeginDrain, PostDelivered, PostRefused, PostTimesOut, Post, MarkRaises,
                    tables
    <2> QED BY <2>1, QuietStep
<1>10. CASE MarkPosted \/ MarkFailed
    <2>1. UNCHANGED <<now, log, result>> /\ DOMAIN outbox' = DOMAIN outbox
        BY <1>10 DEF MarkPosted, MarkFailed
    <2> QED BY <2>1, QuietStep
<1>11. CASE Batch
    BY <1>3, <1>4, <1>11 DEF Batch
<1>12. CASE CheckinPoll
    BY <1>3, <1>5, <1>12 DEF CheckinPoll
<1> QED BY <1>1, <1>2, <1>6, <1>7, <1>8, <1>9, <1>10, <1>11, <1>12 DEF Next

\* The invariant holds of an empty database.
LEMMA MonthInit == Init => MonthInv
BY MonthNumbers DEF Init, MonthInv, Ticks, OnlyFinishedMonths, AnnouncedIsFrozen,
                    MissesOnlyTheLastMoments

\* The invariant always holds.
LEMMA MonthAlways == Spec => []MonthInv
<1>1. Init => MonthInv
    BY MonthInit
<1>2. MonthInv /\ [Next]_vars => MonthInv'
    BY MonthStep
<1> QED BY <1>1, <1>2, PTL DEF Spec

-----------------------------------------------------------------------------
(* The results.                                                              *)

\* No month in progress is ever frozen, by a late batch, a poll or an operator.
THEOREM NeverFrozenEarly == Spec => []OnlyFinishedMonths
<1>1. MonthInv => OnlyFinishedMonths
    BY DEF MonthInv
<1> QED BY <1>1, MonthAlways, PTL

\* No month is announced that is not frozen.
THEOREM NeverAnnouncedUnfrozen == Spec => []AnnouncedIsFrozen
<1>1. MonthInv => AnnouncedIsFrozen
    BY DEF MonthInv
<1> QED BY <1>1, MonthAlways, PTL

\* A frozen result is complete but for the captures of its last Clamp + Lag ticks.
THEOREM FrozenNearlyComplete == Spec => []MissesOnlyTheLastMoments
<1>1. MonthInv => MissesOnlyTheLastMoments
    BY DEF MonthInv
<1> QED BY <1>1, MonthAlways, PTL
-----------------------------------------------------------------------------
(* The outbox: what it posts and what it remembers of it.                    *)

\* The row a drain is at is one of those it read.
LEMMA MinOfNats ==
    ASSUME NEW S, S \subseteq Nat, S # {}
    PROVE  Min(S) \in S /\ \A n \in S : Min(S) <= n
<1>1. \E x \in S : \A y \in S : <<y, x>> \notin OpToRel(<, Nat)
    BY WFMin, NatLessThanWellFounded
<1>2. PICK x \in S : \A y \in S : <<y, x>> \notin OpToRel(<, Nat)
    BY <1>1
<1>3. ASSUME NEW y \in S PROVE x <= y
    <2>1. x \in Nat /\ y \in Nat
        OBVIOUS
    <2>2. y < x => <<y, x>> \in OpToRel(<, Nat)
        BY <2>1, Zenon DEF OpToRel
    <2>3. ~(y < x)
        BY <1>2, <2>2, Zenon
    <2> QED BY <2>1, <2>3
<1>4. \E m \in S : \A y \in S : m <= y
    BY <1>3
<1> QED BY <1>4 DEF Min

OutboxRows == [created : Int, attempts : Int, posted : BOOLEAN]

\* The drain holds rows that are not posted, and only one of them can have been
\* delivered.
DrainInv ==
    /\ outbox \in [DOMAIN outbox -> OutboxRows]
    /\ \A m \in drain : m \in DOMAIN outbox /\ ~outbox[m].posted
    /\ phase \in {"idle", "posted", "failed"}
    /\ phase # "idle" => drain # {}
    /\ posts \in [MonthSet -> Nat]
    /\ lost \in [MonthSet -> Nat]

PostsInv == DrainInv /\ PostsAccounted

LEMMA DrainMin ==
    ASSUME MonthInv, PostsInv, drain # {}
    PROVE  Min(drain) \in drain /\ Min(drain) \in DOMAIN outbox
<1>1. drain \subseteq Nat /\ drain \subseteq DOMAIN outbox
    BY DEF MonthInv, AnnouncedIsFrozen, PostsInv, DrainInv
<1> QED BY <1>1, MinOfNats

\* A step of the freezing side queues new rows and changes no old one.
LEMMA QueueStep ==
    ASSUME PostsInv, UNCHANGED draining,
           \/ outbox' = outbox
           \/ \E months : Enqueue(months),
           now \in Int
    PROVE  PostsInv'
<1>1. CASE outbox' = outbox
    BY <1>1 DEF PostsInv, DrainInv, PostsAccounted, draining
<1>2. ASSUME NEW months, Enqueue(months) PROVE PostsInv'
    <2>1. [created |-> now, attempts |-> 0, posted |-> FALSE] \in OutboxRows
        BY DEF OutboxRows
    <2>2. outbox' \in [DOMAIN outbox' -> OutboxRows]
        BY <1>2, <2>1 DEF Enqueue, PostsInv, DrainInv
    <2>3. \A m \in DOMAIN outbox : m \in DOMAIN outbox' /\ outbox'[m] = outbox[m]
        BY <1>2 DEF Enqueue
    <2>4. \A m \in drain : m \in DOMAIN outbox' /\ ~outbox'[m].posted
        BY <2>3 DEF PostsInv, DrainInv
    <2>5. PostsAccounted'
        BY <2>3 DEF PostsInv, DrainInv, PostsAccounted, draining
    <2> QED BY <2>2, <2>4, <2>5 DEF PostsInv, DrainInv, draining
<1> QED BY <1>1, <1>2

\* The POST of the next row: it was not posted, so it pays for its own delivery.
LEMMA PostKeeps ==
    ASSUME MonthInv, PostsInv, PostDelivered \/ PostRefused \/ PostTimesOut
    PROVE  PostsInv'
<1> DEFINE next == Min(drain)
<1>1. /\ phase = "idle" /\ drain # {}
      /\ UNCHANGED <<outbox, drain>>
      /\ phase' \in {"posted", "failed"}
    BY DEF PostDelivered, PostRefused, PostTimesOut, Post, tables
<1>2. next \in drain /\ next \in DOMAIN outbox /\ ~outbox[next].posted
    BY <1>1, DrainMin DEF PostsInv, DrainInv
<1>3. posts \in [MonthSet -> Nat] /\ lost \in [MonthSet -> Nat]
    BY DEF PostsInv, DrainInv
<1>4. \A m \in MonthSet :
          posts[m] <= lost[m] + (IF m \in DOMAIN outbox /\ outbox[m].posted THEN 1 ELSE 0)
    BY <1>1 DEF PostsInv, PostsAccounted
<1>5. posts' \in [MonthSet -> Nat] /\ lost' \in [MonthSet -> Nat]
    BY <1>3 DEF PostDelivered, PostRefused, PostTimesOut
<1>6. ASSUME NEW m \in MonthSet
      PROVE  posts'[m] <= lost'[m] + (IF \/ m \in DOMAIN outbox /\ outbox[m].posted
                                         \/ phase' = "posted" /\ m = next THEN 1 ELSE 0)
    <2>1. CASE PostDelivered
        <3>1. posts' = [posts EXCEPT ![next] = @ + 1] /\ lost' = lost /\ phase' = "posted"
            BY <2>1 DEF PostDelivered, Post
        <3> HIDE DEF next
        <3> QED BY <1>2, <1>3, <1>4, <3>1
    <2>2. CASE PostRefused
        BY <1>3, <1>4, <2>2 DEF PostRefused
    <2>3. CASE PostTimesOut
        <3>1. /\ posts' = [posts EXCEPT ![next] = @ + 1]
              /\ lost' = [lost EXCEPT ![next] = @ + 1]
            BY <2>3 DEF PostTimesOut
        <3> HIDE DEF next
        <3> QED BY <1>2, <1>3, <1>4, <3>1
    <2> QED BY <2>1, <2>2, <2>3
<1>7. PostsAccounted'
    BY <1>1, <1>6 DEF PostsAccounted
<1> QED BY <1>1, <1>5, <1>7 DEF PostsInv, DrainInv

\* The mark of the row the drain is at.
LEMMA MarkKeeps ==
    ASSUME MonthInv, PostsInv, MarkPosted \/ MarkFailed
    PROVE  PostsInv'
<1> DEFINE next == Min(drain)
<1>1. phase # "idle" /\ next \in drain /\ next \in DOMAIN outbox
    BY DrainMin DEF MarkPosted, MarkFailed, PostsInv, DrainInv
<1>2. UNCHANGED <<posts, lost>> /\ drain' = drain \ {next} /\ phase' = "idle"
    BY DEF MarkPosted, MarkFailed
<1>3. DOMAIN outbox' = DOMAIN outbox /\ outbox' \in [DOMAIN outbox -> OutboxRows]
    <2>1. PICK row \in OutboxRows : outbox' = [outbox EXCEPT ![next] = row]
        <3>1. outbox[next] \in OutboxRows
            BY <1>1 DEF PostsInv, DrainInv
        <3>2. CASE MarkPosted
            <4>1. outbox' = [outbox EXCEPT ![next] = [outbox[next] EXCEPT !.posted = TRUE]]
                BY <3>2 DEF MarkPosted
            <4>2. [outbox[next] EXCEPT !.posted = TRUE] \in OutboxRows
                BY <3>1 DEF OutboxRows
            <4> QED BY <4>1, <4>2
        <3>3. CASE MarkFailed
            <4>1. outbox' = [outbox EXCEPT ![next] =
                                 [outbox[next] EXCEPT !.attempts = outbox[next].attempts + 1]]
                BY <3>3 DEF MarkFailed
            <4>2. [outbox[next] EXCEPT !.attempts = outbox[next].attempts + 1] \in OutboxRows
                BY <3>1 DEF OutboxRows
            <4> QED BY <4>1, <4>2
        <3> QED BY <3>2, <3>3
    <2> HIDE DEF next
    <2> QED BY <2>1 DEF PostsInv, DrainInv
<1>4. \A m \in DOMAIN outbox : m # next => outbox'[m] = outbox[m]
    BY DEF MarkPosted, MarkFailed, PostsInv, DrainInv
<1>5. outbox'[next].posted = outbox[next].posted \/ (outbox'[next].posted /\ phase = "posted")
    BY <1>1 DEF MarkPosted, MarkFailed, PostsInv, DrainInv, OutboxRows
<1>6. phase = "posted" => outbox'[next].posted
    BY <1>1 DEF MarkPosted, MarkFailed, PostsInv, DrainInv, OutboxRows
<1> HIDE DEF next
<1>7. PostsAccounted'
    <2>1. ASSUME NEW m \in MonthSet
          PROVE  (\/ m \in DOMAIN outbox /\ outbox[m].posted
                  \/ phase = "posted" /\ m = next)
                 => m \in DOMAIN outbox' /\ outbox'[m].posted
        BY <1>1, <1>3, <1>4, <1>5, <1>6
    <2>2. \A m \in MonthSet : posts[m] \in Nat /\ lost[m] \in Nat
        BY DEF PostsInv, DrainInv
    <2>3. \A m \in MonthSet :
              posts[m] <= lost[m] + (IF \/ m \in DOMAIN outbox /\ outbox[m].posted
                                        \/ phase = "posted" /\ m = next THEN 1 ELSE 0)
        BY DEF PostsInv, PostsAccounted, next
    <2> QED BY <1>2, <2>1, <2>2, <2>3 DEF PostsAccounted
<1>8. \A m \in drain' : m \in DOMAIN outbox' /\ ~outbox'[m].posted
    BY <1>2, <1>3, <1>4 DEF PostsInv, DrainInv
<1> QED BY <1>2, <1>3, <1>7, <1>8 DEF PostsInv, DrainInv

\* Forgetting a drain: a delivery it had not marked is lost.
LEMMA ForgetKeeps ==
    ASSUME PostsInv, ForgetDrain, outbox' = outbox
    PROVE  PostsInv'
<1>1. /\ drain' = {} /\ phase' = "idle" /\ posts' = posts
      /\ lost' = IF phase = "posted" THEN [lost EXCEPT ![Min(drain)] = @ + 1] ELSE lost
    BY DEF ForgetDrain
<1>2. posts \in [MonthSet -> Nat] /\ lost \in [MonthSet -> Nat]
    BY DEF PostsInv, DrainInv
<1>3. lost' \in [MonthSet -> Nat]
    <2> DEFINE next == Min(drain)
    <2>1. lost' = lost \/ lost' = [lost EXCEPT ![next] = @ + 1]
        BY <1>1
    <2> HIDE DEF next
    <2> QED BY <1>2, <2>1
<1>4. PostsAccounted'
    BY <1>1, <1>2 DEF PostsInv, PostsAccounted
<1> QED BY <1>1, <1>2, <1>3, <1>4 DEF PostsInv, DrainInv

LEMMA PostsStep == MonthInv /\ PostsInv /\ [Next]_vars => PostsInv'
<1> SUFFICES ASSUME MonthInv, PostsInv, [Next]_vars PROVE PostsInv'
    OBVIOUS
<1>n. now \in Int
    BY DEF MonthInv, Ticks
<1>1. CASE UNCHANGED vars
    BY <1>1, <1>n, QueueStep DEF vars, draining
<1>2. CASE Tick \/ SetAnnouncements
    BY <1>2, <1>n, QueueStep DEF Tick, SetAnnouncements, tables
<1>3. ASSUME NEW cur, CallerRollsBack(cur) PROVE PostsInv'
    BY <1>3, <1>n, QueueStep DEF CallerRollsBack, tables
<1>4. ASSUME NEW cur, RollMonths(cur), UNCHANGED draining PROVE PostsInv'
    BY <1>4, <1>n, QueueStep DEF RollMonths
<1>5. CASE Batch \/ CheckinPoll
    BY <1>3, <1>4, <1>5 DEF Batch, CheckinPoll, BatchCommits
<1>6. ASSUME NEW m \in MonthSet, AdminFreeze(m) PROVE PostsInv'
    BY <1>6, <1>n, QueueStep DEF AdminFreeze
<1>7. CASE BeginDrain
    <2>1. /\ drain' = Sendable /\ phase = "idle" /\ phase' = "idle"
          /\ UNCHANGED <<outbox, posts, lost>>
        BY <1>7 DEF BeginDrain, tables
    <2>2. PostsAccounted'
        BY <2>1 DEF PostsInv, PostsAccounted
    <2> QED BY <2>1, <2>2 DEF PostsInv, DrainInv, Sendable
<1>8. CASE PostDelivered \/ PostRefused \/ PostTimesOut
    BY <1>8, PostKeeps
<1>9. CASE MarkPosted \/ MarkFailed
    BY <1>9, MarkKeeps
<1>10. CASE MarkRaises \/ Restart
    BY <1>10, ForgetKeeps DEF MarkRaises, Restart, tables
<1> QED BY <1>1, <1>2, <1>5, <1>6, <1>7, <1>8, <1>9, <1>10 DEF Next

\* A month is posted a second time only after a delivery whose mark was lost:
\* whatever rolls back, restarts or is frozen again.
THEOREM PostsAlwaysAccounted == Spec => []PostsAccounted
<1>1. Init => PostsInv
    BY DEF Init, PostsInv, DrainInv, PostsAccounted, OutboxRows
<1>2. PostsInv => PostsAccounted
    BY DEF PostsInv
<1> QED BY <1>1, <1>2, MonthAlways, PostsStep, PTL DEF Spec
-----------------------------------------------------------------------------
(* The feed.                                                                 *)

LEMMA MaxOfNats ==
    ASSUME NEW S, S \subseteq Nat, S # {}, NEW n \in Nat, \A x \in S : x <= n
    PROVE  \E m \in S : \A x \in S : x <= m
<1> DEFINE D == {n - x : x \in S}
<1>1. D \subseteq Nat /\ D # {}
    <2>1. ASSUME NEW x \in S PROVE n - x \in Nat
        <3>1. x \in Nat /\ x <= n
            OBVIOUS
        <3> QED BY <3>1
    <2> QED BY <2>1
<1>2. PICK d \in D : \A e \in D : d <= e
    <2> HIDE DEF D
    <2> QED BY <1>1, MinOfNats
<1>3. PICK m \in S : d = n - m
    BY <1>2
<1>4. ASSUME NEW x \in S PROVE x <= m
    <2>1. n - x \in D
        OBVIOUS
    <2>2. n - m <= n - x
        BY <1>2, <1>3, <2>1
    <2>3. x \in Nat /\ m \in Nat
        OBVIOUS
    <2> QED BY <2>2, <2>3
<1> QED BY <1>4

LEMMA SameCardinality == \A S : Ann!Cardinality(S) = Cardinality(S)
    BY DEF Ann!Cardinality, Cardinality

\* SetToSeq lists a finite set, and all of it.
LEMMA Listing ==
    ASSUME NEW S, IsFiniteSet(S)
    PROVE  /\ Ann!SetToSeq(S) \in Seq(S)
           /\ \A x \in S : \E i \in 1..Len(Ann!SetToSeq(S)) : Ann!SetToSeq(S)[i] = x
<1> DEFINE seq == Ann!SetToSeq(S)
<1>1. Cardinality(S) \in Nat /\ \E f : f \in Bijection(1..Cardinality(S), S)
    BY FS_CardinalityType DEF ExistsBijection
<1>2. \E f \in [1..Cardinality(S) -> S] : IsInjective(f)
    BY <1>1 DEF Bijection, Injection
<1>3. seq \in [1..Cardinality(S) -> S] /\ IsInjective(seq)
    BY <1>2, SameCardinality, Zenon DEF Ann!SetToSeq, Ann!IsInjective, IsInjective
<1> HIDE DEF seq
<1>4. seq \in Injection(1..Cardinality(S), S)
    BY <1>3 DEF Injection
<1>5. Cardinality(1..Cardinality(S)) = Cardinality(S)
    BY <1>1, FS_Interval
<1>6. seq \in Surjection(1..Cardinality(S), S)
    BY <1>4, <1>5, FS_Injection
<1>7. seq \in Seq(S) /\ Len(seq) = Cardinality(S)
    BY <1>1, <1>3
<1> QED BY <1>6, <1>7 DEF Surjection, seq

\* There is only so much to tell.
LEMMA NewsIsFinite == IsFiniteSet(Ann!News)
<1> DEFINE All == [kind : Ann!Kinds, period : 0..MaxTime, board : Boards]
           triples == (Ann!Kinds \X (0..MaxTime)) \X Boards
           row == [t \in triples |-> [kind |-> t[1][1], period |-> t[1][2], board |-> t[2]]]
<1>1. IsFiniteSet(Ann!Kinds) /\ IsFiniteSet(Boards) /\ MaxTime \in Nat
    BY FeedShape DEF Ann!Kinds
<1>2. IsFiniteSet(triples)
    <2>1. IsFiniteSet(0..MaxTime)
        BY <1>1, FS_Interval
    <2>2. IsFiniteSet(Ann!Kinds \X (0..MaxTime))
        BY <1>1, <2>1, FS_Product
    <2> QED BY <1>1, <2>2, FS_Product
<1>3. row \in Surjection(triples, All)
    <2>1. row \in [triples -> All]
        OBVIOUS
    <2>2. ASSUME NEW r \in All PROVE \E t \in triples : row[t] = r
        <3>1. <<<<r.kind, r.period>>, r.board>> \in triples
            OBVIOUS
        <3>2. row[<<<<r.kind, r.period>>, r.board>>] = r
            BY <3>1
        <3> QED BY <3>1, <3>2
    <2> QED BY <2>1, <2>2 DEF Surjection
<1>4. IsFiniteSet(All)
    BY <1>2, <1>3, FS_Surjection
<1>5. ASSUME NEW k \in Ann!Kinds PROVE Ann!Periods(k) \subseteq 0..MaxTime
    <2>1. Lengths[k] \in Nat \ {0} /\ MaxTime \in Nat
        BY <1>5, FeedShape DEF Ann!Kinds
    <2>2. MaxTime \div Lengths[k] <= MaxTime /\ MaxTime \div Lengths[k] \in Nat
        BY <2>1
    <2> DEFINE last == MaxTime \div Lengths[k]
    <2>3. Ann!Periods(k) = 1..last
        BY DEF Ann!Periods
    <2> HIDE DEF last
    <2>4. last <= MaxTime /\ last \in Nat
        BY <2>2 DEF last
    <2> QED BY <2>1, <2>3, <2>4
<1>6. Ann!News \subseteq All
    BY <1>5 DEF Ann!News
<1> QED BY <1>4, <1>6, FS_Subset

\* What a poll adds to the feed, whoever raised in it.
LEMMA ToldIsListed ==
    ASSUME NEW failed, NEW first
    PROVE  /\ Ann!Told(failed, first) \subseteq Ann!News
           /\ Ann!SetToSeq(Ann!Told(failed, first)) \in Seq(Ann!News)
           /\ \A r \in Ann!Told(failed, first) :
                  \E i \in 1..Len(Ann!SetToSeq(Ann!Told(failed, first))) :
                      Ann!SetToSeq(Ann!Told(failed, first))[i] = r
<1> DEFINE told == Ann!Told(failed, first)
<1>1. told \subseteq Ann!News
    BY DEF Ann!Told, Ann!Items, Ann!News
<1> HIDE DEF told
<1>2. IsFiniteSet(told)
    BY <1>1, NewsIsFinite, FS_Subset
<1>3. /\ Ann!SetToSeq(told) \in Seq(told)
      /\ \A x \in told : \E i \in 1..Len(Ann!SetToSeq(told)) : Ann!SetToSeq(told)[i] = x
    BY <1>2, Listing
<1>4. Ann!SetToSeq(told) \in Seq(Ann!News)
    BY <1>1, <1>3
<1> QED BY <1>1, <1>3, <1>4 DEF told

FeedType ==
    /\ feed \in Seq(Ann!News)
    /\ cursor \in [Bots -> Nat]
    /\ heard \in [Bots -> SUBSET Nat]
    /\ busy \subseteq Ann!News

\* A kept page is of the feed, and holds all there was to tell up to its last row.
PageFits(e) ==
    /\ e.page \subseteq DOMAIN feed
    /\ \A j \in e.page : \A i \in 1..j :
           i > e.since /\ feed[i].kind \in e.kinds => i \in e.page

\* No bot is past the end of the feed, and every cached page may be given out.
PagesInv ==
    /\ \A c \in Bots : cursor[c] <= Len(feed)
    /\ \A e \in cache : PageFits(e)

FeedInv == FeedType /\ PagesInv /\ NothingSkipped /\ NewsGetsOut

\* The feed only grows, and nothing stored in it changes.
LEMMA PollAppends ==
    ASSUME FeedType, NEW failed, NEW first, Ann!Poll(failed, first)
    PROVE  /\ feed' \in Seq(Ann!News)
           /\ Len(feed) <= Len(feed')
           /\ \A i \in 1..Len(feed) : feed'[i] = feed[i]
           /\ \A r \in Ann!Told(failed, first) : \E i \in 1..Len(feed') : feed'[i] = r
<1> DEFINE told == Ann!Told(failed, first)
           seq == Ann!SetToSeq(told)
<1>1. feed' = feed \o seq /\ feed \in Seq(Ann!News)
    BY DEF Ann!Poll, FeedType
<1>2. /\ seq \in Seq(Ann!News)
      /\ \A r \in told : \E i \in 1..Len(seq) : seq[i] = r
    BY ToldIsListed
<1> HIDE DEF told, seq
<1>3. /\ feed' \in Seq(Ann!News)
      /\ Len(feed) <= Len(feed')
      /\ \A i \in 1..Len(feed) : feed'[i] = feed[i]
    BY <1>1, <1>2
<1>4. ASSUME NEW r \in told PROVE \E i \in 1..Len(feed') : feed'[i] = r
    <2>1. PICK i \in 1..Len(seq) : seq[i] = r
        BY <1>2
    <2>2. Len(feed) + i \in 1..Len(feed') /\ feed'[Len(feed) + i] = r
        BY <1>1, <1>2, <2>1
    <2> QED BY <2>2
<1> QED BY <1>3, <1>4 DEF told

\* A page built now holds, up to its last row, all that matches.
LEMMA PageIsPrefix ==
    ASSUME FeedType, NEW kinds, NEW since \in Nat
    PROVE  /\ Ann!Page(kinds, since) \subseteq DOMAIN feed
           /\ \A j \in Ann!Page(kinds, since) : \A i \in 1..j :
                  i > since /\ feed[i].kind \in kinds => i \in Ann!Page(kinds, since)
<1> DEFINE all == Ann!Matching(kinds, since)
           before(i) == {j \in all : j < i}
<1>1. Len(feed) \in Nat /\ DOMAIN feed = 1..Len(feed)
    BY DEF FeedType
<1>2. all \subseteq 1..Len(feed)
    BY <1>1 DEF Ann!Matching
<1>3. Ann!Page(kinds, since) = {i \in all : Cardinality(before(i)) < PageSize}
    BY SameCardinality DEF Ann!Page, Ann!Smallest
<1>4. ASSUME NEW j \in Ann!Page(kinds, since), NEW i \in 1..j,
             i > since, feed[i].kind \in kinds
      PROVE  i \in Ann!Page(kinds, since)
    <2>1. j \in all /\ Cardinality(before(j)) < PageSize
        BY <1>3
    <2>2. i \in all
        BY <1>1, <1>2, <1>4, <2>1 DEF Ann!Matching
    <2>3. IsFiniteSet(before(j))
        <3>1. before(j) \subseteq 1..Len(feed)
            BY <1>2
        <3>2. IsFiniteSet(1..Len(feed))
            BY <1>1, FS_Interval
        <3> QED BY <3>1, <3>2, FS_Subset
    <2>4. before(i) \subseteq before(j)
        <3>1. all \subseteq Int /\ i \in Int /\ j \in Int /\ i <= j
            BY <1>1, <1>2, <2>1
        <3>2. \A x \in all : x < i => x < j
            BY <3>1
        <3> QED BY <3>2
    <2>5. /\ Cardinality(before(i)) \in Nat /\ Cardinality(before(j)) \in Nat
          /\ Cardinality(before(i)) <= Cardinality(before(j))
        BY <2>3, <2>4, FS_Subset, FS_CardinalityType
    <2>6. PageSize \in Nat
        BY FeedShape
    <2> HIDE DEF all, before
    <2>7. Cardinality(before(i)) < PageSize
        BY <2>1, <2>5, <2>6
    <2> QED BY <1>3, <2>2, <2>7
<1> QED BY <1>1, <1>2, <1>3, <1>4

\* A poll: what the providers that did not raise had to tell is in the feed.
LEMMA PollKeeps ==
    ASSUME FeedInv, NEW failed, NEW first \in BOOLEAN, Ann!Poll(failed, first)
    PROVE  FeedInv'
<1>1. /\ feed' \in Seq(Ann!News)
      /\ Len(feed) <= Len(feed')
      /\ \A i \in 1..Len(feed) : feed'[i] = feed[i]
      /\ \A r \in Ann!Told(failed, first) : \E i \in 1..Len(feed') : feed'[i] = r
    BY PollAppends DEF FeedInv
<1>2. /\ UNCHANGED <<today, inSeason, busy, asksFor, cursor, heard, cache>>
      /\ served' = [k \in Calendar |-> served[k] \cup
                        {n \in {Ann!LastEnded(k, today)} : k \notin failed /\ ~Ann!TooOld(k, n, today)}]
    BY DEF Ann!Poll, Ann!readers
<1>3. /\ DOMAIN feed = 1..Len(feed) /\ Len(feed) \in Nat
      /\ DOMAIN feed' = 1..Len(feed') /\ Len(feed') \in Nat
      /\ \A c \in Bots : cursor[c] \in Nat /\ cursor[c] <= Len(feed)
    BY <1>1 DEF FeedInv, FeedType, PagesInv
<1>4. FeedType'
    BY <1>1, <1>2 DEF FeedInv, FeedType, Ann!News, Ann!Periods, Ann!Kinds
<1>5. PagesInv'
    <2>1. \A c \in Bots : cursor'[c] <= Len(feed')
        BY <1>1, <1>2, <1>3
    <2>2. ASSUME NEW e \in cache PROVE PageFits(e)'
        <3>1. e.page \subseteq 1..Len(feed)
            BY <1>3 DEF FeedInv, PagesInv, PageFits
        <3>2. e.page \subseteq 1..Len(feed')
            BY <1>1, <1>3, <3>1
        <3>3. ASSUME NEW j \in e.page, NEW i \in 1..j, i > e.since, feed'[i].kind \in e.kinds
              PROVE  i \in e.page
            <4>1. i \in 1..Len(feed) /\ feed'[i] = feed[i]
                BY <1>1, <1>3, <3>1
            <4> QED BY <3>3, <4>1 DEF FeedInv, PagesInv, PageFits
        <3> QED BY <1>3, <3>2, <3>3 DEF PageFits
    <2> QED BY <1>2, <2>1, <2>2 DEF PagesInv
<1>6. NothingSkipped'
    <2>1. ASSUME NEW c \in Bots, NEW i \in DOMAIN feed',
                 i <= cursor[c], feed'[i].kind \in asksFor[c]
          PROVE  i \in heard[c]
        <3>1. i \in DOMAIN feed /\ feed'[i] = feed[i]
            BY <1>1, <1>3, <2>1
        <3> QED BY <2>1, <3>1 DEF FeedInv, NothingSkipped, Ann!NothingSkipped
    <2> QED BY <1>2, <2>1 DEF NothingSkipped, Ann!NothingSkipped
<1>7. NewsGetsOut'
    <2>1. ASSUME NEW k \in Calendar, NEW b \in inSeason, NEW n \in served'[k],
                 [kind |-> k, period |-> n, board |-> b] \in busy
          PROVE  \E i \in 1..Len(feed') : feed'[i] = [kind |-> k, period |-> n, board |-> b]
        <3> DEFINE r == [kind |-> k, period |-> n, board |-> b]
        <3>1. CASE Ann!Stored(k, n, b)
            <4>1. PICK i \in 1..Len(feed) : feed[i] = r
                BY <1>3, <3>1 DEF Ann!Stored
            <4>2. i \in 1..Len(feed') /\ feed'[i] = r
                BY <1>1, <1>3, <4>1
            <4> QED BY <4>2
        <3>2. CASE ~Ann!Stored(k, n, b)
            <4>1. n \notin served[k]
                BY <2>1, <3>2 DEF FeedInv, NewsGetsOut, Ann!NewsGetsOut
            <4>2. n = Ann!LastEnded(k, today) /\ k \notin failed /\ ~Ann!TooOld(k, n, today)
                BY <1>2, <4>1
            <4>3. n \in Ann!Periods(k) /\ b \in Boards
                <5>1. r \in Ann!News
                    BY <2>1 DEF FeedInv, FeedType
                <5>2. PICK l \in Ann!Kinds : r \in [kind : {l}, period : Ann!Periods(l), board : Boards]
                    BY <5>1 DEF Ann!News
                <5>3. r.kind = k /\ r.period = n /\ r.board = b
                    OBVIOUS
                <5> HIDE DEF r
                <5>4. r.kind = l /\ r.period \in Ann!Periods(l) /\ r.board \in Boards
                    BY <5>2
                <5> QED BY <5>3, <5>4
            <4>4. n > 0 /\ n \in Int
                BY <4>3 DEF Ann!Periods
            <4>5. Ann!Candidates(k, b) = {n}
                BY <4>2, <4>4, FeedShape DEF Ann!Candidates
            <4>6. n \in Ann!Picked(k, b, first)
                BY <4>4, <4>5 DEF Ann!Picked
            <4>7. Ann!Due(k, b, n)
                BY <2>1, <3>2, <4>2 DEF Ann!Due
            <4>8. r \in [kind : {k}, period : Ann!Periods(k), board : Boards]
                BY <4>3
            <4>9. r \in Ann!Items(k, first)
                BY <4>6, <4>7, <4>8 DEF Ann!Items
            <4>10. k \in Ann!Kinds \ failed
                BY <4>2 DEF Ann!Kinds
            <4>11. r \in Ann!Told(failed, first)
                BY <4>9, <4>10 DEF Ann!Told
            <4> QED BY <1>1, <4>11
        <3> QED BY <3>1, <3>2
    <2>2. ASSUME NEW k \in Calendar, NEW b \in inSeason', NEW n \in served'[k],
                 [kind |-> k, period |-> n, board |-> b] \in busy'
          PROVE  Ann!Stored(k, n, b)'
        BY <1>2, <1>3, <2>1, <2>2 DEF Ann!Stored
    <2> QED BY <2>2 DEF NewsGetsOut, Ann!NewsGetsOut
<1> QED BY <1>4, <1>5, <1>6, <1>7 DEF FeedInv

\* A bot's poll, answered from a page kept or built now: it is a prefix of what
\* is behind the cursor, so the cursor passes only what the bot has heard.
LEMMA AskKeeps ==
    ASSUME FeedInv, NEW c \in Bots, NEW w, Ann!Ask(c, w)
    PROVE  FeedInv'
<1>1. PICK entry :
          /\ entry.kinds = asksFor[c] /\ entry.since = cursor[c] /\ PageFits(entry)
          /\ cache' = cache \cup {entry}
          /\ heard' = [heard EXCEPT ![c] = @ \cup entry.page]
          /\ cursor' = [cursor EXCEPT ![c] =
                 CHOOSE i \in entry.page \cup {@} : \A j \in entry.page \cup {@} : j <= i]
    <2> DEFINE kept == Ann!Cached(w, asksFor[c], cursor[c])
               built == [web |-> w, kinds |-> asksFor[c], since |-> cursor[c],
                         page |-> Ann!Page(asksFor[c], cursor[c])]
               entry == IF kept # {} THEN CHOOSE e \in kept : TRUE ELSE built
    <2>1. CASE kept # {}
        <3>1. entry \in kept
            BY <2>1
        <3>2. entry \in cache /\ entry.kinds = asksFor[c] /\ entry.since = cursor[c]
            BY <3>1 DEF Ann!Cached
        <3>3. PageFits(entry)
            BY <3>2 DEF FeedInv, PagesInv
        <3> HIDE DEF kept, built
        <3> QED BY <3>2, <3>3 DEF Ann!Ask, kept, built
    <2>2. CASE kept = {}
        <3>1. entry = built
            BY <2>2
        <3>2. built.page = Ann!Page(asksFor[c], cursor[c]) /\ built.kinds = asksFor[c]
              /\ built.since = cursor[c]
            OBVIOUS
        <3>3. PageFits(built)
            BY <3>2, PageIsPrefix DEF PageFits, FeedInv, FeedType
        <3> QED BY <3>1, <3>2, <3>3 DEF Ann!Ask
    <2> QED BY <2>1, <2>2
<1>2. UNCHANGED <<today, inSeason, busy, feed, served, asksFor>>
    BY DEF Ann!Ask
<1>3. /\ DOMAIN feed = 1..Len(feed) /\ Len(feed) \in Nat
      /\ cursor[c] \in Nat /\ cursor[c] <= Len(feed)
    BY DEF FeedInv, FeedType, PagesInv
<1>4. entry.page \subseteq 1..Len(feed)
    BY <1>1, <1>3 DEF PageFits
<1>5. cursor'[c] \in entry.page \cup {cursor[c]}
    <2> DEFINE S == entry.page \cup {cursor[c]}
    <2>1. S \subseteq Nat /\ S # {} /\ \A x \in S : x <= Len(feed)
        BY <1>3, <1>4
    <2>2. cursor'[c] = CHOOSE i \in S : \A j \in S : j <= i
        BY <1>1 DEF FeedInv, FeedType
    <2> HIDE DEF S
    <2>3. \E i \in S : \A j \in S : j <= i
        BY <1>3, <2>1, MaxOfNats
    <2>4. cursor'[c] \in S
        BY <2>2, <2>3
    <2> QED BY <2>4 DEF S
<1>6. /\ cursor'[c] \in Nat /\ cursor'[c] <= Len(feed)
      /\ \A d \in Bots \ {c} : cursor'[d] = cursor[d] /\ heard'[d] = heard[d]
      /\ heard'[c] = heard[c] \cup entry.page
      /\ DOMAIN cursor' = Bots
    <2> DEFINE top == CHOOSE i \in entry.page \cup {cursor[c]} :
                          \A j \in entry.page \cup {cursor[c]} : j <= i
    <2>1. cursor' = [cursor EXCEPT ![c] = top]
        BY <1>1
    <2> HIDE DEF top
    <2>2. cursor'[c] \in Nat /\ cursor'[c] <= Len(feed)
        BY <1>3, <1>4, <1>5
    <2>3. cursor \in [Bots -> Nat] /\ heard \in [Bots -> SUBSET Nat]
        BY DEF FeedInv, FeedType
    <2>4. \A d \in Bots \ {c} : cursor'[d] = cursor[d] /\ heard'[d] = heard[d]
        BY <1>1, <2>1, <2>3
    <2>5. heard'[c] = heard[c] \cup entry.page /\ DOMAIN cursor' = Bots
        BY <1>1, <2>1, <2>3
    <2> QED BY <2>2, <2>4, <2>5
<1>7. FeedType'
    <2>1. cursor' \in [Bots -> Nat]
        BY <1>1, <1>6 DEF FeedInv, FeedType
    <2>2. heard' \in [Bots -> SUBSET Nat]
        BY <1>1, <1>4 DEF FeedInv, FeedType
    <2> QED BY <1>2, <2>1, <2>2 DEF FeedInv, FeedType, Ann!News, Ann!Periods, Ann!Kinds
<1>8. PagesInv'
    <2>1. \A e \in cache' : PageFits(e)
        BY <1>1 DEF FeedInv, PagesInv
    <2>2. \A d \in Bots : cursor'[d] <= Len(feed)
        BY <1>6 DEF FeedInv, PagesInv
    <2> QED BY <1>2, <2>1, <2>2 DEF PagesInv, PageFits
<1>9. NothingSkipped'
    <2>1. ASSUME NEW d \in Bots, NEW i \in DOMAIN feed,
                 i <= cursor'[d], feed[i].kind \in asksFor[d]
          PROVE  i \in heard'[d]
        <3>1. i <= cursor[d] => i \in heard[d]
            BY <2>1 DEF FeedInv, NothingSkipped, Ann!NothingSkipped
        <3>2. CASE d # c
            BY <1>6, <2>1, <3>1, <3>2
        <3>3. CASE d = c /\ i <= cursor[c]
            BY <1>6, <3>1, <3>3
        <3>4. CASE d = c /\ i > cursor[c]
            <4>1. cursor'[c] \in entry.page
                BY <1>3, <1>5, <2>1, <3>4
            <4>2. i \in 1..cursor'[c]
                BY <1>3, <1>6, <2>1, <3>4
            <4>3. i \in entry.page
                BY <1>1, <2>1, <3>4, <4>1, <4>2 DEF PageFits
            <4> QED BY <1>6, <3>4, <4>3
        <3> QED BY <1>3, <3>2, <3>3, <3>4 DEF FeedInv, FeedType
    <2> QED BY <1>2, <2>1 DEF NothingSkipped, Ann!NothingSkipped
<1>10. NewsGetsOut'
    BY <1>2 DEF FeedInv, NewsGetsOut, Ann!NewsGetsOut, Ann!Stored
<1> QED BY <1>7, <1>8, <1>9, <1>10 DEF FeedInv

LEMMA FeedStep == FeedInv /\ [Ann!Next]_Ann!vars => FeedInv'
<1> SUFFICES ASSUME FeedInv, [Ann!Next]_Ann!vars PROVE FeedInv'
    OBVIOUS
<1> DEFINE quiet == UNCHANGED <<inSeason, busy, feed, served, asksFor, cursor, heard>>
<1>1. ASSUME quiet, cache' \subseteq cache PROVE FeedInv'
    <2>1. FeedType' /\ PagesInv'
        BY <1>1 DEF FeedInv, FeedType, PagesInv, PageFits, Ann!News, Ann!Periods, Ann!Kinds
    <2>2. NothingSkipped' /\ NewsGetsOut'
        BY <1>1 DEF FeedInv, NothingSkipped, Ann!NothingSkipped, NewsGetsOut, Ann!NewsGetsOut, Ann!Stored
    <2> QED BY <2>1, <2>2 DEF FeedInv
<1>2. CASE UNCHANGED Ann!vars
    BY <1>1, <1>2 DEF Ann!vars
<1>3. CASE Ann!Tick \/ Ann!Stop \/ Ann!Restart
    BY <1>1, <1>3 DEF Ann!Tick, Ann!Stop, Ann!Restart, Ann!readers
<1>4. ASSUME NEW k, NEW b, Ann!Close(k, b) \/ \E n \in Ann!Periods(k) : Ann!Refreeze(k, b, n)
      PROVE  FeedInv'
    BY <1>1, <1>4 DEF Ann!Close, Ann!Refreeze, Ann!readers
<1>5. ASSUME NEW w, Ann!Expire(w) PROVE FeedInv'
    BY <1>1, <1>5 DEF Ann!Expire
<1>6. CASE Ann!Next
    <2>1. ASSUME NEW failed, NEW first \in BOOLEAN, Ann!Poll(failed, first) PROVE FeedInv'
        BY <2>1, PollKeeps
    <2>2. ASSUME NEW c \in Bots, NEW w, Ann!Ask(c, w) PROVE FeedInv'
        BY <2>2, AskKeeps
    <2> HIDE DEF FeedInv, quiet
    <2> QED BY <1>3, <1>4, <1>5, <1>6, <2>1, <2>2 DEF Ann!Next
<1> QED BY <1>2, <1>6

LEMMA FeedAlways == Ann!Spec => []FeedInv
<1>1. Ann!Init => FeedInv
    <2> SUFFICES ASSUME Ann!Init PROVE FeedInv
        OBVIOUS
    <2>1. FeedType
        BY DEF Ann!Init, FeedType
    <2>2. PagesInv
        BY DEF Ann!Init, PagesInv
    <2>3. NothingSkipped
        BY DEF Ann!Init, NothingSkipped, Ann!NothingSkipped
    <2>4. NewsGetsOut
        BY DEF Ann!Init, NewsGetsOut, Ann!NewsGetsOut
    <2> QED BY <2>1, <2>2, <2>3, <2>4 DEF FeedInv
<1> QED BY <1>1, FeedStep, PTL DEF Ann!Spec

\* A bot that polls with next_since has heard every announcement below its
\* cursor, for any page size, whatever was cached or stored in between.
THEOREM NothingEverSkipped == Ann!Spec => []NothingSkipped
<1>1. FeedInv => NothingSkipped
    BY DEF FeedInv
<1> QED BY <1>1, FeedAlways, PTL

\* A week or a net with something to tell is stored by the first poll its
\* provider answers in time, whichever other provider raises.
THEOREM NewsAlwaysGetsOut == Ann!Spec => []NewsGetsOut
<1>1. FeedInv => NewsGetsOut
    BY DEF FeedInv
<1> QED BY <1>1, FeedAlways, PTL
=============================================================================
