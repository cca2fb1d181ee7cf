-------------------------- MODULE TerritoryProofs --------------------------
(***************************************************************************)
(* What holds of Territory for every roster, board and setting.            *)
(***************************************************************************)
EXTENDS Territory, FiniteSetTheorems, TLAPS

\* The numbers behind the settings are naturals.
LEMMA Numbers ==
  /\ Points \in Nat /\ MaxPoints \in Nat /\ Bonus \in Nat /\ Decay \in Nat
  /\ Defense \in Nat /\ Cooldown \in Nat /\ Clamp \in Nat /\ Retention \in Nat
  /\ ZeroSpan \in Nat /\ MaxPerSweep \in Nat /\ Lag \in Nat /\ Horizon \in Nat
BY NumbersAreNatural

\* The scoring clock is an instant within Clamp of the receipt.
LEMMA ClampBounds ==
  ASSUME NEW ts \in Int, NEW received \in Int
  PROVE  /\ ClampScoringClock(ts, received) \in Int
         /\ received - Clamp <= ClampScoringClock(ts, received)
         /\ ClampScoringClock(ts, received) <= received + Clamp
BY Numbers DEF ClampScoringClock

\* A team's score read at any instant is a number.
LEMMA TeamScoreType ==
  ASSUME TypeOK, NEW c \in Cells, NEW team \in Teams, NEW t \in Int
  PROVE  GetTeamScore(c, team, t) \in Int
<1>1. score[c][team] \in ScoreRow \cup {NoRow}
  BY DEF TypeOK
<1>2. CASE score[c][team] = NoRow
  BY <1>2 DEF GetTeamScore
<1>3. CASE score[c][team] # NoRow
  <2>1. score[c][team].pts \in Int /\ score[c][team].last \in Int
    BY <1>1, <1>3 DEF ScoreRow
  <2>2. DecayedScore(score[c][team].pts, score[c][team].last, t) \in Int
    BY <2>1, Numbers DEF DecayedScore
  <2> QED
    BY <1>3, <2>2 DEF GetTeamScore
<1> QED
  BY <1>2, <1>3

\* Resolving a paint keeps the board's five tables well typed.
LEMMA ResolveType ==
  ASSUME TypeOK,
         NEW p \in Players, NEW team \in Teams, NEW c \in Cells,
         NEW t \in Int, NEW points \in Int,
         ResolveOwnership(p, team, c, t, points)
  PROVE  /\ score' \in [Cells -> [Teams -> ScoreRow \cup {NoRow}]]
         /\ painter' \subseteq Cells \X Teams \X Players
         /\ tile' \in [Cells -> Teams \cup {NoTeam}]
         /\ capture' \in [Cells -> CaptureRow \cup {NoRow}]
         /\ log' \in [Cells -> Seq(LogRow)]
<1> DEFINE mine  == PaintedScore(p, team, c, t, points)
           flips == Flips(p, team, c, t, points)
           takes == Takes(p, team, c, t, points)
<1>1. mine \in Int
  BY TeamScoreType, Numbers DEF PaintedScore
<1>2. painter' \subseteq Cells \X Teams \X Players
  BY DEF ResolveOwnership, TypeOK
<1>3. score' = [score EXCEPT ![c] =
           [k \in Teams |-> IF k = team THEN [pts |-> mine, last |-> t]
                            ELSE IF flips /\ k = tile[c] THEN [pts |-> 0, last |-> t]
                            ELSE score[c][k]]]
  BY DEF ResolveOwnership
<1>4. [k \in Teams |-> IF k = team THEN [pts |-> mine, last |-> t]
                       ELSE IF flips /\ k = tile[c] THEN [pts |-> 0, last |-> t]
                       ELSE score[c][k]] \in [Teams -> ScoreRow \cup {NoRow}]
  <2>1. score[c] \in [Teams -> ScoreRow \cup {NoRow}]
    BY DEF TypeOK
  <2>2. [pts |-> mine, last |-> t] \in ScoreRow /\ [pts |-> 0, last |-> t] \in ScoreRow
    BY <1>1 DEF ScoreRow
  <2> HIDE DEF mine, flips
  <2> QED
    BY <2>1, <2>2
<1>5. score' \in [Cells -> [Teams -> ScoreRow \cup {NoRow}]]
  <2> HIDE DEF mine, flips
  <2> QED
    BY <1>3, <1>4 DEF TypeOK
<1>6. tile' \in [Cells -> Teams \cup {NoTeam}]
  BY DEF ResolveOwnership, TypeOK
<1>7. /\ tile' = IF takes THEN [tile EXCEPT ![c] = team] ELSE tile
      /\ capture' = IF takes THEN [capture EXCEPT ![c] = [at |-> t, by |-> team]]
                             ELSE capture
      /\ log' = IF takes /\ t \notin LoggedAt(c)
                THEN [log EXCEPT ![c] = Append(@, [ts |-> t, by |-> team, from |-> tile[c]])]
                ELSE log
  BY DEF ResolveOwnership
<1>8. capture' \in [Cells -> CaptureRow \cup {NoRow}]
  <2> HIDE DEF takes
  <2>1. [at |-> t, by |-> team] \in CaptureRow
    BY DEF CaptureRow
  <2> QED
    BY <1>7, <2>1 DEF TypeOK
<1>9. log' \in [Cells -> Seq(LogRow)]
  <2>1. [ts |-> t, by |-> team, from |-> tile[c]] \in LogRow
    BY DEF LogRow, TypeOK
  <2>2. log \in [Cells -> Seq(LogRow)]
    BY DEF TypeOK
  <2> HIDE DEF takes
  <2>3. Append(log[c], [ts |-> t, by |-> team, from |-> tile[c]]) \in Seq(LogRow)
    BY <2>1, <2>2
  <2> QED
    BY <1>7, <2>2, <2>3
<1> QED
  BY <1>2, <1>5, <1>6, <1>8, <1>9

\* The ids credited to a player in a cell are finitely many known ids.
LEMMA CreditedIdsType ==
  ASSUME TypeOK, NEW p \in Players, NEW c \in Cells, NEW t \in Int
  PROVE  /\ CreditedIds(p, c, t) \subseteq Ids
         /\ IsFiniteSet(CreditedIds(p, c, t))
         /\ Cardinality(CreditedIds(p, c, t)) \in Nat
<1>1. CreditedIds(p, c, t) \subseteq Ids
  BY DEF CreditedIds, CreditRowsSince, TypeOK, CreditRow
<1>2. IsFiniteSet(Ids)
  BY ConstantsAreDistinct, FS_AddElement DEF Ids
<1> QED
  BY <1>1, <1>2, FS_Subset, FS_CardinalityType

\* What is left of a visit's cap is a number between zero and the cap.
LEMMA RemainingType ==
  ASSUME TypeOK, NEW p \in Players, NEW c \in Cells, NEW t \in Int
  PROVE  RemainingPoints(p, c, t) \in 0..MaxPoints
<1>1. Cardinality(CreditedIds(p, c, t)) * Points \in Nat
  BY CreditedIdsType, Numbers
<1> QED
  BY <1>1, Numbers DEF RemainingPoints, Least

\* A choice of credits is a finite set of repeaters the ping named, none of
\* them, nor a twin of it, credited in the window, and no two of them twins.
LEMMA ChoiceFacts ==
  ASSUME TypeOK, NEW p \in Players, NEW c \in Cells, NEW t \in Int,
         NEW ids \in SUBSET Repeaters, NEW chosen \in CreditChoices(p, c, ids, t)
  PROVE  /\ chosen \subseteq ids
         /\ Cardinality(chosen) \in Nat
         /\ \A i \in chosen, k \in CreditedIds(p, c, t) : k # i /\ ~AreTwins(i, k)
         /\ \A i, j \in chosen : ~AreTwins(i, j)
<1>1. chosen \subseteq NewIds(p, c, ids, t)
  BY DEF CreditChoices
<1>2. chosen \subseteq ids
  BY <1>1 DEF NewIds, DedupeTwins
<1>3. Cardinality(chosen) \in Nat
  BY <1>2, ConstantsAreDistinct, FS_Subset, FS_CardinalityType
<1>4. \A i \in chosen, k \in CreditedIds(p, c, t) : k # i /\ ~AreTwins(i, k)
  BY <1>1 DEF NewIds
<1>5. \A i, j \in chosen : ~AreTwins(i, j)
  BY <1>1, <1>2 DEF NewIds, DedupeTwins, AreTwins
<1> QED
  BY <1>2, <1>3, <1>4, <1>5

\* Recording credits keeps the credit table and its history well typed.
LEMMA RecordType ==
  ASSUME TypeOK,
         NEW p \in Players, NEW c \in Cells, NEW ids \in SUBSET Ids,
         NEW t \in Int, NEW received \in Int,
         RecordCredit(p, c, ids, t, received)
  PROVE  credit' \subseteq CreditRow /\ awards' \subseteq Award
<1>1. \A i \in ids :
        /\ [player |-> p, cell |-> c, id |-> i, ts |-> t, seen |-> received] \in CreditRow
        /\ [player |-> p, cell |-> c, id |-> i, ts |-> t] \in Award
  BY DEF CreditRow, Award
<1> QED
  BY <1>1 DEF RecordCredit, TypeOK

\* Remembering a cell's last score keeps that table well typed.
LEMMA RememberType ==
  ASSUME TypeOK, NEW c \in Cells, NEW points \in Int, NEW t \in Int,
         RememberLastScore(c, points, t)
  PROVE  lastScore' \in [Cells -> LastRow \cup {NoRow}]
<1>1. [pts |-> points, ts |-> t] \in LastRow
  BY DEF LastRow
<1>2. CASE lastScore' = lastScore
  BY <1>2 DEF TypeOK
<1>3. CASE lastScore' = [lastScore EXCEPT ![c] = [pts |-> points, ts |-> t]]
  BY <1>1, <1>3 DEF TypeOK
<1> QED
  BY <1>2, <1>3 DEF RememberLastScore

\* What a DEFER is worth is a number.
LEMMA DeferPointsType ==
  ASSUME TypeOK, NEW c \in Cells
  PROVE  DeferPoints(c) \in Int
BY Numbers DEF DeferPoints, TypeOK, LastRow

\* A scored ping is a choice of credits at a clamped clock, with its points.
LEMMA PingFacts ==
  ASSUME TypeOK, NEW p \in Players, NEW team \in Teams, NEW c \in Cells,
         NEW ids \in SUBSET Repeaters, NEW ts \in Int, NEW received \in Int,
         ScorePing(p, team, c, ids, ts, received)
  PROVE  \E t \in Int, chosen \in SUBSET Repeaters, points \in Int :
           /\ t = ClampScoringClock(ts, received)
           /\ received - Clamp <= t /\ t <= received + Clamp
           /\ \A i \in chosen, k \in CreditedIds(p, c, t) : k # i /\ ~AreTwins(i, k)
           /\ \A i, j \in chosen : ~AreTwins(i, j)
           /\ RecordCredit(p, c, chosen, t, received)
           /\ RememberLastScore(c, points, t)
           /\ ResolveOwnership(p, team, c, t, points)
           /\ now' = now
<1> DEFINE t == ClampScoringClock(ts, received)
<1>1. t \in Int /\ received - Clamp <= t /\ t <= received + Clamp
  BY ClampBounds
<1> HIDE DEF t
<1>2. PICK chosen \in CreditChoices(p, c, ids, t) :
        LET points == Least(Cardinality(chosen) * Points, RemainingPoints(p, c, t))
        IN  /\ RecordCredit(p, c, chosen, t, received)
            /\ RememberLastScore(c, points, t)
            /\ ResolveOwnership(p, team, c, t, points)
  BY DEF ScorePing, ApplyPaint, t
<1> DEFINE points == Least(Cardinality(chosen) * Points, RemainingPoints(p, c, t))
<1>3. /\ chosen \subseteq ids
      /\ Cardinality(chosen) \in Nat
      /\ \A i \in chosen, k \in CreditedIds(p, c, t) : k # i /\ ~AreTwins(i, k)
      /\ \A i, j \in chosen : ~AreTwins(i, j)
  BY <1>1, ChoiceFacts
<1>4. points \in Int
  <2>1. Cardinality(chosen) * Points \in Int
    BY <1>3, Numbers
  <2> QED
    BY <1>1, <2>1, RemainingType, Numbers DEF Least
<1>5. now' = now
  BY DEF ScorePing
<1> HIDE DEF points
<1>6. chosen \in SUBSET Repeaters
  BY <1>3
<1>7. RecordCredit(p, c, chosen, t, received) /\ RememberLastScore(c, points, t)
      /\ ResolveOwnership(p, team, c, t, points)
  BY <1>2 DEF points
<1> QED
  BY <1>1, <1>3, <1>4, <1>5, <1>6, <1>7 DEF t

\* The instants at which a batch can have been received are numbers.
LEMMA ReceiptType ==
  ASSUME TypeOK, NEW received \in ReceiptTimes
  PROVE  received \in Int /\ now - Lag <= received /\ received <= now
BY Numbers DEF ReceiptTimes, TypeOK

\* Every step of the board keeps its tables well typed.
LEMMA TypeStep == TypeOK /\ [Next]_vars => TypeOK'
<1> SUFFICES ASSUME TypeOK, [Next]_vars PROVE TypeOK'
  OBVIOUS
<1>1. CASE Tick
  BY <1>1 DEF Tick, TypeOK, board
<1>2. ASSUME NEW p \in Players, NEW team \in Teams, NEW c \in Cells,
             NEW ts \in ClientClocks, NEW received \in ReceiptTimes,
             NEW ids \in SUBSET Repeaters, ScorePing(p, team, c, ids, ts, received)
      PROVE  TypeOK'
  <2>1. ts \in Int /\ received \in Int
    BY ConstantsAreDistinct, ReceiptType
  <2>2. PICK t \in Int, chosen \in SUBSET Repeaters, points \in Int :
           /\ RecordCredit(p, c, chosen, t, received)
           /\ RememberLastScore(c, points, t)
           /\ ResolveOwnership(p, team, c, t, points)
           /\ now' = now
    BY <1>2, <2>1, PingFacts
  <2>3. chosen \subseteq Ids
    BY DEF Ids
  <2>4. credit' \subseteq CreditRow /\ awards' \subseteq Award
    BY <2>1, <2>2, <2>3, RecordType
  <2>5. lastScore' \in [Cells -> LastRow \cup {NoRow}]
    BY <2>2, RememberType
  <2>6. now' \in Nat
    BY <2>2 DEF TypeOK
  <2> QED
    BY <2>2, <2>4, <2>5, <2>6, ResolveType DEF TypeOK
<1>3. ASSUME NEW p \in Players, NEW team \in Teams, NEW c \in Cells,
             NEW ts \in ClientClocks, NEW received \in ReceiptTimes,
             ScoreDefer(p, team, c, ts, received)
      PROVE  TypeOK'
  <2> DEFINE t == ClampScoringClock(ts, received)
  <2>1. received \in Int /\ t \in Int
    BY ConstantsAreDistinct, ReceiptType, ClampBounds
  <2>2. /\ ResolveOwnership(p, team, c, t, DeferPoints(c))
        /\ \/ RecordCredit(p, c, {DeferId}, t, received)
           \/ credit' = credit /\ awards' = awards
        /\ lastScore' = lastScore /\ now' = now
    BY <1>3 DEF ScoreDefer, ApplyDefer
  <2> HIDE DEF t
  <2>3. credit' \subseteq CreditRow /\ awards' \subseteq Award
    <3>1. CASE RecordCredit(p, c, {DeferId}, t, received)
      BY <2>1, <3>1, RecordType DEF Ids
    <3>2. CASE credit' = credit /\ awards' = awards
      BY <3>2 DEF TypeOK
    <3> QED
      BY <2>2, <3>1, <3>2
  <2>4. DeferPoints(c) \in Int
    BY DeferPointsType
  <2> QED
    BY <2>1, <2>2, <2>3, <2>4, ResolveType DEF TypeOK
<1>4. CASE PruneCredits
  BY <1>4 DEF PruneCredits, TypeOK
<1>5. CASE ReleaseSweep
  <2>1. PICK E \in SweepChoices : ReleaseTiles(E)
    BY <1>5 DEF ReleaseSweep
  <2>2. tile' \in [Cells -> Teams \cup {NoTeam}]
        /\ capture' \in [Cells -> CaptureRow \cup {NoRow}]
    BY <2>1 DEF ReleaseTiles, TypeOK
  <2>3. log' \in [Cells -> Seq(LogRow)]
    <3>1. \A c \in Cells : [ts |-> now, by |-> NoTeam, from |-> tile[c]] \in LogRow
      BY DEF LogRow, TypeOK
    <3>2. \A c \in Cells : log[c] \in Seq(LogRow)
      BY DEF TypeOK
    <3>3. \A c \in Cells : Append(log[c], [ts |-> now, by |-> NoTeam, from |-> tile[c]]) \in Seq(LogRow)
      BY <3>1, <3>2
    <3> QED
      BY <2>1, <3>2, <3>3 DEF ReleaseTiles
  <2> QED
    BY <2>1, <2>2, <2>3 DEF ReleaseTiles, TypeOK
<1>6. CASE UNCHANGED vars
  BY <1>6 DEF vars, TypeOK
<1> QED
  BY <1>1, <1>2, <1>3, <1>4, <1>5, <1>6 DEF Next

\* The tables always hold rows of the shapes the code writes.
THEOREM TypeCorrect == Spec => []TypeOK
<1>1. Init => TypeOK
  BY DEF Init, TypeOK
<1> QED
  BY <1>1, TypeStep, PTL DEF Spec

----------------------------------------------------------------------------
(* The owner, its capture clock, its score row and the log agree           *)

\* No row since a cell's last release is dated after the capture its owner's
\* clock counts from.
SegmentAt(c) ==
  tile[c] # NoTeam =>
    \A i \in 1..Len(log[c]) : ReleasedSince(c, i) \/ log[c][i].ts <= capture[c].at

\* A newest row that is a capture is the owner's own, or stands a defense window
\* before the one that the log has no row of.
HandAt(c) ==
  LET newest == log[c][Len(log[c])]
  IN  log[c] # <<>> /\ newest.by # NoTeam =>
        /\ tile[c] # NoTeam
        /\ CaptureIsLogged(c) \/ capture[c].at - newest.ts >= Defense

BoardAt(c) == RecordedAt(c) /\ HeldAt(c) /\ SegmentAt(c) /\ HandAt(c)

BoardInv == TypeOK /\ \A c \in Cells : BoardAt(c)

\* A cell's log is a sequence of rows dated at instants.
LEMMA LogTimes ==
  ASSUME TypeOK, NEW c \in Cells
  PROVE  /\ log[c] \in Seq(LogRow) /\ Len(log[c]) \in Nat
         /\ \A i \in 1..Len(log[c]) : log[c][i].ts \in Int
         /\ log[c] # <<>> => Len(log[c]) \in 1..Len(log[c])
<1>1. log[c] \in Seq(LogRow)
  BY DEF TypeOK
<1>2. \A i \in 1..Len(log[c]) : log[c][i] \in LogRow
  BY <1>1
<1>3. \A r \in LogRow : r.ts \in Int
  BY DEF LogRow
<1>4. log[c] # <<>> => Len(log[c]) \in 1..Len(log[c])
  BY <1>1
<1> QED
  BY <1>1, <1>2, <1>3, <1>4

\* An added row is the newest one, and the others keep their places.
LEMMA Appended ==
  ASSUME TypeOK, NEW c \in Cells, NEW row \in LogRow, log'[c] = Append(log[c], row)
  PROVE  /\ Len(log'[c]) = Len(log[c]) + 1 /\ log'[c] # <<>>
         /\ log'[c][Len(log[c]) + 1] = row
         /\ \A i \in 1..Len(log[c]) : log'[c][i] = log[c][i]
<1>1. log[c] \in Seq(LogRow) /\ Len(log[c]) \in Nat
  BY LogTimes
<1> QED
  BY <1>1

\* What was released stays released.
LEMMA ReleasedStays ==
  ASSUME TypeOK, NEW c \in Cells, NEW row \in LogRow, log'[c] = Append(log[c], row),
         NEW i \in 1..Len(log[c]), ReleasedSince(c, i)
  PROVE  ReleasedSince(c, i)'
<1>1. PICK j \in i..Len(log[c]) : log[c][j].by = NoTeam
  BY DEF ReleasedSince
<1>2. Len(log[c]) \in Nat /\ j \in 1..Len(log[c]) /\ i \in Nat
  BY LogTimes
<1>3. log'[c][j] = log[c][j] /\ Len(log'[c]) = Len(log[c]) + 1
  BY <1>2, Appended
<1>4. j \in i..Len(log'[c])
  BY <1>1, <1>2, <1>3
<1> QED
  BY <1>1, <1>3, <1>4 DEF ReleasedSince

\* A cell nobody holds was released since every row it has.
LEMMA FreeIsReleased ==
  ASSUME TypeOK, NEW c \in Cells, RecordedAt(c), tile[c] = NoTeam
  PROVE  \A i \in 1..Len(log[c]) : ReleasedSince(c, i)
<1> SUFFICES ASSUME NEW i \in 1..Len(log[c]) PROVE ReleasedSince(c, i)
  OBVIOUS
<1>1. log[c] \in Seq(LogRow) /\ Len(log[c]) \in Nat
  BY LogTimes
<1>2. log[c] # <<>> /\ Len(log[c]) \in i..Len(log[c])
  BY <1>1
<1>3. log[c][Len(log[c])].by = NoTeam
  BY <1>2 DEF RecordedAt
<1> QED
  BY <1>2, <1>3 DEF ReleasedSince

\* A second that a capture finds on the log is one from up to the last release:
\* every row since is dated before the defense window ran out.
LEMMA CollisionIsOld ==
  ASSUME TypeOK, NEW c \in Cells, BoardAt(c), NEW t \in Int, t \in LoggedAt(c),
         tile[c] # NoTeam => t - capture[c].at >= Defense /\ capture[c].at \in Int
  PROVE  t \in SecondsUpToRelease(c)
<1>1. PICK i \in 1..Len(log[c]) : log[c][i].ts = t
  BY DEF LoggedAt
<1>2. CASE tile[c] = NoTeam
  <2>1. ReleasedSince(c, i)
    BY <1>2, FreeIsReleased DEF BoardAt
  <2> QED
    BY <1>1, <2>1 DEF SecondsUpToRelease
<1>3. CASE tile[c] # NoTeam
  <2>1. ReleasedSince(c, i) \/ t <= capture[c].at
    BY <1>1, <1>3 DEF BoardAt, SegmentAt
  <2>2. ~(t <= capture[c].at)
    BY <1>3, Numbers, DefenseIsShipped
  <2> QED
    BY <1>1, <2>1, <2>2 DEF SecondsUpToRelease
<1> QED
  BY <1>2, <1>3

\* A row added to the log stands a defense window after the capture before it,
\* and names it or the unlogged one that came between.
LEMMA HeldAppends ==
  ASSUME TypeOK, NEW c \in Cells, BoardAt(c),
         NEW row \in LogRow, log'[c] = Append(log[c], row),
         row.from = tile[c], row.by # tile[c],
         tile[c] # NoTeam /\ row.by # NoTeam => row.ts - capture[c].at >= Defense
  PROVE  HeldAt(c)'
<1> DEFINE n == Len(log[c])
<1>1. n \in Nat /\ \A j \in 1..n : log[c][j].ts \in Int
  BY LogTimes
<1>2. /\ Len(log'[c]) = n + 1 /\ log'[c][n + 1] = row
      /\ \A j \in 1..n : log'[c][j] = log[c][j]
  BY Appended
<1>3. row.ts \in Int
  BY DEF LogRow
<1> SUFFICES ASSUME NEW i \in 1..n, log[c][i].by # NoTeam
             PROVE  /\ log'[c][i + 1].by # NoTeam => log'[c][i + 1].ts - log[c][i].ts >= Defense
                    /\ \/ log'[c][i + 1].from = log[c][i].by /\ log'[c][i + 1].by # log[c][i].by
                       \/ \E j \in 1..i : log[c][j].ts - log[c][i].ts >= Defense
  <2>1. \A i \in 1..n : \A j \in 1..i : j \in 1..n
    BY <1>1
  <2>2. \A i \in 1..(Len(log'[c]) - 1) : i \in 1..n
    BY <1>1, <1>2
  <2> HIDE DEF n
  <2> QED
    BY <1>2, <2>1, <2>2 DEF HeldAt
<1>4. CASE i < n
  <2>1. i \in 1..(n - 1) /\ i + 1 \in 1..n
    BY <1>1, <1>4
  <2> QED
    BY <1>2, <2>1 DEF BoardAt, HeldAt
<1>5. CASE i = n
  <2>1. log[c] # <<>> /\ log'[c][i + 1] = row
    BY <1>1, <1>2, <1>5
  <2>2. tile[c] # NoTeam
    BY <1>5, <2>1 DEF BoardAt, HandAt
  <2>3. capture[c] # NoRow /\ capture[c].at \in Int
    BY <2>2 DEF BoardAt, RecordedAt, TypeOK, CaptureRow
  <2>4. CASE CaptureIsLogged(c)
    BY <1>5, <2>1, <2>2, <2>4 DEF CaptureIsLogged
  <2>5. CASE ~CaptureIsLogged(c)
    <3>1. capture[c].at - log[c][n].ts >= Defense
      BY <1>5, <2>1, <2>5 DEF BoardAt, HandAt
    <3>2. PICK j \in 1..n : log[c][j].ts = capture[c].at
      BY <2>2, <2>5 DEF BoardAt, RecordedAt, SecondsUpToRelease
    <3>3. row.by # NoTeam => row.ts - log[c][i].ts >= Defense
      <4>1. ASSUME row.by # NoTeam PROVE row.ts - log[c][i].ts >= Defense
        <5>1. row.ts - capture[c].at >= Defense /\ log[c][i].ts \in Int
          BY <1>1, <2>2, <4>1
        <5> HIDE DEF n
        <5> QED
          BY <1>3, <1>5, <2>3, <3>1, <5>1, Numbers
      <4> QED
        BY <4>1
    <3>4. \E k \in 1..i : log[c][k].ts - log[c][i].ts >= Defense
      BY <1>5, <3>1, <3>2
    <3> QED
      BY <2>1, <3>3, <3>4
  <2> QED
    BY <2>4, <2>5
<1> QED
  BY <1>1, <1>4, <1>5

\* A cell whose owner, clock and log a step leaves alone stays as it was, if its
\* owner still has a score row.
LEMMA BoardKept ==
  ASSUME NEW c \in Cells, BoardAt(c),
         tile'[c] = tile[c], capture'[c] = capture[c], log'[c] = log[c],
         tile[c] # NoTeam => score'[c][tile[c]] # NoRow
  PROVE  BoardAt(c)'
BY DEF BoardAt, RecordedAt, HeldAt, SegmentAt, HandAt, CaptureIsLogged,
       SecondsUpToRelease, ReleasedSince, OwnerRow

\* A cell that is taken at t.
LEMMA TakenCell ==
  ASSUME TypeOK, NEW c \in Cells, BoardAt(c), NEW team \in Teams, NEW t \in Int,
         tile[c] # team,
         tile[c] # NoTeam => capture[c] # NoRow /\ t - capture[c].at >= Defense,
         tile'[c] = team, capture'[c] = [at |-> t, by |-> team],
         score'[c][team] # NoRow,
         log'[c] = IF t \in LoggedAt(c) THEN log[c]
                   ELSE Append(log[c], [ts |-> t, by |-> team, from |-> tile[c]])
  PROVE  BoardAt(c)'
<1> DEFINE row == [ts |-> t, by |-> team, from |-> tile[c]]
           n == Len(log[c])
<1>1. tile[c] # NoTeam => capture[c].at \in Int
  BY DEF TypeOK, CaptureRow
<1>2. capture'[c].at = t /\ capture'[c].by = team /\ capture'[c] # NoRow /\ team # NoTeam
  BY ConstantsAreDistinct
<1>3. /\ n \in Nat /\ \A i \in 1..n : log[c][i].ts \in Int
      /\ log[c] # <<>> => n \in 1..n
  BY LogTimes
<1>4. \A i \in 1..n : ReleasedSince(c, i) \/ log[c][i].ts <= t
  <2>1. CASE tile[c] = NoTeam
    BY <2>1, FreeIsReleased DEF BoardAt
  <2>2. CASE tile[c] # NoTeam
    <3>1. SUFFICES ASSUME NEW i \in 1..n, ~ReleasedSince(c, i) PROVE log[c][i].ts <= t
      OBVIOUS
    <3>2. log[c][i].ts <= capture[c].at
      BY <2>2, <3>1 DEF BoardAt, SegmentAt
    <3> HIDE DEF n
    <3> QED
      BY <1>1, <1>3, <2>2, <3>2, Numbers
  <2> QED
    BY <2>1, <2>2
<1>5. OwnerRow(c)' # NoRow
  BY DEF OwnerRow
<1>6. CASE t \in LoggedAt(c)
  <2>1. log'[c] = log[c]
    BY <1>6
  <2>2. RecordedAt(c)'
    <3>1. t \in SecondsUpToRelease(c)
      BY <1>1, <1>6, CollisionIsOld
    <3>2. t \in SecondsUpToRelease(c)'
      BY <2>1, <3>1 DEF SecondsUpToRelease, ReleasedSince
    <3> QED
      BY <1>2, <1>5, <3>2 DEF RecordedAt
  <2>3. HeldAt(c)'
    BY <2>1 DEF BoardAt, HeldAt
  <2>4. SegmentAt(c)'
    BY <1>2, <1>4, <2>1 DEF SegmentAt, ReleasedSince
  <2>5. HandAt(c)'
    <3>1. SUFFICES ASSUME log[c] # <<>>, log[c][n].by # NoTeam
                   PROVE  t - log[c][n].ts >= Defense
      BY <1>2, <2>1 DEF HandAt
    <3>2. tile[c] # NoTeam /\ (CaptureIsLogged(c) \/ capture[c].at - log[c][n].ts >= Defense)
      BY <3>1 DEF BoardAt, HandAt
    <3>3. log[c][n].ts \in Int
      BY <1>3, <3>1
    <3>4. log[c][n].ts = capture[c].at \/ capture[c].at - log[c][n].ts >= Defense
      BY <3>2 DEF CaptureIsLogged
    <3> HIDE DEF n
    <3> QED
      BY <1>1, <3>2, <3>3, <3>4, Numbers
  <2> QED
    BY <2>2, <2>3, <2>4, <2>5 DEF BoardAt
<1>7. CASE t \notin LoggedAt(c)
  <2>1. row \in LogRow /\ row.ts = t /\ row.by = team /\ row.from = tile[c]
    BY DEF LogRow, TypeOK
  <2>2. log'[c] = Append(log[c], row)
    BY <1>7
  <2> HIDE DEF row
  <2>3. /\ Len(log'[c]) = n + 1 /\ log'[c] # <<>> /\ log'[c][n + 1] = row
        /\ \A i \in 1..n : log'[c][i] = log[c][i]
    BY <2>1, <2>2, Appended
  <2>4. CaptureIsLogged(c)'
    BY <1>2, <2>1, <2>3 DEF CaptureIsLogged
  <2>5. RecordedAt(c)'
    BY <1>2, <1>5, <2>4 DEF RecordedAt
  <2>6. HeldAt(c)'
    BY <2>1, <2>2, HeldAppends
  <2>7. SegmentAt(c)'
    <3>1. SUFFICES ASSUME NEW i \in 1..(n + 1), ~ReleasedSince(c, i)'
                   PROVE  log'[c][i].ts <= t
      BY <1>2, <2>3 DEF SegmentAt
    <3>2. CASE i = n + 1
      BY <2>1, <2>3, <3>2
    <3>3. CASE i \in 1..n
      BY <1>4, <2>1, <2>2, <2>3, <3>1, <3>3, ReleasedStays
    <3> QED
      BY <1>3, <3>2, <3>3
  <2>8. HandAt(c)'
    BY <1>2, <2>4 DEF HandAt
  <2> QED
    BY <2>5, <2>6, <2>7, <2>8 DEF BoardAt
<1> QED
  BY <1>6, <1>7

\* Resolving a paint keeps every cell's owner, clock, score row and log in step.
LEMMA ResolveBoard ==
  ASSUME BoardInv,
         NEW p \in Players, NEW team \in Teams, NEW c \in Cells,
         NEW t \in Int, NEW points \in Int,
         ResolveOwnership(p, team, c, t, points)
  PROVE  \A d \in Cells : BoardAt(d)'
<1> DEFINE mine  == PaintedScore(p, team, c, t, points)
           flips == Flips(p, team, c, t, points)
           takes == Takes(p, team, c, t, points)
           row   == [ts |-> t, by |-> team, from |-> tile[c]]
<1>1. TypeOK /\ BoardAt(c) /\ \A d \in Cells : BoardAt(d)
  BY DEF BoardInv
<1>2. /\ score' = [score EXCEPT ![c] =
           [k \in Teams |-> IF k = team THEN [pts |-> mine, last |-> t]
                            ELSE IF flips /\ k = tile[c] THEN [pts |-> 0, last |-> t]
                            ELSE score[c][k]]]
      /\ tile' = IF takes THEN [tile EXCEPT ![c] = team] ELSE tile
      /\ capture' = IF takes THEN [capture EXCEPT ![c] = [at |-> t, by |-> team]]
                             ELSE capture
      /\ log' = IF takes /\ t \notin LoggedAt(c)
                THEN [log EXCEPT ![c] = Append(@, row)] ELSE log
  BY DEF ResolveOwnership
<1>3. /\ score \in [Cells -> [Teams -> ScoreRow \cup {NoRow}]]
      /\ tile \in [Cells -> Teams \cup {NoTeam}]
      /\ capture \in [Cells -> CaptureRow \cup {NoRow}]
      /\ log \in [Cells -> Seq(LogRow)]
  BY <1>1 DEF TypeOK
<1>4. [pts |-> mine, last |-> t] # NoRow
  <2>1. mine \in Int
    BY <1>1, TeamScoreType, Numbers DEF PaintedScore
  <2> HIDE DEF mine
  <2> QED
    BY <2>1, ConstantsAreDistinct
<1>5. takes => /\ tile[c] # team
               /\ tile[c] # NoTeam => ~InDefenseWindow(c, t)
  BY ConstantsAreDistinct DEF Takes, Flips
<1>6. takes /\ tile[c] # NoTeam => capture[c] # NoRow /\ t - capture[c].at >= Defense
  <2>1. tile[c] # NoTeam => capture[c] # NoRow
    BY <1>1 DEF BoardAt, RecordedAt
  <2>2. capture[c] # NoRow => capture[c].at \in Int
    BY <1>3 DEF CaptureRow
  <2> HIDE DEF takes
  <2> QED
    BY <1>5, <2>1, <2>2, Numbers DEF InDefenseWindow
<1>7. ~takes => ~flips
  BY DEF Takes
<1> HIDE DEF mine, flips, takes
<1>8. ASSUME NEW d \in Cells, d # c \/ ~takes
      PROVE  BoardAt(d)'
  <2>1. tile'[d] = tile[d] /\ capture'[d] = capture[d] /\ log'[d] = log[d]
    BY <1>2, <1>3, <1>8
  <2>2. ASSUME tile[d] # NoTeam PROVE score'[d][tile[d]] # NoRow
    <3>1. tile[d] \in Teams /\ score[d][tile[d]] # NoRow
      BY <1>1, <1>3, <2>2 DEF BoardAt, RecordedAt, OwnerRow
    <3> QED
      BY <1>2, <1>3, <1>4, <1>7, <1>8, <3>1
  <2> QED
    BY <1>1, <2>1, <2>2, BoardKept
<1>9. ASSUME takes PROVE BoardAt(c)'
  <2>1. tile'[c] = team /\ capture'[c] = [at |-> t, by |-> team]
    BY <1>2, <1>3, <1>9
  <2>2. log'[c] = IF t \in LoggedAt(c) THEN log[c] ELSE Append(log[c], row)
    BY <1>2, <1>3, <1>9
  <2>3. score'[c][team] # NoRow
    BY <1>2, <1>3, <1>4
  <2> QED
    BY <1>1, <1>5, <1>6, <1>9, <2>1, <2>2, <2>3, TakenCell
<1> QED
  BY <1>8, <1>9

\* A release removes owner and capture clock together and logs itself last.
LEMMA ReleaseBoard ==
  ASSUME BoardInv, NEW E \in SweepChoices, ReleaseTiles(E)
  PROVE  \A c \in Cells : BoardAt(c)'
<1> SUFFICES ASSUME NEW c \in Cells PROVE BoardAt(c)'
  OBVIOUS
<1> DEFINE row == [ts |-> now, by |-> NoTeam, from |-> tile[c]]
<1>1. TypeOK /\ BoardAt(c)
  BY DEF BoardInv
<1>2. CASE c \notin E
  <2>1. /\ tile'[c] = tile[c] /\ capture'[c] = capture[c] /\ log'[c] = log[c]
        /\ score' = score
    BY <1>2 DEF ReleaseTiles
  <2> QED
    BY <1>1, <2>1, BoardKept DEF BoardAt, RecordedAt, OwnerRow
<1>3. CASE c \in E
  <2>1. tile[c] # NoTeam
    BY <1>3 DEF SweepChoices, ExpiredTiles, Expired
  <2>2. tile'[c] = NoTeam /\ capture'[c] = NoRow /\ log'[c] = Append(log[c], row)
    BY <1>3 DEF ReleaseTiles
  <2>3. row \in LogRow /\ row.by = NoTeam /\ row.from = tile[c]
    BY <1>1 DEF LogRow, TypeOK
  <2> HIDE DEF row
  <2>4. Len(log'[c]) = Len(log[c]) + 1 /\ log'[c][Len(log'[c])] = row
    BY <1>1, <2>2, <2>3, Appended
  <2>5. RecordedAt(c)' /\ SegmentAt(c)' /\ HandAt(c)'
    BY <2>2, <2>3, <2>4 DEF RecordedAt, SegmentAt, HandAt
  <2>6. HeldAt(c)'
    BY <1>1, <2>1, <2>2, <2>3, HeldAppends
  <2> QED
    BY <2>5, <2>6 DEF BoardAt
<1> QED
  BY <1>2, <1>3

\* Steps that leave the board's five tables alone leave the invariant alone.
LEMMA BoardUnchanged ==
  ASSUME BoardInv, UNCHANGED board
  PROVE  \A c \in Cells : BoardAt(c)'
BY BoardKept DEF BoardInv, BoardAt, RecordedAt, OwnerRow, board

\* Every step keeps a cell's owner, capture clock and log in agreement.
LEMMA BoardInductive == BoardInv /\ [Next]_vars => BoardInv'
<1> SUFFICES ASSUME BoardInv, [Next]_vars PROVE TypeOK' /\ \A d \in Cells : BoardAt(d)'
  BY DEF BoardInv
<1>0. TypeOK
  BY DEF BoardInv
<1>1. TypeOK'
  BY <1>0, TypeStep
<1>2. CASE Tick
  BY <1>1, <1>2, BoardUnchanged DEF Tick
<1>3. ASSUME NEW p \in Players, NEW team \in Teams, NEW c \in Cells,
             NEW ts \in ClientClocks, NEW received \in ReceiptTimes,
             NEW ids \in SUBSET Repeaters, ScorePing(p, team, c, ids, ts, received)
      PROVE  \A d \in Cells : BoardAt(d)'
  <2>1. ts \in Int /\ received \in Int
    BY <1>0, ConstantsAreDistinct, ReceiptType
  <2>2. PICK t \in Int, points \in Int : ResolveOwnership(p, team, c, t, points)
    BY <1>0, <1>3, <2>1, PingFacts
  <2> QED
    BY <2>2, ResolveBoard
<1>4. ASSUME NEW p \in Players, NEW team \in Teams, NEW c \in Cells,
             NEW ts \in ClientClocks, NEW received \in ReceiptTimes,
             ScoreDefer(p, team, c, ts, received)
      PROVE  \A d \in Cells : BoardAt(d)'
  <2> DEFINE t == ClampScoringClock(ts, received)
  <2>1. t \in Int
    BY <1>0, ConstantsAreDistinct, ReceiptType, ClampBounds
  <2>2. ResolveOwnership(p, team, c, t, DeferPoints(c))
    BY <1>4 DEF ScoreDefer, ApplyDefer
  <2> HIDE DEF t
  <2> QED
    BY <1>0, <2>1, <2>2, DeferPointsType, ResolveBoard
<1>5. CASE PruneCredits
  BY <1>1, <1>5, BoardUnchanged DEF PruneCredits, board
<1>6. CASE ReleaseSweep
  BY <1>1, <1>6, ReleaseBoard DEF ReleaseSweep
<1>7. CASE UNCHANGED vars
  BY <1>1, <1>7, BoardUnchanged DEF vars, board
<1> QED
  BY <1>1, <1>2, <1>3, <1>4, <1>5, <1>6, <1>7 DEF Next

LEMMA BoardInit == Init => BoardInv
<1> SUFFICES ASSUME Init PROVE BoardInv
  OBVIOUS
<1>1. TypeOK
  BY DEF Init, TypeOK
<1>2. \A c \in Cells : log[c] = <<>> /\ tile[c] = NoTeam /\ capture[c] = NoRow
  BY DEF Init
<1>3. \A c \in Cells : RecordedAt(c) /\ HeldAt(c) /\ SegmentAt(c) /\ HandAt(c)
  BY <1>2 DEF RecordedAt, HeldAt, SegmentAt, HandAt
<1> QED
  BY <1>1, <1>3 DEF BoardInv, BoardAt

\* In every season an owned cell has its capture clock and its owner's score row,
\* and its capture is the newest row of the log -- or is the one whose row the
\* log's key refused, its second being taken by a row up to the last release: no
\* release-free stretch of the log ever misses a capture for a second of its own.
THEOREM OwnerAlwaysRecorded == Spec => []OwnerIsRecorded
<1>1. BoardInv => OwnerIsRecorded
  BY DEF BoardInv, BoardAt, OwnerIsRecorded
<1> QED
  BY <1>1, BoardInit, BoardInductive, PTL DEF Spec

\* A captured cell cannot be flipped before its defense window has passed,
\* whatever the timestamps of the pings and the order they are processed in.
THEOREM DefenseAlwaysHeld == Spec => []DefenseHeld
<1>1. BoardInv => DefenseHeld
  BY DEF BoardInv, BoardAt, DefenseHeld
<1> QED
  BY <1>1, BoardInit, BoardInductive, PTL DEF Spec

----------------------------------------------------------------------------
(* Reading a cell's owner back from its log                                *)

NeverReleased(c) == \A i \in 1..Len(log[c]) : log[c][i].by # NoTeam

\* No row is dated later than a ping may be.
LogInv == \A c \in Cells : \A i \in 1..Len(log[c]) : log[c][i].ts <= now + Clamp

\* Every row a step adds is dated within the clock's allowance.
LEMMA LogGrows ==
  ASSUME TypeOK, LogInv, now' = now,
         \A c \in Cells : log'[c] # log[c] =>
           \E row \in LogRow : log'[c] = Append(log[c], row) /\ row.ts <= now + Clamp
  PROVE  LogInv'
<1>1. ASSUME NEW c \in Cells, NEW i \in 1..Len(log'[c])
      PROVE  log'[c][i].ts <= now + Clamp
  <2>1. CASE log'[c] = log[c]
    BY <1>1, <2>1 DEF LogInv
  <2>2. CASE log'[c] # log[c]
    <3>1. PICK row \in LogRow : log'[c] = Append(log[c], row) /\ row.ts <= now + Clamp
      BY <2>2
    <3>2. /\ Len(log'[c]) = Len(log[c]) + 1 /\ log'[c][Len(log[c]) + 1] = row
          /\ \A j \in 1..Len(log[c]) : log'[c][j] = log[c][j]
      BY <3>1, Appended
    <3>3. Len(log[c]) \in Nat
      BY LogTimes
    <3>4. i = Len(log[c]) + 1 \/ i \in 1..Len(log[c])
      BY <1>1, <3>2, <3>3
    <3> QED
      BY <3>1, <3>2, <3>4 DEF LogInv
  <2> QED
    BY <2>1, <2>2
<1> QED
  BY <1>1 DEF LogInv

\* A paint logs a capture at its own clock.
LEMMA ResolveLog ==
  ASSUME TypeOK, LogInv, now' = now,
         NEW p \in Players, NEW team \in Teams, NEW c \in Cells,
         NEW t \in Int, t <= now + Clamp, NEW points \in Int,
         ResolveOwnership(p, team, c, t, points)
  PROVE  LogInv'
<1> DEFINE row == [ts |-> t, by |-> team, from |-> tile[c]]
<1>1. log' = log \/ log' = [log EXCEPT ![c] = Append(@, row)]
  BY DEF ResolveOwnership
<1>2. row \in LogRow /\ row.ts <= now + Clamp
  BY DEF LogRow, TypeOK
<1>3. log \in [Cells -> Seq(LogRow)]
  BY DEF TypeOK
<1> HIDE DEF row
<1>4. \A d \in Cells : log'[d] # log[d] => log'[d] = Append(log[d], row)
  BY <1>1, <1>3
<1> QED
  BY <1>2, <1>4, LogGrows

\* A release is logged now.
LEMMA ReleaseLog ==
  ASSUME TypeOK, LogInv, NEW E \in SweepChoices, ReleaseTiles(E)
  PROVE  LogInv'
<1> DEFINE row(c) == [ts |-> now, by |-> NoTeam, from |-> tile[c]]
<1>1. now' = now /\ now \in Int /\ now <= now + Clamp
  BY Numbers DEF ReleaseTiles, TypeOK
<1>2. \A c \in Cells : row(c) \in LogRow /\ row(c).ts = now
  BY DEF LogRow, TypeOK
<1>3. \A c \in Cells : log'[c] # log[c] => log'[c] = Append(log[c], row(c))
  BY DEF ReleaseTiles
<1> HIDE DEF row
<1> QED
  BY <1>1, <1>2, <1>3, LogGrows

LEMMA LogInductive == TypeOK /\ LogInv /\ [Next]_vars => LogInv'
<1> SUFFICES ASSUME TypeOK, LogInv, [Next]_vars PROVE LogInv'
  OBVIOUS
<1>1. CASE Tick
  <2>1. log' = log /\ now' = now + 1 /\ now \in Int
    BY <1>1 DEF Tick, board, TypeOK
  <2>2. \A c \in Cells : \A i \in 1..Len(log[c]) : log[c][i].ts \in Int
    BY LogTimes
  <2> QED
    BY <2>1, <2>2, Numbers DEF LogInv
<1>2. ASSUME NEW p \in Players, NEW team \in Teams, NEW c \in Cells,
             NEW ts \in ClientClocks, NEW received \in ReceiptTimes,
             NEW ids \in SUBSET Repeaters, ScorePing(p, team, c, ids, ts, received)
      PROVE  LogInv'
  <2>1. ts \in Int /\ received \in Int /\ received <= now /\ now \in Int
    BY ConstantsAreDistinct, ReceiptType DEF TypeOK
  <2>2. PICK t \in Int, points \in Int :
          /\ t <= received + Clamp
          /\ ResolveOwnership(p, team, c, t, points)
          /\ now' = now
    BY <1>2, <2>1, PingFacts
  <2>3. t <= now + Clamp
    BY <2>1, <2>2, Numbers
  <2> QED
    BY <2>2, <2>3, ResolveLog
<1>3. ASSUME NEW p \in Players, NEW team \in Teams, NEW c \in Cells,
             NEW ts \in ClientClocks, NEW received \in ReceiptTimes,
             ScoreDefer(p, team, c, ts, received)
      PROVE  LogInv'
  <2> DEFINE t == ClampScoringClock(ts, received)
  <2>1. received \in Int /\ received <= now /\ now \in Int
    BY ReceiptType DEF TypeOK
  <2>2. t \in Int /\ t <= received + Clamp
    BY <2>1, ConstantsAreDistinct, ClampBounds
  <2>3. ResolveOwnership(p, team, c, t, DeferPoints(c)) /\ now' = now
    BY <1>3 DEF ScoreDefer, ApplyDefer
  <2> HIDE DEF t
  <2>4. t <= now + Clamp
    BY <2>1, <2>2, Numbers
  <2> QED
    BY <2>2, <2>3, <2>4, DeferPointsType, ResolveLog
<1>4. CASE PruneCredits
  BY <1>4 DEF PruneCredits, LogInv
<1>5. CASE ReleaseSweep
  BY <1>5, ReleaseLog DEF ReleaseSweep
<1>6. CASE UNCHANGED vars
  BY <1>6 DEF vars, LogInv
<1> QED
  BY <1>1, <1>2, <1>3, <1>4, <1>5, <1>6 DEF Next

\* What the log answers is the cell's owner: the newest row is the latest one, and
\* it is the owner's.
LEMMA LogAnswers == BoardInv /\ LogInv => OwnershipExactUntilRelease
<1> SUFFICES ASSUME TypeOK, LogInv, NEW c \in Cells, BoardAt(c), NeverReleased(c)
             PROVE  OwnershipAt(c, now + Clamp) = tile[c]
  BY DEF BoardInv, OwnershipExactUntilRelease, NeverReleased
<1> DEFINE n == Len(log[c])
           seen == {i \in 1..n : log[c][i].ts <= now + Clamp}
           Newest(i) == \A j \in seen : \/ log[c][j].ts < log[c][i].ts
                                        \/ log[c][j].ts = log[c][i].ts /\ j <= i
<1>1. log[c] \in Seq(LogRow) /\ n \in Nat /\ \A i \in 1..n : log[c][i].ts \in Int
  BY LogTimes
<1>2. seen = 1..n
  BY DEF LogInv
<1>3. \A i \in 1..n : ~ReleasedSince(c, i)
  BY <1>1 DEF ReleasedSince, NeverReleased
<1>4. tile[c] # NoTeam => CaptureIsLogged(c)
  <2>1. SecondsUpToRelease(c) = {}
    BY <1>3 DEF SecondsUpToRelease
  <2> QED
    BY <2>1 DEF BoardAt, RecordedAt
<1>5. CASE n = 0
  <2>1. log[c] = <<>> /\ seen = {}
    BY <1>1, <1>2, <1>5
  <2>2. tile[c] = NoTeam
    BY <1>4, <2>1 DEF CaptureIsLogged
  <2> QED
    BY <2>1, <2>2 DEF OwnershipAt
<1>6. CASE n # 0
  <2>1. n \in seen /\ seen # {} /\ log[c] # <<>> /\ n \in 1..n
    BY <1>1, <1>2, <1>6
  <2>2. log[c][n].by # NoTeam
    BY <2>1 DEF NeverReleased
  <2>3. tile[c] # NoTeam
    BY <2>1, <2>2 DEF BoardAt, HandAt
  <2>4. log[c][n].by = tile[c] /\ log[c][n].ts = capture[c].at
    BY <1>4, <2>3 DEF CaptureIsLogged
  <2>5. \A i \in 1..n : log[c][i].ts <= log[c][n].ts
    BY <1>3, <2>3, <2>4 DEF BoardAt, SegmentAt
  <2>6. Newest(n)
    BY <1>1, <1>2, <2>1, <2>5
  <2>7. \A i \in seen : Newest(i) => i = n
    BY <1>1, <1>2, <2>1, <2>5
  <2>8. (CHOOSE i \in seen : Newest(i)) = n
    <3> HIDE DEF Newest, seen, n
    <3> QED
      BY <2>1, <2>6, <2>7
  <2>9. OwnershipAt(c, now + Clamp) = log[c][n].by
    BY <2>1, <2>8 DEF OwnershipAt
  <2> QED
    BY <2>4, <2>9
<1> QED
  BY <1>5, <1>6

\* Until a cell is first released its log answers its owner, whatever order its
\* pings came in: a release is what breaks "exact".
THEOREM OwnershipAlwaysExactUntilRelease == Spec => []OwnershipExactUntilRelease
<1>1. Init => LogInv
  BY DEF Init, LogInv
<1>2. BoardInv /\ LogInv => OwnershipExactUntilRelease
  BY LogAnswers
<1>3. BoardInv /\ LogInv /\ [Next]_vars => LogInv'
  BY LogInductive DEF BoardInv
<1> QED
  BY <1>1, <1>2, <1>3, BoardInit, BoardInductive, PTL DEF Spec

----------------------------------------------------------------------------
(* A repeater is credited once per cooldown                                *)

\* Too old to share a cooldown window with any ping still to come.
Stale(a) == a.ts + Cooldown + Clamp + Lag < now

\* Every award that still matters is backed by a row at least as recent, and
\* a row's clock is never more than the allowance ahead of its receipt.
CreditInv ==
  /\ \A row \in credit : row.ts <= row.seen + Clamp
  /\ \A a \in awards :
       \/ Stale(a)
       \/ \E row \in credit : /\ row.player = a.player /\ row.cell = a.cell
                              /\ row.id = a.id /\ row.ts >= a.ts

\* Crediting ids that are out of cooldown keeps awards backed and spaced.
LEMMA RecordSpaced ==
  ASSUME TypeOK, CreditInv, CreditsAreSpaced,
         NEW p \in Players, NEW c \in Cells, NEW ids \in SUBSET Ids,
         NEW t \in Int, NEW received \in Int,
         now - Lag <= received, received - Clamp <= t, t <= received + Clamp,
         \A i \in ids, k \in CreditedIds(p, c, t) : k # i /\ ~AreTwins(i, k),
         \A i, j \in ids : ~AreTwins(i, j),
         RecordCredit(p, c, ids, t, received), now' = now
  PROVE  CreditInv' /\ CreditsAreSpaced'
<1> DEFINE newRow(i) == [player |-> p, cell |-> c, id |-> i, ts |-> t, seen |-> received]
           newAward(i) == [player |-> p, cell |-> c, id |-> i, ts |-> t]
<1>1. /\ credit' = {row \in credit : ~(row.player = p /\ row.cell = c /\ row.id \in ids)}
                     \cup {newRow(i) : i \in ids}
      /\ awards' = awards \cup {newAward(i) : i \in ids}
  BY DEF RecordCredit
<1>2. \A row \in credit : row.ts \in Int /\ row.seen \in Int
  BY DEF TypeOK, CreditRow
<1>3. \A a \in awards : a.ts \in Int
  BY DEF TypeOK, Award
<1>4. now \in Int
  BY DEF TypeOK
<1>5. ASSUME NEW b \in awards, b.player = p, b.cell = c, NEW i \in ids,
             b.id = i \/ AreTwins(i, b.id)
      PROVE  t - b.ts > Cooldown
  <2>1. CASE Stale(b)
    BY <1>3, <1>4, <2>1, Numbers DEF Stale
  <2>2. CASE ~Stale(b)
    <3>1. PICK row \in credit : /\ row.player = p /\ row.cell = c
                                /\ row.id = b.id /\ row.ts >= b.ts
      BY <1>5, <2>2 DEF CreditInv
    <3>2. ~(row.ts >= t - Cooldown)
      <4>1. row.ts >= t - Cooldown => row.id \in CreditedIds(p, c, t)
        BY <3>1 DEF CreditedIds, CreditRowsSince
      <4> QED
        BY <1>5, <3>1, <4>1
    <3> QED
      BY <1>2, <1>3, <3>1, <3>2, Numbers
  <2> QED
    BY <2>1, <2>2
<1>6. CreditInv'
  <2>1. \A row \in credit' : row.ts <= row.seen + Clamp
    BY <1>1 DEF CreditInv
  <2>2. ASSUME NEW a \in awards', ~Stale(a)'
        PROVE  \E row \in credit' : /\ row.player = a.player /\ row.cell = a.cell
                                    /\ row.id = a.id /\ row.ts >= a.ts
    <3>1. CASE a.player = p /\ a.cell = c /\ a.id \in ids
      <4>1. newRow(a.id) \in credit'
        BY <1>1, <3>1
      <4>2. t >= a.ts
        <5>1. CASE a \in awards
          <6>1. t - a.ts > Cooldown
            BY <1>5, <3>1, <5>1
          <6> QED
            BY <1>3, <5>1, <6>1, Numbers
        <5>2. CASE a \notin awards
          BY <1>1, <5>2
        <5> QED
          BY <5>1, <5>2
      <4> QED
        BY <3>1, <4>1, <4>2
    <3>2. CASE ~(a.player = p /\ a.cell = c /\ a.id \in ids)
      <4>1. a \in awards
        BY <1>1, <3>2
      <4>2. PICK row \in credit : /\ row.player = a.player /\ row.cell = a.cell
                                  /\ row.id = a.id /\ row.ts >= a.ts
        BY <2>2, <4>1 DEF CreditInv, Stale
      <4>3. row \in credit'
        BY <1>1, <3>2, <4>2
      <4> QED
        BY <4>2, <4>3
    <3> QED
      BY <3>1, <3>2
  <2> QED
    BY <2>1, <2>2 DEF CreditInv
<1>7. CreditsAreSpaced'
  <2>1. SUFFICES ASSUME NEW a \in awards', NEW b \in awards',
                        a # b, a.player = b.player, a.cell = b.cell,
                        a.id = b.id \/ AreTwins(a.id, b.id)
                 PROVE  a.ts - b.ts > Cooldown \/ b.ts - a.ts > Cooldown
    BY DEF CreditsAreSpaced
  <2>2. CASE a \in awards /\ b \in awards
    BY <2>1, <2>2 DEF CreditsAreSpaced
  <2>3. CASE a \notin awards /\ b \in awards
    <3>1. PICK i \in ids : a = newAward(i)
      BY <1>1, <2>3
    <3> QED
      BY <1>5, <2>1, <2>3, <3>1
  <2>4. CASE a \in awards /\ b \notin awards
    <3>1. PICK i \in ids : b = newAward(i)
      BY <1>1, <2>4
    <3>2. AreTwins(a.id, b.id) => AreTwins(b.id, a.id)
      BY DEF AreTwins
    <3> QED
      BY <1>5, <2>1, <2>4, <3>1, <3>2
  <2>5. CASE a \notin awards /\ b \notin awards
    <3>1. PICK i \in ids, j \in ids : a = newAward(i) /\ b = newAward(j)
      BY <1>1, <2>5
    <3> QED
      BY <2>1, <3>1
  <2> QED
    BY <2>2, <2>3, <2>4, <2>5
<1> QED
  BY <1>6, <1>7

\* A pruned credit row no longer matters to any ping still to come.
LEMMA PruneSpaced ==
  ASSUME TypeOK, CreditInv, CreditsAreSpaced, PruneCredits
  PROVE  CreditInv' /\ CreditsAreSpaced'
<1>1. credit' = {row \in credit : row.seen >= now - Retention}
      /\ awards' = awards /\ now' = now
  BY DEF PruneCredits
<1>2. ASSUME NEW a \in awards, ~Stale(a)
      PROVE  \E row \in credit' : /\ row.player = a.player /\ row.cell = a.cell
                                  /\ row.id = a.id /\ row.ts >= a.ts
  <2>1. PICK row \in credit : /\ row.player = a.player /\ row.cell = a.cell
                              /\ row.id = a.id /\ row.ts >= a.ts
    BY <1>2 DEF CreditInv
  <2>2. row.ts \in Int /\ row.seen \in Int /\ a.ts \in Int /\ now \in Int
    BY DEF TypeOK, CreditRow, Award
  <2>3. row.seen >= now - Retention
    BY <1>2, <2>1, <2>2, Numbers, RetentionOutlivesCooldown DEF CreditInv, Stale
  <2> QED
    BY <1>1, <2>1, <2>3
<1>3. CreditInv'
  BY <1>1, <1>2 DEF CreditInv, Stale
<1>4. CreditsAreSpaced'
  BY <1>1 DEF CreditsAreSpaced
<1> QED
  BY <1>3, <1>4

SpacingInv == TypeOK /\ CreditInv /\ CreditsAreSpaced

\* Every step keeps the credits spaced, and the table holding those that still count.
LEMMA SpacingInductive == SpacingInv /\ [Next]_vars => SpacingInv'
<1> SUFFICES ASSUME TypeOK, CreditInv, CreditsAreSpaced, [Next]_vars
             PROVE  TypeOK' /\ CreditInv' /\ CreditsAreSpaced'
  BY DEF SpacingInv
<1>1. TypeOK'
  BY TypeStep
<1>2. CASE Tick
  <2>1. credit' = credit /\ awards' = awards /\ now' = now + 1 /\ now \in Nat
    BY <1>2 DEF Tick, TypeOK
  <2>2. \A a \in awards : Stale(a) => Stale(a)'
    BY <2>1, Numbers DEF Stale, TypeOK, Award
  <2> QED
    BY <1>1, <2>1, <2>2 DEF CreditInv, CreditsAreSpaced
<1>3. ASSUME NEW p \in Players, NEW team \in Teams, NEW c \in Cells,
             NEW ts \in ClientClocks, NEW received \in ReceiptTimes,
             NEW ids \in SUBSET Repeaters, ScorePing(p, team, c, ids, ts, received)
      PROVE  CreditInv' /\ CreditsAreSpaced'
  <2>1. ts \in Int /\ received \in Int /\ now - Lag <= received
    BY ConstantsAreDistinct, ReceiptType
  <2>2. PICK t \in Int, chosen \in SUBSET Repeaters, points \in Int :
           /\ t = ClampScoringClock(ts, received)
           /\ received - Clamp <= t /\ t <= received + Clamp
           /\ \A i \in chosen, k \in CreditedIds(p, c, t) : k # i /\ ~AreTwins(i, k)
           /\ \A i, j \in chosen : ~AreTwins(i, j)
           /\ RecordCredit(p, c, chosen, t, received)
           /\ RememberLastScore(c, points, t)
           /\ ResolveOwnership(p, team, c, t, points)
           /\ now' = now
    BY <1>3, <2>1, PingFacts, SMTT(30)
  <2>3. chosen \in SUBSET Ids
    BY DEF Ids
  <2> QED
    BY <2>1, <2>2, <2>3, RecordSpaced
<1>4. ASSUME NEW p \in Players, NEW team \in Teams, NEW c \in Cells,
             NEW ts \in ClientClocks, NEW received \in ReceiptTimes,
             ScoreDefer(p, team, c, ts, received)
      PROVE  CreditInv' /\ CreditsAreSpaced'
  <2> DEFINE t == ClampScoringClock(ts, received)
             ids == {DeferId}
  <2>1. /\ received \in Int /\ now - Lag <= received
        /\ t \in Int /\ received - Clamp <= t /\ t <= received + Clamp
    BY ConstantsAreDistinct, ReceiptType, ClampBounds
  <2>2. /\ DeferId \notin CreditedIds(p, c, t)
        /\ \/ RecordCredit(p, c, ids, t, received)
           \/ credit' = credit /\ awards' = awards
        /\ now' = now
    BY <1>4 DEF ScoreDefer, ApplyDefer, DeferUnscored
  <2> HIDE DEF t
  <2>3. \A k \in Ids : ~AreTwins(DeferId, k)
    BY ConstantsAreDistinct DEF AreTwins
  <2>4. DeferId \in Ids /\ CreditedIds(p, c, t) \subseteq Ids
    BY <2>1, CreditedIdsType DEF Ids
  <2>5. /\ ids \in SUBSET Ids
        /\ \A i \in ids, k \in CreditedIds(p, c, t) : k # i /\ ~AreTwins(i, k)
        /\ \A i, j \in ids : ~AreTwins(i, j)
    BY <2>2, <2>3, <2>4
  <2> HIDE DEF ids
  <2>6. CASE RecordCredit(p, c, ids, t, received)
    BY <2>1, <2>2, <2>5, <2>6, RecordSpaced
  <2>7. CASE credit' = credit /\ awards' = awards
    BY <2>2, <2>7 DEF CreditInv, CreditsAreSpaced, Stale
  <2> QED
    BY <2>2, <2>6, <2>7
<1>5. CASE PruneCredits
  BY <1>1, <1>5, PruneSpaced
<1>6. CASE ReleaseSweep
  BY <1>1, <1>6 DEF ReleaseSweep, ReleaseTiles, CreditInv, CreditsAreSpaced, Stale
<1>7. CASE UNCHANGED vars
  BY <1>1, <1>7 DEF vars, CreditInv, CreditsAreSpaced, Stale
<1> QED
  BY <1>1, <1>2, <1>3, <1>4, <1>5, <1>6, <1>7 DEF Next

\* No repeater, at whatever hash width it is reported, earns a player two
\* credits in a cell within one cooldown, even though pings arrive out of
\* order and the table that remembers the credits is pruned.
THEOREM CreditsAlwaysSpaced == Spec => []CreditsAreSpaced
<1>1. Init => SpacingInv
  BY DEF Init, SpacingInv, TypeOK, CreditInv, CreditsAreSpaced
<1>2. SpacingInv => CreditsAreSpaced
  BY DEF SpacingInv
<1> QED
  BY <1>1, <1>2, SpacingInductive, PTL DEF Spec

============================================================================
