------------------------------- MODULE Months -------------------------------
(* How a month closes: maybe_roll_months and freeze_month of app/results.py, *)
(* called inside the transactions of the ingest batch, the check-in poll and *)
(* the admin's re-freeze, and the Discord outbox that announces the result   *)
(* (enqueue and _drain_once of app/discord_notify.py).                       *)
(*                                                                           *)
(* Two clocks meet here.  A batch is processed up to Lag after it was        *)
(* received, and closes months by its receipt time; its captures are dated   *)
(* by a client clock clamped to within Clamp of that receipt, so a capture   *)
(* can be dated in a month that is already frozen.  And two kinds of memory: *)
(* the memo _LAST_CHECKED lives in the process and survives a rollback,      *)
(* while month_result is in the database and does not.                       *)
(*                                                                           *)
(* One protocol, and captures only: check-ins also make a month a candidate. *)
(* Ticks are local time.  A frozen result stands for all that compute_month  *)
(* derives from the log: the set of captures dated before the month's end.   *)
EXTENDS Integers, FiniteSets, FiniteSetsExt, Functions

CONSTANTS
    Horizon,      \* the last tick of the model
    MonthLen,     \* ticks in a calendar month
    Clamp,        \* mc_clock_clamp_seconds, in ticks
    Lag,          \* how long a batch may wait in the queue
    UtcOffset,    \* how far UTC is ahead of checkin_net_timezone
    MaxAttempts,  \* discord_outbox_max_attempts
    MaxAge,       \* discord_outbox_max_age_hours, in ticks
    MaxTrouble    \* bound on rollbacks, restarts, lost replies and failed writes

ASSUME MonthNumbers == /\ {Horizon, Clamp, Lag, UtcOffset, MaxAge, MaxTrouble} \subseteq Nat
                       /\ {MonthLen, MaxAttempts} \subseteq Nat \ {0}

Ticks == 0..Horizon
Month(t) == t \div MonthLen
MonthEnd(m) == (m + 1) * MonthLen
MonthSet == 0..Month(Horizon)
NoMonth == -1

VARIABLES
    now,
    log,        \* mc_tile_capture_log: the scoring times of captures
    result,     \* month_result and its tables: month -> what it was frozen from
    memo,       \* _LAST_CHECKED: the month of the last check, or NoMonth
    enabled,    \* discord_config: announcements are on
    outbox,     \* discord_outbox: month -> [created, attempts, posted]
    drain,      \* the rows _drain_once read and has not come to
    phase,      \* "idle", or what became of the row it is at
    posts,      \* what Discord showed: posts per month
    lost,       \* deliveries the outbox did not get to record, per month
    trouble     \* failures so far

tables == <<log, result, outbox>>
draining == <<drain, phase, posts, lost>>
vars == <<now, log, result, memo, enabled, outbox, drain, phase, posts, lost, trouble>>

Trouble == trouble < MaxTrouble /\ trouble' = trouble + 1

-----------------------------------------------------------------------------
(* Freezing.                                                                 *)

\* The candidates of maybe_roll_months: months named in UTC by strftime, while
\* every other month here is a local one.
Active == {Month(t + UtcOffset) : t \in log}

Computed(m) == {t \in log : t < MonthEnd(m)}

\* Finished months that have activity and no result yet.
Pending(cur) == {m \in Active : m < cur /\ m \notin DOMAIN result}

\* INSERT OR REPLACE, and the rows of standings and awards rewritten.
Freeze(months) ==
    result' = [m \in months \cup DOMAIN result |->
                  IF m \in months THEN Computed(m) ELSE result[m]]

\* INSERT OR IGNORE on UNIQUE(kind, key), in the caller's transaction; nothing
\* while announcements are off.
Enqueue(months) ==
    outbox' = IF ~enabled THEN outbox
              ELSE [m \in months \cup DOMAIN outbox |->
                       IF m \in DOMAIN outbox THEN outbox[m]
                       ELSE [created |-> now, attempts |-> 0, posted |-> FALSE]]

\* What one call of maybe_roll_months writes to the database.
RollMonths(cur) ==
    IF memo = cur THEN UNCHANGED <<result, outbox>>
    ELSE Freeze(Pending(cur)) /\ Enqueue(Pending(cur))

\* The receipt times of the batches that may be processed now.
ReceiptTimes == {r \in Ticks : now - Lag <= r /\ r <= now}

\* _clamp_scoring_clock: the scoring times of a ping received at r.
ScoringTimes(r) == {t \in Ticks : r - Clamp <= t /\ t <= r + Clamp}

\* _process_batch_sync: months first, then the pings, in one transaction.
BatchCommits(r, t) ==
    /\ RollMonths(Month(r))
    /\ memo' = Month(r)
    /\ log' = log \cup {t}
    /\ UNCHANGED <<now, enabled, draining, trouble>>

\* Mutation: the announcement is queued in a transaction of its own.
CallerRollsBackAnnounced(cur) ==
    /\ Trouble
    /\ memo' = cur
    /\ IF memo = cur THEN UNCHANGED outbox ELSE Enqueue(Pending(cur))
    /\ UNCHANGED <<now, log, result, enabled, draining>>

\* A later statement of the transaction raises: the tables roll back, the memo
\* does not.  (A freeze that raises itself changes neither.)
CallerRollsBack(cur) ==
    /\ Trouble
    /\ memo' = cur
    /\ UNCHANGED <<now, tables, enabled, draining>>

Batch == \E r \in ReceiptTimes :
            \/ \E t \in ScoringTimes(r) : BatchCommits(r, t)
            \/ CallerRollsBack(Month(r))

\* The season and month bookkeeping of one check-in poll cycle.
CheckinPoll ==
    \/ /\ RollMonths(Month(now))
       /\ memo' = Month(now)
       /\ UNCHANGED <<now, log, enabled, draining, trouble>>
    \/ CallerRollsBack(Month(now))

\* POST /api/admin/month/freeze: any finished month, again if need be.  It runs in
\* a web process, whose memo it does not touch.
AdminFreeze(m) ==
    /\ m < Month(now)
    /\ Freeze({m})
    /\ Enqueue({m})
    /\ UNCHANGED <<now, log, memo, enabled, draining, trouble>>

-----------------------------------------------------------------------------
(* Announcing.                                                               *)

SetAnnouncements ==
    /\ enabled' = ~enabled
    /\ UNCHANGED <<now, tables, memo, draining, trouble>>

\* Mutation: a row already posted is read again.
SendableAgain == {m \in DOMAIN outbox : /\ outbox[m].created >= now - MaxAge
                                        /\ outbox[m].attempts < MaxAttempts}

Sendable == {m \in DOMAIN outbox : /\ ~outbox[m].posted
                                   /\ outbox[m].created >= now - MaxAge
                                   /\ outbox[m].attempts < MaxAttempts}

\* The read at the top of _drain_once.
BeginDrain ==
    /\ phase = "idle" /\ drain = {}
    /\ enabled
    /\ Sendable # {}
    /\ drain' = Sendable
    /\ UNCHANGED <<now, tables, memo, enabled, phase, posts, lost, trouble>>

\* The POST of the next row read, outside any transaction.  ORDER BY id is taken
\* in month order: no property tells one order of the months from another.
Post(outcome) ==
    /\ phase = "idle" /\ drain # {}
    /\ phase' = outcome
    /\ UNCHANGED <<now, tables, memo, enabled, drain>>

PostDelivered == /\ Post("posted")
                 /\ posts' = [posts EXCEPT ![Min(drain)] = @ + 1]
                 /\ UNCHANGED <<lost, trouble>>

PostRefused == Post("failed") /\ UNCHANGED <<posts, lost, trouble>>

\* The message is delivered and the answer is not: httpx raises a timeout.
PostTimesOut == /\ Trouble
                /\ Post("failed")
                /\ posts' = [posts EXCEPT ![Min(drain)] = @ + 1]
                /\ lost' = [lost EXCEPT ![Min(drain)] = @ + 1]

\* _mark_posted and _mark_failed.
MarkPosted ==
    /\ phase = "posted"
    /\ outbox' = [outbox EXCEPT ![Min(drain)].posted = TRUE]
    /\ drain' = drain \ {Min(drain)}
    /\ phase' = "idle"
    /\ UNCHANGED <<now, log, result, memo, enabled, posts, lost, trouble>>

MarkFailed ==
    /\ phase = "failed"
    /\ outbox' = [outbox EXCEPT ![Min(drain)].attempts = @ + 1]
    /\ drain' = drain \ {Min(drain)}
    /\ phase' = "idle"
    /\ UNCHANGED <<now, log, result, memo, enabled, posts, lost, trouble>>

\* What is lost with the drain's memory: a delivery not yet marked.
ForgetDrain ==
    /\ drain' = {}
    /\ phase' = "idle"
    /\ lost' = IF phase = "posted" THEN [lost EXCEPT ![Min(drain)] = @ + 1] ELSE lost
    /\ UNCHANGED posts

\* The marking write raises: run_forever logs it and starts the next cycle.
MarkRaises ==
    /\ phase # "idle"
    /\ Trouble
    /\ ForgetDrain
    /\ UNCHANGED <<now, tables, memo, enabled>>

\* The worker process restarts: its memory goes, the tables stay.
Restart ==
    /\ Trouble
    /\ memo' = NoMonth
    /\ ForgetDrain
    /\ UNCHANGED <<now, tables, enabled>>

Tick == /\ now < Horizon
        /\ now' = now + 1
        /\ UNCHANGED <<tables, memo, enabled, draining, trouble>>

-----------------------------------------------------------------------------

Init ==
    /\ now = 0
    /\ log = {}
    /\ result = [m \in {} |-> {}]
    /\ memo = NoMonth
    /\ enabled = TRUE
    /\ outbox = [m \in {} |-> {}]
    /\ drain = {}
    /\ phase = "idle"
    /\ posts = [m \in MonthSet |-> 0]
    /\ lost = [m \in MonthSet |-> 0]
    /\ trouble = 0

Next ==
    \/ Tick \/ Restart
    \/ Batch \/ CheckinPoll \/ \E m \in MonthSet : AdminFreeze(m)
    \/ SetAnnouncements
    \/ BeginDrain \/ PostDelivered \/ PostRefused \/ PostTimesOut
    \/ MarkPosted \/ MarkFailed \/ MarkRaises

Spec == Init /\ [][Next]_vars

-----------------------------------------------------------------------------
(* Properties.                                                               *)

\* "The month in progress is never frozen early", by the clock of whoever freezes:
\* a result is only ever of a month that is over.
OnlyFinishedMonths == \A m \in DOMAIN result : m < Month(now)

\* Every post beyond the first follows a delivery whose mark was lost.
PostsAccounted ==
    \A m \in MonthSet :
        posts[m] <= lost[m] + (IF \/ m \in DOMAIN outbox /\ outbox[m].posted
                                  \/ phase = "posted" /\ m = Min(drain) THEN 1 ELSE 0)

\* "A month that never actually froze can never be announced": the outbox row and
\* the result commit or roll back together.
AnnouncedIsFrozen == DOMAIN outbox \subseteq DOMAIN result

\* A frozen result lacks only captures of the month's last moments: those a late
\* batch dated within the clamp of its receipt, itself at most Lag in the past.
MissesOnlyTheLastMoments ==
    \A m \in DOMAIN result : \A t \in Computed(m) \ result[m] :
        t >= MonthEnd(m) - Clamp - Lag

\* discord_outbox: "EXACTLY ONCE, across restarts".
AnnouncedOnce == \A m \in MonthSet : posts[m] <= 1

\* maybe_roll_months: "a failed freeze is simply retried on the next poll": a batch
\* that commits leaves every active month before its own frozen.
NextCallFreezes ==
    [][\A r \in ReceiptTimes : \A t \in ScoringTimes(r) :
          BatchCommits(r, t) => \A m \in Active : m < Month(r) => m \in DOMAIN result']_vars

\* "That only ever ADDS a candidate month -- every month with real activity is
\* still in the set": a check leaves no finished month with a capture unfrozen.
CheckFreezesAll ==
    [][\A r \in ReceiptTimes : \A t \in ScoringTimes(r) :
          BatchCommits(r, t) /\ memo # Month(r) =>
              \A u \in log : Month(u) < Month(r) => Month(u) \in DOMAIN result']_vars
=============================================================================
