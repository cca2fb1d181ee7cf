------------------------------ MODULE McQueue ------------------------------
(* The durable MeshCore ingest queue: McIngestor.submit and the worker loop  *)
(* of app/mc_ingest.py over the table mc_ingest_queue.                       *)
(*                                                                           *)
(* Web processes insert rows; a worker claims the oldest ones, scores each   *)
(* in one transaction, and only then deletes the row in another.  A crash    *)
(* between the two leaves a scored batch in the queue, to be scored again    *)
(* unless player_cell_ping remembers it.  A WriteSession can fail too        *)
(* (BEGIN IMMEDIATE past its busy timeout): FaultLimit says how often each    *)
(* step's write may fail, and what the code does next is part of the step.   *)
(*                                                                           *)
(* A payload is one player's batch, whose pings player_cell_ping deduplicates *)
(* together.  A row is assumed to leave the queue within                    *)
(* mc_ping_retention_hours, after which player_cell_ping forgets its pings.  *)
EXTENDS Naturals, FiniteSets, Functions

CONSTANTS
    Workers,      \* worker processes (one deployed; _claim_batch allows more)
    Payloads,     \* the batches clients post
    Poison,       \* the batches whose processing always raises
    QueueMax,     \* mc_queue_max
    DrainBatch,   \* mc_queue_drain_batch_size
    MaxAttempts,  \* mc_queue_max_attempts
    FaultLimit,   \* how many times the write of each of Steps may fail
    MaxCrashes, MaxSubmits    \* bounds of the model

Steps == {"reset", "claim", "process", "mark", "housekeep"}

ASSUME QueueNumbers == /\ {QueueMax, DrainBatch, MaxAttempts} \subseteq Nat \ {0}
                       /\ {MaxCrashes, MaxSubmits} \subseteq Nat
ASSUME QueueSets    == Poison \subseteq Payloads /\ FaultLimit \in [Steps -> Nat]

VARIABLES
    queue,      \* mc_ingest_queue: id -> [payload, claimed, attempts]
    nextId,     \* the AUTOINCREMENT key of its next row
    seen,       \* player_cell_ping: the batches whose pings it holds
    score,      \* what team_score has counted of each batch
    pc,         \* where each worker is in _run_worker
    hand,       \* the rows a worker claimed and has not finished, as read
    faults,     \* how often the write of each step has failed so far
    crashes     \* processes that have died so far

vars == <<queue, nextId, seen, score, pc, hand, faults, crashes>>

-----------------------------------------------------------------------------
(* The statements on mc_ingest_queue.                                        *)

Row(p, claimed, attempts) ==
    [payload |-> p, claimed |-> claimed, attempts |-> attempts]

\* The WHERE clause of the claim: unclaimed, and not dead-lettered.
Claimable ==
    {i \in DOMAIN queue : ~queue[i].claimed /\ queue[i].attempts < MaxAttempts}

\* ORDER BY id LIMIT mc_queue_drain_batch_size.
ToClaim == {i \in Claimable :
               Cardinality({j \in Claimable : j < i}) < DrainBatch}

ClaimRows(ids) == [i \in DOMAIN queue |->
    IF i \in ids THEN [queue[i] EXCEPT !.claimed = TRUE] ELSE queue[i]]

ReleaseClaims == [i \in DOMAIN queue |-> [queue[i] EXCEPT !.claimed = FALSE]]

\* Mutation: the whole claimed prefix is deleted, failed rows included.
DeleteRowsUpTo(id) == Restrict(queue, {i \in DOMAIN queue : i > id})

DeleteRow(id) == Restrict(queue, DOMAIN queue \ {id})

\* Mutation: the claim is not released.
FailedRowKeepsClaim(id, attempts) == [i \in DOMAIN queue |->
    IF i = id THEN [queue[i] EXCEPT !.attempts = attempts] ELSE queue[i]]

\* The UPDATE of _mark_failed: it matches nothing when the row is gone.
FailedRow(id, attempts) == [i \in DOMAIN queue |->
    IF i = id THEN [queue[i] EXCEPT !.attempts = attempts, !.claimed = FALSE]
              ELSE queue[i]]

-----------------------------------------------------------------------------
(* The request path.                                                         *)

\* submit: the count of rows is of all of them, claimed and dead-lettered too.
HasRoom == Cardinality(DOMAIN queue) < QueueMax

Submit(p) ==
    /\ nextId <= MaxSubmits
    /\ HasRoom
    /\ queue' = [i \in DOMAIN queue \cup {nextId} |->
                    IF i = nextId THEN Row(p, FALSE, 0) ELSE queue[i]]
    /\ nextId' = nextId + 1
    /\ UNCHANGED <<seen, score, pc, hand, faults, crashes>>

-----------------------------------------------------------------------------
(* The worker.  Fault(s) is the outcome of step s in which its write raises. *)

Fault(s) == /\ faults[s] < FaultLimit[s]
            /\ faults' = [faults EXCEPT ![s] = @ + 1]

Goto(w, label) == pc' = [pc EXCEPT ![w] = label]

\* A process starts and _run_worker releases every claim it finds; when that
\* fails, the exception is logged and the loop starts with the claims as they are.
StartWorker(w) ==
    /\ pc[w] = "down"
    /\ \/ queue' = ReleaseClaims /\ UNCHANGED faults
       \/ Fault("reset") /\ UNCHANGED queue
    /\ Goto(w, "idle")
    /\ UNCHANGED <<nextId, seen, score, hand, crashes>>

\* _claim_batch: the rows keep the attempts they were read with.
ClaimBatch(w) ==
    /\ pc[w] = "idle"
    /\ ToClaim # {}
    /\ queue' = ClaimRows(ToClaim)
    /\ hand' = [hand EXCEPT ![w] =
           {[id |-> i, payload |-> queue[i].payload, attempts |-> queue[i].attempts] :
               i \in ToClaim}]
    /\ Goto(w, "working")
    /\ UNCHANGED <<nextId, seen, score, faults, crashes>>

\* A claim that raises is caught: the pass goes on with no row in hand.
ClaimFails(w) ==
    /\ pc[w] = "idle"
    /\ Fault("claim")
    /\ Goto(w, "housekeeping")
    /\ UNCHANGED <<queue, nextId, seen, score, hand, crashes>>

\* The claim found nothing; housekeeping may still be due.
NothingToClaim(w) ==
    /\ pc[w] = "idle"
    /\ ToClaim = {}
    /\ Goto(w, "housekeeping")
    /\ UNCHANGED <<queue, nextId, seen, score, hand, faults, crashes>>

IsOldest(row, rows) == row \in rows /\ \A other \in rows : row.id <= other.id

\* The effect of _process_batch_sync: pings that player_cell_ping holds are
\* counted as duplicates and score nothing.
Scored(p) == IF p \in seen THEN score ELSE [score EXCEPT ![p] = @ + 1]

CommitBatch(w) ==
    /\ pc[w] = "working"
    /\ \E row \in hand[w] :
        /\ IsOldest(row, hand[w])
        /\ row.payload \notin Poison
        /\ score' = Scored(row.payload)
        /\ seen' = seen \cup {row.payload}
    /\ Goto(w, "processed")
    /\ UNCHANGED <<queue, nextId, hand, faults, crashes>>

\* The transaction rolls back whole, and _process_queued_row catches it.
RollBackBatch(w) ==
    /\ pc[w] = "working"
    /\ \E row \in hand[w] :
        /\ IsOldest(row, hand[w])
        /\ IF row.payload \in Poison THEN UNCHANGED faults ELSE Fault("process")
    /\ Goto(w, "failed")
    /\ UNCHANGED <<queue, nextId, seen, score, hand, crashes>>

\* The rest of the pass: the next row in hand, or housekeeping after the last.
PutDown(w, row) ==
    /\ hand' = [hand EXCEPT ![w] = @ \ {row}]
    /\ Goto(w, IF hand[w] = {row} THEN "housekeeping" ELSE "working")

MarkProcessed(w) ==
    /\ pc[w] = "processed"
    /\ \E row \in hand[w] :
        /\ IsOldest(row, hand[w])
        /\ queue' = DeleteRow(row.id)
        /\ PutDown(w, row)
    /\ UNCHANGED <<nextId, seen, score, faults, crashes>>

\* attempts is one more than the claim read, not one more than the row holds.
MarkFailed(w) ==
    /\ pc[w] = "failed"
    /\ \E row \in hand[w] :
        /\ IsOldest(row, hand[w])
        /\ queue' = FailedRow(row.id, row.attempts + 1)
        /\ PutDown(w, row)
    /\ UNCHANGED <<nextId, seen, score, faults, crashes>>

\* Neither marking write is inside a try: the exception ends the worker task,
\* while the process lives on.
MarkRaises(w) ==
    /\ pc[w] \in {"processed", "failed"}
    /\ Fault("mark")
    /\ Goto(w, "dead")
    /\ hand' = [hand EXCEPT ![w] = {}]
    /\ UNCHANGED <<queue, nextId, seen, score, crashes>>

Housekeep(w) ==
    /\ pc[w] = "housekeeping"
    /\ Goto(w, "idle")
    /\ UNCHANGED <<queue, nextId, seen, score, hand, faults, crashes>>

\* Nor is _maybe_housekeeping.
HousekeepRaises(w) ==
    /\ pc[w] = "housekeeping"
    /\ Fault("housekeep")
    /\ Goto(w, "dead")
    /\ hand' = [hand EXCEPT ![w] = {}]
    /\ UNCHANGED <<queue, nextId, seen, score, crashes>>

\* The process dies, or is stopped, at any point; what it had in memory is lost.
Crash(w) ==
    /\ crashes < MaxCrashes
    /\ pc[w] # "down"
    /\ Goto(w, "down")
    /\ hand' = [hand EXCEPT ![w] = {}]
    /\ crashes' = crashes + 1
    /\ UNCHANGED <<queue, nextId, seen, score, faults>>

-----------------------------------------------------------------------------

Init ==
    /\ queue = [i \in {} |-> {}]
    /\ nextId = 1
    /\ seen = {}
    /\ score = [p \in Payloads |-> 0]
    /\ pc = [w \in Workers |-> "down"]
    /\ hand = [w \in Workers |-> {}]
    /\ faults = [s \in Steps |-> 0]
    /\ crashes = 0

WorkerStep(w) ==
    \/ StartWorker(w)
    \/ ClaimBatch(w) \/ ClaimFails(w) \/ NothingToClaim(w)
    \/ CommitBatch(w) \/ RollBackBatch(w)
    \/ MarkProcessed(w) \/ MarkFailed(w) \/ MarkRaises(w)
    \/ Housekeep(w) \/ HousekeepRaises(w)

Next ==
    \/ \E p \in Payloads : Submit(p)
    \/ \E w \in Workers : WorkerStep(w) \/ Crash(w)

Spec == Init /\ [][Next]_vars

\* A worker that is up keeps running and one that died is restarted (the
\* service's "restart: unless-stopped"); nothing restarts a dead task.
FairSpec == Spec /\ \A w \in Workers : WF_vars(WorkerStep(w))

-----------------------------------------------------------------------------
(* Properties.                                                               *)

Labels == {"down", "idle", "working", "processed", "failed", "housekeeping", "dead"}
Rows == [payload : Payloads, claimed : BOOLEAN, attempts : Nat]
HandRows == [id : Nat, payload : Payloads, attempts : Nat]

TypeOK ==
    /\ DOMAIN queue \subseteq 1..(nextId - 1)
    /\ queue \in [DOMAIN queue -> Rows]
    /\ nextId \in Nat \ {0}
    /\ seen \subseteq Payloads
    /\ score \in [Payloads -> Nat]
    /\ pc \in [Workers -> Labels]
    /\ hand \in [Workers -> SUBSET HandRows]
    /\ faults \in [Steps -> Nat]
    /\ crashes \in Nat

\* Nobody is paid twice for one batch: not when a worker dies between scoring a
\* row and deleting it, nor when a client posts the batch again, nor when a
\* second worker starts and releases the claims of a first one at work.
ScoredAtMostOnce == \A p \in Payloads : score[p] <= 1

\* A row leaves the queue only once its batch is scored: no failure, retry or
\* restart loses what submit answered "accepted" to.
RowsLeaveScored ==
    [][\A i \in DOMAIN queue \ DOMAIN queue' : queue[i].payload \in seen]_vars

\* The queue implements the ledger: a batch is owed while a row holds it unscored.
Owed == {p \in Payloads \ seen : \E i \in DOMAIN queue : queue[i].payload = p}
Ledger == INSTANCE BatchLedger WITH owed <- Owed, paid <- score
LedgerSpec == Ledger!Spec

Holds(w, i) == \E row \in hand[w] : row.id = i

DeadLettered(p) == \A i \in DOMAIN queue :
                      queue[i].payload = p => queue[i].attempts >= MaxAttempts

\* What the code has no answer to: the worker task died of an uncaught exception,
\* or the release of stale claims failed at startup and a row of p kept its claim.
WorkerDied == \E w \in Workers : pc[w] = "dead"
Stranded(p) == /\ faults["reset"] > 0
               /\ \E i \in DOMAIN queue :
                     /\ queue[i].payload = p /\ queue[i].claimed
                     /\ \A w \in Workers : pc[w] # "down" /\ ~Holds(w, i)

\* Every accepted batch is scored in the end, or is dead-lettered after
\* mc_queue_max_attempts failures, whatever crashes and failing or poisoned
\* batches come before it, unless the worker died or the claim was stranded.
Drains ==
    \A p \in Payloads :
        p \in Owed ~> p \in seen \/ DeadLettered(p) \/ WorkerDied \/ Stranded(p)

\* _process_queued_row: "Never raises -- a single bad row must not stop the rest
\* of this drain pass or take down the worker task."
RowFailureIsContained ==
    [][\A w \in Workers : pc[w] \in {"processed", "failed"} => pc'[w] # "dead"]_vars
=============================================================================
