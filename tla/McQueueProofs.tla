--------------------------- MODULE McQueueProofs ---------------------------
(* What McQueue keeps for any number of workers, batches, failures and       *)
(* crashes.  One invariant, LedgerInv, carries the three results: a batch is *)
(* scored once, no row is deleted before its batch is scored, and the queue  *)
(* implements BatchLedger.                                                   *)
EXTENDS McQueue, TLAPS

-----------------------------------------------------------------------------
(* Type correctness.                                                         *)

\* A failing write counts itself, and changes nothing else.
LEMMA FaultType ==
    ASSUME NEW s \in Steps, faults \in [Steps -> Nat], Fault(s)
    PROVE  faults' \in [Steps -> Nat]
BY DEF Fault

\* The claims of a pass and their release keep the table's rows well-formed.
LEMMA RowsType ==
    ASSUME TypeOK
    PROVE  /\ \A ids : ClaimRows(ids) \in [DOMAIN queue -> Rows]
           /\ ReleaseClaims \in [DOMAIN queue -> Rows]
           /\ \A i : DeleteRow(i) \in [DOMAIN queue \ {i} -> Rows]
           /\ \A i, n : n \in Nat => FailedRow(i, n) \in [DOMAIN queue -> Rows]
BY DEF TypeOK, Rows, ClaimRows, ReleaseClaims, DeleteRow, FailedRow, Restrict

\* Every step keeps TypeOK.
LEMMA QueueTypeStep == TypeOK /\ [Next]_vars => TypeOK'
<1> SUFFICES ASSUME TypeOK, [Next]_vars PROVE TypeOK'
    OBVIOUS
<1> USE DEF Goto, Labels
<1>t. /\ {"reset", "claim", "process", "mark", "housekeep"} = Steps
      /\ MaxAttempts \in Nat
    BY QueueNumbers DEF Steps
<1>1. CASE UNCHANGED vars
    BY <1>1 DEF TypeOK, vars
<1>2. ASSUME NEW p \in Payloads, Submit(p) PROVE TypeOK'
    <2>1. Row(p, FALSE, 0) \in Rows
        BY DEF Row, Rows
    <2>2. /\ DOMAIN queue' = DOMAIN queue \cup {nextId}
          /\ nextId' = nextId + 1
          /\ queue' \in [DOMAIN queue' -> Rows]
        BY <1>2, <2>1 DEF Submit, TypeOK
    <2>3. DOMAIN queue' \subseteq 1..(nextId' - 1) /\ nextId' \in Nat \ {0}
        BY <2>2 DEF TypeOK
    <2>4. UNCHANGED <<seen, score, pc, hand, faults, crashes>>
        BY <1>2 DEF Submit
    <2> QED BY <2>2, <2>3, <2>4 DEF TypeOK
<1>3. ASSUME NEW w \in Workers, StartWorker(w) PROVE TypeOK'
    <2>1. /\ DOMAIN queue' = DOMAIN queue
          /\ queue' \in [DOMAIN queue -> Rows]
        BY <1>3, RowsType DEF StartWorker, ReleaseClaims, TypeOK
    <2>2. faults' \in [Steps -> Nat]
        BY <1>3, <1>t, FaultType DEF StartWorker, TypeOK
    <2> QED BY <1>3, <2>1, <2>2 DEF StartWorker, TypeOK
<1>4. ASSUME NEW w \in Workers, ClaimBatch(w) PROVE TypeOK'
    <2>1. /\ DOMAIN queue' = DOMAIN queue
          /\ queue' \in [DOMAIN queue -> Rows]
        BY <1>4, RowsType DEF ClaimBatch, ClaimRows, TypeOK
    <2>2. ToClaim \subseteq DOMAIN queue
        BY DEF ToClaim, Claimable
    <2>3. hand' \in [Workers -> SUBSET HandRows]
        BY <1>4, <2>2 DEF ClaimBatch, TypeOK, HandRows, Rows
    <2> QED BY <1>4, <2>1, <2>3 DEF ClaimBatch, TypeOK
<1>5. ASSUME NEW w \in Workers, ClaimFails(w) PROVE TypeOK'
    BY <1>5, <1>t, FaultType DEF ClaimFails, TypeOK
<1>6. ASSUME NEW w \in Workers, NothingToClaim(w) PROVE TypeOK'
    BY <1>6 DEF NothingToClaim, TypeOK
<1>7. ASSUME NEW w \in Workers, CommitBatch(w) PROVE TypeOK'
    <2>1. PICK row \in hand[w] : /\ score' = Scored(row.payload)
                                 /\ seen' = seen \cup {row.payload}
        BY <1>7 DEF CommitBatch
    <2>2. row.payload \in Payloads
        BY <2>1 DEF TypeOK, HandRows
    <2>3. score' \in [Payloads -> Nat] /\ seen' \subseteq Payloads
        BY <2>1, <2>2 DEF Scored, TypeOK
    <2> QED BY <1>7, <2>3 DEF CommitBatch, TypeOK
<1>8. ASSUME NEW w \in Workers, RollBackBatch(w) PROVE TypeOK'
    <2>1. faults' \in [Steps -> Nat]
        BY <1>8, <1>t, FaultType DEF RollBackBatch, TypeOK
    <2> QED BY <1>8, <2>1 DEF RollBackBatch, TypeOK
<1>9. ASSUME NEW w \in Workers, MarkProcessed(w) PROVE TypeOK'
    <2>1. PICK row \in hand[w] : queue' = DeleteRow(row.id) /\ PutDown(w, row)
        BY <1>9 DEF MarkProcessed
    <2>2. /\ DOMAIN queue' = DOMAIN queue \ {row.id}
          /\ queue' \in [DOMAIN queue' -> Rows]
        BY <2>1, RowsType DEF DeleteRow, Restrict
    <2> QED BY <1>9, <2>1, <2>2 DEF MarkProcessed, PutDown, TypeOK
<1>10. ASSUME NEW w \in Workers, MarkFailed(w) PROVE TypeOK'
    <2>1. PICK row \in hand[w] :
              queue' = FailedRow(row.id, row.attempts + 1) /\ PutDown(w, row)
        BY <1>10 DEF MarkFailed
    <2>2. row.attempts + 1 \in Nat
        BY <2>1 DEF TypeOK, HandRows
    <2>4. queue' \in [DOMAIN queue -> Rows]
        BY <2>1, <2>2, RowsType
    <2>3. /\ DOMAIN queue' = DOMAIN queue
          /\ queue' \in [DOMAIN queue' -> Rows]
        BY <2>4
    <2> QED BY <1>10, <2>1, <2>3 DEF MarkFailed, PutDown, TypeOK
<1>11. ASSUME NEW w \in Workers, MarkRaises(w) PROVE TypeOK'
    BY <1>11, <1>t, FaultType DEF MarkRaises, TypeOK
<1>12. ASSUME NEW w \in Workers, Housekeep(w) PROVE TypeOK'
    BY <1>12 DEF Housekeep, TypeOK
<1>13. ASSUME NEW w \in Workers, HousekeepRaises(w) PROVE TypeOK'
    BY <1>13, <1>t, FaultType DEF HousekeepRaises, TypeOK
<1>14. ASSUME NEW w \in Workers, Crash(w) PROVE TypeOK'
    BY <1>14 DEF Crash, TypeOK
<1> QED BY <1>1, <1>2, <1>3, <1>4, <1>5, <1>6, <1>7, <1>8, <1>9, <1>10, <1>11,
           <1>12, <1>13, <1>14 DEF Next, WorkerStep

\* The service starts with an empty table and no worker running.
LEMMA QueueTypeInit == Init => TypeOK
BY DEF Init, TypeOK, Labels, Rows

\* Type correctness, for every value of the constants.
THEOREM QueueTypeCorrect == Spec => []TypeOK
<1>1. Init => TypeOK
    BY QueueTypeInit
<1>2. TypeOK /\ [Next]_vars => TypeOK'
    BY QueueTypeStep
<1> QED BY <1>1, <1>2, PTL DEF Spec

-----------------------------------------------------------------------------
(* The invariant.  score counts what player_cell_ping has recorded; a row in *)
(* a worker's hand is the queue's row of that id, or a row already deleted,  *)
(* whose batch is scored; and the row a worker is about to delete is scored. *)

ScoreIsSeen == \A p \in Payloads : score[p] = IF p \in seen THEN 1 ELSE 0

HandMatches ==
    \A w \in Workers : \A row \in hand[w] :
        /\ row.id < nextId
        /\ \/ row.id \in DOMAIN queue /\ queue[row.id].payload = row.payload
           \/ row.id \notin DOMAIN queue /\ row.payload \in seen

AboutToDelete ==
    \A w \in Workers : pc[w] = "processed" =>
        \A row \in hand[w] : IsOldest(row, hand[w]) => row.payload \in seen

LedgerInv == TypeOK /\ ScoreIsSeen /\ HandMatches /\ AboutToDelete

\* A step that keeps every remaining row's payload, and every hand, keeps
\* HandMatches, provided that the rows it deletes are scored.
LEMMA HandsKept ==
    ASSUME TypeOK, HandMatches, seen \subseteq seen', nextId' = nextId,
           DOMAIN queue' \subseteq DOMAIN queue,
           \A i \in DOMAIN queue' : queue'[i].payload = queue[i].payload,
           \A i \in DOMAIN queue \ DOMAIN queue' : queue[i].payload \in seen,
           \A w \in Workers : hand'[w] \subseteq hand[w]
    PROVE  HandMatches'
BY DEF HandMatches, TypeOK
\* Two oldest rows of a hand are of one id, hence of one payload, or both scored.
LEMMA OldestAgree ==
    ASSUME TypeOK, HandMatches, NEW w \in Workers,
           NEW a \in hand[w], NEW b \in hand[w],
           IsOldest(a, hand[w]), IsOldest(b, hand[w])
    PROVE  a.payload = b.payload \/ b.payload \in seen
<1>1. a \in HandRows /\ b \in HandRows
    BY DEF TypeOK
<1>2. a.id <= b.id /\ b.id <= a.id
    BY DEF IsOldest
<1>3. a.id = b.id
    BY <1>1, <1>2 DEF HandRows
<1> QED BY <1>3 DEF HandMatches

\* Scoring a batch keeps the invariant: the points move with player_cell_ping.
LEMMA LedgerCommit ==
    ASSUME LedgerInv, TypeOK', NEW w \in Workers, CommitBatch(w)
    PROVE  LedgerInv'
<1>1. PICK row \in hand[w] : /\ IsOldest(row, hand[w])
                             /\ score' = Scored(row.payload)
                             /\ seen' = seen \cup {row.payload}
    BY DEF CommitBatch
<1>2. row.payload \in Payloads
    BY <1>1 DEF LedgerInv, TypeOK, HandRows
<1>3. UNCHANGED <<queue, nextId, hand>> /\ pc' = [pc EXCEPT ![w] = "processed"]
    BY DEF CommitBatch, Goto
<1>4. ScoreIsSeen'
    BY <1>1, <1>2 DEF LedgerInv, ScoreIsSeen, Scored, TypeOK
<1>5. HandMatches'
    BY <1>1, <1>3 DEF LedgerInv, HandMatches
<1>6. AboutToDelete'
    <2> SUFFICES ASSUME NEW v \in Workers, pc'[v] = "processed",
                        NEW b \in hand'[v], IsOldest(b, hand'[v])
                 PROVE  b.payload \in seen'
        BY DEF AboutToDelete
    <2>1. CASE v = w
        BY <1>1, <1>3, <2>1, OldestAgree DEF LedgerInv
    <2>2. CASE v # w
        BY <1>1, <1>3, <2>2 DEF LedgerInv, AboutToDelete, TypeOK
    <2> QED BY <2>1, <2>2
<1> QED BY <1>4, <1>5, <1>6 DEF LedgerInv

\* The oldest row of a hand that is processed is the one scored: deleting it
\* deletes a scored row, and only that.
LEMMA DeleteFacts ==
    ASSUME LedgerInv, NEW w \in Workers, MarkProcessed(w)
    PROVE  /\ DOMAIN queue' \subseteq DOMAIN queue
           /\ \A i \in DOMAIN queue' : queue'[i] = queue[i]
           /\ \A i \in DOMAIN queue \ DOMAIN queue' : queue[i].payload \in seen
           /\ hand'[w] \subseteq hand[w]
           /\ \A v \in Workers \ {w} : hand'[v] = hand[v] /\ pc'[v] = pc[v]
           /\ pc'[w] # "processed"
           /\ UNCHANGED <<nextId, seen, score>>
<1>1. PICK row \in hand[w] : /\ IsOldest(row, hand[w])
                             /\ queue' = DeleteRow(row.id)
                             /\ PutDown(w, row)
    BY DEF MarkProcessed
<1>2. row.payload \in seen
    BY <1>1 DEF MarkProcessed, LedgerInv, AboutToDelete
<1>3. /\ DOMAIN queue' = DOMAIN queue \ {row.id}
      /\ \A i \in DOMAIN queue' : queue'[i] = queue[i]
    BY <1>1 DEF DeleteRow, Restrict
<1>4. row.id \in DOMAIN queue => queue[row.id].payload \in seen
    BY <1>1, <1>2 DEF LedgerInv, HandMatches
<1>5. /\ hand'[w] \subseteq hand[w]
      /\ \A v \in Workers \ {w} : hand'[v] = hand[v] /\ pc'[v] = pc[v]
      /\ pc'[w] # "processed"
    BY <1>1 DEF PutDown, Goto, LedgerInv, TypeOK
<1>6. UNCHANGED <<nextId, seen, score>>
    BY DEF MarkProcessed
<1> QED BY <1>3, <1>4, <1>5, <1>6

\* A step that writes claims and attempts, or deletes scored rows, and takes no
\* worker to "processed", keeps the invariant.
LEMMA LedgerUpdate ==
    ASSUME LedgerInv, TypeOK', UNCHANGED <<nextId, seen, score>>,
           NEW w \in Workers,
           DOMAIN queue' \subseteq DOMAIN queue,
           \A i \in DOMAIN queue' : queue'[i].payload = queue[i].payload,
           \A i \in DOMAIN queue \ DOMAIN queue' : queue[i].payload \in seen,
           \A v \in Workers : hand'[v] \subseteq hand[v],
           \A v \in Workers \ {w} : hand'[v] = hand[v] /\ pc'[v] = pc[v],
           pc'[w] # "processed"
    PROVE  LedgerInv'
<1>1. ScoreIsSeen'
    BY DEF LedgerInv, ScoreIsSeen
<1>2. HandMatches'
    BY HandsKept DEF LedgerInv
<1>3. AboutToDelete'
    BY DEF LedgerInv, AboutToDelete
<1> QED BY <1>1, <1>2, <1>3 DEF LedgerInv
\* A new row has an id no hand holds.
LEMMA LedgerSubmit ==
    ASSUME LedgerInv, TypeOK', NEW p \in Payloads, Submit(p)
    PROVE  LedgerInv'
<1>1. /\ UNCHANGED <<seen, score, hand, pc>> /\ nextId' = nextId + 1
      /\ nextId \in Nat
      /\ DOMAIN queue' = DOMAIN queue \cup {nextId}
      /\ \A i \in DOMAIN queue : i # nextId => queue'[i] = queue[i]
    BY DEF Submit, LedgerInv, TypeOK
<1>2. HandMatches'
    <2> SUFFICES ASSUME NEW w \in Workers, NEW row \in hand[w]
                 PROVE  /\ row.id < nextId'
                        /\ \/ row.id \in DOMAIN queue' /\ queue'[row.id].payload = row.payload
                           \/ row.id \notin DOMAIN queue' /\ row.payload \in seen'
        BY <1>1 DEF HandMatches
    <2>1. row.id < nextId /\ row.id \in Nat
        BY DEF LedgerInv, HandMatches, TypeOK, HandRows
    <2>2. row.id # nextId /\ row.id < nextId'
        BY <2>1, <1>1
    <2> QED BY <2>2, <1>1 DEF LedgerInv, HandMatches
<1>3. ScoreIsSeen' /\ AboutToDelete'
    BY <1>1 DEF LedgerInv, ScoreIsSeen, AboutToDelete
<1> QED BY <1>2, <1>3 DEF LedgerInv

\* A hand just claimed is a copy of the queue's rows.
LEMMA LedgerClaim ==
    ASSUME LedgerInv, TypeOK', NEW w \in Workers, ClaimBatch(w)
    PROVE  LedgerInv'
<1>1. ToClaim \subseteq DOMAIN queue
    BY DEF ToClaim, Claimable
<1>2. /\ DOMAIN queue' = DOMAIN queue
      /\ \A i \in DOMAIN queue : queue'[i].payload = queue[i].payload
      /\ UNCHANGED <<nextId, seen, score>>
    BY DEF ClaimBatch, ClaimRows, LedgerInv, TypeOK, Rows
<1>3. \A v \in Workers \ {w} : hand'[v] = hand[v] /\ pc'[v] = pc[v]
    BY DEF ClaimBatch, Goto, LedgerInv, TypeOK
<1>4. pc'[w] # "processed"
    BY DEF ClaimBatch, Goto, LedgerInv, TypeOK
<1>5. \A row \in hand'[w] : \E i \in ToClaim : row.id = i /\ row.payload = queue[i].payload
    BY DEF ClaimBatch, LedgerInv, TypeOK
<1>6. \A i \in ToClaim : i < nextId
    BY <1>1 DEF LedgerInv, TypeOK
<1>7. HandMatches'
    <2> SUFFICES ASSUME NEW v \in Workers, NEW row \in hand'[v]
                 PROVE  /\ row.id < nextId
                        /\ \/ row.id \in DOMAIN queue /\ queue[row.id].payload = row.payload
                           \/ row.id \notin DOMAIN queue /\ row.payload \in seen
        BY <1>2 DEF HandMatches
    <2>1. CASE v = w
        BY <2>1, <1>1, <1>5, <1>6
    <2>2. CASE v # w
        BY <2>2, <1>3 DEF LedgerInv, HandMatches
    <2> QED BY <2>1, <2>2
<1>8. ScoreIsSeen'
    BY <1>2 DEF LedgerInv, ScoreIsSeen
<1>9. AboutToDelete'
    BY <1>2, <1>3, <1>4 DEF LedgerInv, AboutToDelete
<1> QED BY <1>7, <1>8, <1>9 DEF LedgerInv

\* Every step keeps LedgerInv.
LEMMA LedgerStep == LedgerInv /\ [Next]_vars => LedgerInv'
<1> SUFFICES ASSUME LedgerInv, [Next]_vars PROVE LedgerInv'
    OBVIOUS
<1>t. TypeOK /\ TypeOK'
    BY QueueTypeStep DEF LedgerInv
<1>q. ASSUME NEW w \in Workers,
             UNCHANGED <<queue, nextId, seen, score>>,
             pc' = [pc EXCEPT ![w] = pc'[w]], pc'[w] # "processed",
             hand' = hand \/ hand' = [hand EXCEPT ![w] = {}]
      PROVE  LedgerInv'
    <2>1. /\ \A v \in Workers : hand'[v] \subseteq hand[v]
          /\ \A v \in Workers \ {w} : hand'[v] = hand[v] /\ pc'[v] = pc[v]
        BY <1>t, <1>q DEF TypeOK
    <2> QED BY <1>t, <1>q, <2>1, LedgerUpdate
<1>1. CASE UNCHANGED vars
    BY <1>1, <1>t DEF LedgerInv, vars, ScoreIsSeen, HandMatches, AboutToDelete
<1>2. ASSUME NEW p \in Payloads, Submit(p) PROVE LedgerInv'
    BY <1>2, <1>t, LedgerSubmit
<1>3. ASSUME NEW w \in Workers, StartWorker(w) PROVE LedgerInv'
    <2>1. /\ DOMAIN queue' = DOMAIN queue
          /\ \A i \in DOMAIN queue' : queue'[i].payload = queue[i].payload
        BY <1>3, <1>t DEF StartWorker, ReleaseClaims, TypeOK, Rows
    <2>2. /\ UNCHANGED <<nextId, seen, score, hand>>
          /\ \A v \in Workers \ {w} : pc'[v] = pc[v]
          /\ pc'[w] # "processed"
        BY <1>3, <1>t DEF StartWorker, Goto, TypeOK
    <2> QED BY <2>1, <2>2, <1>t, LedgerUpdate
<1>4. ASSUME NEW w \in Workers, ClaimBatch(w) PROVE LedgerInv'
    BY <1>4, <1>t, LedgerClaim
<1>5. ASSUME NEW w \in Workers, ClaimFails(w) PROVE LedgerInv'
    BY <1>5, <1>q, <1>t DEF ClaimFails, Goto, TypeOK
<1>6. ASSUME NEW w \in Workers, NothingToClaim(w) PROVE LedgerInv'
    BY <1>6, <1>q, <1>t DEF NothingToClaim, Goto, TypeOK
<1>7. ASSUME NEW w \in Workers, CommitBatch(w) PROVE LedgerInv'
    BY <1>7, <1>t, LedgerCommit
<1>8. ASSUME NEW w \in Workers, RollBackBatch(w) PROVE LedgerInv'
    BY <1>8, <1>q, <1>t DEF RollBackBatch, Goto, TypeOK
<1>9. ASSUME NEW w \in Workers, MarkProcessed(w) PROVE LedgerInv'
    <2>1. \A v \in Workers : hand'[v] \subseteq hand[v]
        BY <1>9, DeleteFacts
    <2> QED BY <1>9, <2>1, <1>t, DeleteFacts, LedgerUpdate
<1>10. ASSUME NEW w \in Workers, MarkFailed(w) PROVE LedgerInv'
    <2>1. PICK row \in hand[w] :
              queue' = FailedRow(row.id, row.attempts + 1) /\ PutDown(w, row)
        BY <1>10 DEF MarkFailed
    <2>2. /\ DOMAIN queue' = DOMAIN queue
          /\ \A i \in DOMAIN queue' : queue'[i].payload = queue[i].payload
        BY <2>1, <1>t DEF FailedRow, TypeOK, Rows
    <2>3. /\ \A v \in Workers : hand'[v] \subseteq hand[v]
          /\ \A v \in Workers \ {w} : hand'[v] = hand[v] /\ pc'[v] = pc[v]
          /\ pc'[w] # "processed"
        BY <2>1, <1>t DEF PutDown, Goto, TypeOK
    <2>4. UNCHANGED <<nextId, seen, score>>
        BY <1>10 DEF MarkFailed
    <2> QED BY <2>2, <2>3, <2>4, <1>t, LedgerUpdate
<1>11. ASSUME NEW w \in Workers, MarkRaises(w) PROVE LedgerInv'
    BY <1>11, <1>q, <1>t DEF MarkRaises, Goto, TypeOK
<1>12. ASSUME NEW w \in Workers, Housekeep(w) PROVE LedgerInv'
    BY <1>12, <1>q, <1>t DEF Housekeep, Goto, TypeOK
<1>13. ASSUME NEW w \in Workers, HousekeepRaises(w) PROVE LedgerInv'
    BY <1>13, <1>q, <1>t DEF HousekeepRaises, Goto, TypeOK
<1>14. ASSUME NEW w \in Workers, Crash(w) PROVE LedgerInv'
    BY <1>14, <1>q, <1>t DEF Crash, Goto, TypeOK
<1> QED BY <1>1, <1>2, <1>3, <1>4, <1>5, <1>6, <1>7, <1>8, <1>9, <1>10, <1>11,
           <1>12, <1>13, <1>14 DEF Next, WorkerStep

\* LedgerInv holds of the empty queue.
LEMMA LedgerInit == Init => LedgerInv
BY QueueTypeInit DEF Init, LedgerInv, ScoreIsSeen, HandMatches, AboutToDelete

\* LedgerInv is an invariant.
LEMMA LedgerAlways == Spec => []LedgerInv
<1>1. Init => LedgerInv
    BY LedgerInit
<1>2. LedgerInv /\ [Next]_vars => LedgerInv'
    BY LedgerStep
<1> QED BY <1>1, <1>2, PTL DEF Spec

-----------------------------------------------------------------------------
(* The results.                                                              *)

\* No batch is scored twice, whatever crashes, retries and second workers do.
THEOREM PaidOnce == Spec => []ScoredAtMostOnce
<1>1. LedgerInv => ScoredAtMostOnce
    BY DEF LedgerInv, ScoreIsSeen, ScoredAtMostOnce
<1> QED BY <1>1, LedgerAlways, PTL
\* Only MarkProcessed shortens the queue, and it deletes what is scored.
LEMMA DeletesScored ==
    ASSUME LedgerInv, [Next]_vars
    PROVE  \A i \in DOMAIN queue \ DOMAIN queue' : queue[i].payload \in seen
<1>1. CASE \E w \in Workers : MarkProcessed(w)
    BY <1>1, DeleteFacts
<1>2. CASE ~\E w \in Workers : MarkProcessed(w)
    <2>1. DOMAIN queue \subseteq DOMAIN queue'
        BY <1>2 DEF Next, WorkerStep, vars, Submit, StartWorker, ClaimBatch, ClaimFails,
                    NothingToClaim, CommitBatch, RollBackBatch, MarkFailed, MarkRaises,
                    Housekeep, HousekeepRaises, Crash, ReleaseClaims, ClaimRows, FailedRow
    <2> QED BY <2>1
<1> QED BY <1>1, <1>2

\* A row leaves the queue only when its batch is scored.
THEOREM NothingDropped == Spec => RowsLeaveScored
<1>1. LedgerInv /\ [Next]_vars =>
          [\A i \in DOMAIN queue \ DOMAIN queue' : queue[i].payload \in seen]_vars
    BY DeletesScored
<1> QED BY <1>1, LedgerAlways, PTL DEF Spec, RowsLeaveScored

-----------------------------------------------------------------------------
(* The queue implements BatchLedger.                                         *)

\* The empty queue owes nothing.
LEMMA LedgerRefinesInit == Init => Ledger!Init
BY DEF Init, Ledger!Init, Owed

\* Every step of the queue is a step of the ledger, or changes nothing there.
LEMMA LedgerRefinesNext ==
    ASSUME LedgerInv, [Next]_vars
    PROVE  [Ledger!Next]_<<Owed, score>>
<1>t. TypeOK
    BY DEF LedgerInv
<1>1. ASSUME NEW p \in Payloads, Submit(p)
      PROVE  [Ledger!Next]_<<Owed, score>>
    <2>1. /\ DOMAIN queue' = DOMAIN queue \cup {nextId}
          /\ \A i \in DOMAIN queue : queue'[i].payload = queue[i].payload
          /\ queue'[nextId].payload = p
          /\ UNCHANGED <<seen, score>>
        BY <1>1, <1>t DEF Submit, Row, TypeOK
    <2>2. Owed' = IF p \in seen THEN Owed ELSE Owed \cup {p}
        BY <2>1 DEF Owed
    <2>3. CASE p \in seen
        BY <2>1, <2>2, <2>3
    <2>4. CASE p \notin seen
        <3>1. score[p] = 0
            BY <2>4 DEF LedgerInv, ScoreIsSeen
        <3>2. Ledger!Accept(p)
            BY <2>1, <2>2, <2>4, <3>1 DEF Ledger!Accept
        <3> QED BY <3>2 DEF Ledger!Next
    <2> QED BY <2>3, <2>4
<1>2. ASSUME NEW w \in Workers, CommitBatch(w)
      PROVE  [Ledger!Next]_<<Owed, score>>
    <2>1. PICK row \in hand[w] : /\ score' = Scored(row.payload)
                                 /\ seen' = seen \cup {row.payload}
        BY <1>2 DEF CommitBatch
    <2> DEFINE p == row.payload
    <2>2. UNCHANGED queue /\ p \in Payloads
        BY <1>2, <1>t DEF CommitBatch, TypeOK, HandRows
    <2>3. CASE p \in seen
        <3>1. seen' = seen /\ score' = score
            BY <2>1, <2>3 DEF Scored
        <3> QED BY <3>1, <2>2 DEF Owed
    <2>4. CASE p \notin seen
        <3>1. score[p] = 0
            BY <2>2, <2>4 DEF LedgerInv, ScoreIsSeen
        <3>2. p \in Owed
            BY <2>2, <2>4 DEF LedgerInv, HandMatches, Owed
        <3>3. Owed' = Owed \ {p}
            BY <2>1, <2>2 DEF Owed
        <3>4. score' = [score EXCEPT ![p] = 1]
            BY <2>1, <2>2, <2>4, <3>1, <1>t DEF Scored, TypeOK
        <3>5. Ledger!Pay(p)
            BY <3>1, <3>2, <3>3, <3>4 DEF Ledger!Pay
        <3> QED BY <2>2, <3>5 DEF Ledger!Next
    <2> QED BY <2>3, <2>4
<1>3. ASSUME NEW w \in Workers, MarkProcessed(w)
      PROVE  [Ledger!Next]_<<Owed, score>>
    <2>1. Owed' = Owed
        BY <1>3, DeleteFacts DEF Owed
    <2> QED BY <2>1, <1>3, DeleteFacts
<1>4. ASSUME UNCHANGED <<seen, score>>, DOMAIN queue' = DOMAIN queue,
             \A i \in DOMAIN queue : queue'[i].payload = queue[i].payload
      PROVE  [Ledger!Next]_<<Owed, score>>
    BY <1>4 DEF Owed
<1>5. ASSUME NEW w \in Workers, StartWorker(w)
      PROVE  [Ledger!Next]_<<Owed, score>>
    BY <1>4, <1>5, <1>t DEF StartWorker, ReleaseClaims, TypeOK, Rows
<1>6. ASSUME NEW w \in Workers, ClaimBatch(w)
      PROVE  [Ledger!Next]_<<Owed, score>>
    BY <1>4, <1>6, <1>t DEF ClaimBatch, ClaimRows, TypeOK, Rows
<1>7. ASSUME NEW w \in Workers, MarkFailed(w)
      PROVE  [Ledger!Next]_<<Owed, score>>
    <2>1. PICK row : queue' = FailedRow(row.id, row.attempts + 1)
        BY <1>7 DEF MarkFailed
    <2>2. /\ DOMAIN queue' = DOMAIN queue
          /\ \A i \in DOMAIN queue : queue'[i].payload = queue[i].payload
        BY <2>1, <1>t DEF FailedRow, TypeOK, Rows
    <2>3. UNCHANGED <<seen, score>>
        BY <1>7 DEF MarkFailed
    <2> QED BY <1>4, <2>2, <2>3
<1>8. ASSUME UNCHANGED <<queue, seen, score>>
      PROVE  [Ledger!Next]_<<Owed, score>>
    BY <1>4, <1>8
<1>9. ASSUME NEW w \in Workers,
             \/ ClaimFails(w) \/ NothingToClaim(w) \/ RollBackBatch(w) \/ MarkRaises(w)
             \/ Housekeep(w) \/ HousekeepRaises(w) \/ Crash(w)
      PROVE  [Ledger!Next]_<<Owed, score>>
    BY <1>8, <1>9 DEF ClaimFails, NothingToClaim, RollBackBatch, MarkRaises, Housekeep,
                      HousekeepRaises, Crash
<1>10. CASE UNCHANGED vars
    BY <1>8, <1>10 DEF vars
<1> QED BY <1>1, <1>2, <1>3, <1>5, <1>6, <1>7, <1>9, <1>10 DEF Next, WorkerStep

\* The ingest queue implements the ledger: what was accepted is owed until it is
\* paid, and is paid once.
THEOREM QueueIsLedger == Spec => LedgerSpec
<1>1. Init => Ledger!Init
    BY LedgerRefinesInit
<1>2. LedgerInv /\ [Next]_vars => [Ledger!Next]_<<Owed, score>>
    BY LedgerRefinesNext
<1>3. Ledger!Spec <=> Ledger!Init /\ [][Ledger!Next]_<<Owed, score>>
    BY DEF Ledger!Spec, Ledger!vars
<1> QED BY <1>1, <1>2, <1>3, LedgerAlways, PTL DEF Spec, LedgerSpec
=============================================================================
