-------------------------------- MODULE Pool --------------------------------
(* The connection pool and the write lock of app/db.py.                      *)
(*                                                                           *)
(* A caller borrows one connection at a time.  A handler begins and ends its *)
(* own transactions; a session is a WriteSession, which does so under        *)
(* _WRITE_LOCK; a worker takes the lock and hands its work to a thread,      *)
(* which goes on when the worker is cancelled.                               *)
(*                                                                           *)
(* A WriteSession does not await between taking the lock and giving it back; *)
(* here other callers may act in between, as threads can.  The free list is  *)
(* a set: which idle connection is handed out does not matter.  Left out:    *)
(* connections to another db_path, and the unpooled one of the MQTT client.  *)
EXTENDS Naturals, Sequences, FiniteSets

CONSTANTS
    Handlers, Sessions, Workers,
    Conns,      \* physical connections: those neither idle nor borrowed are closed
    PoolMax,    \* _POOL_MAX
    MaxBroken,  \* bound on faults
    None

ASSUME PoolBounds == PoolMax \in Nat /\ MaxBroken \in Nat
ASSUME NoneIsNoConnection == None \notin Conns
ASSUME RolesAreDistinct ==
    Handlers \cap Sessions = {} /\ Handlers \cap Workers = {} /\ Sessions \cap Workers = {}

Callers == Handlers \cup Sessions \cup Workers

VARIABLES
    idle,     \* _POOL
    proxy,    \* per caller: the last proxy it got, and whether that was closed
    inTxn,    \* connections inside BEGIN IMMEDIATE; SQLite admits one
    broken,   \* connections whose handle has gone bad
    lock,     \* who holds _WRITE_LOCK
    queue,    \* who waits for it
    pc,
    faults

vars == <<idle, proxy, inTxn, broken, lock, queue, pc, faults>>

NoProxy == [conn |-> None, released |-> TRUE]

Init ==
    /\ idle = {} /\ inTxn = {} /\ broken = {}
    /\ proxy = [c \in Callers |-> NoProxy]
    /\ lock = None /\ queue = <<>>
    /\ pc = [c \in Callers |-> "out"]
    /\ faults = 0

Owns(c, r) == proxy[c].conn = r /\ ~proxy[c].released
Borrows(c) == ~proxy[c].released
\* A handler, or the thread of a worker, at work outside a WriteSession.
Free(c) == c \in Handlers \/ pc[c] = "thread"
Owned == {r \in Conns : \E c \in Callers : Owns(c, r)}

-----------------------------------------------------------------------------
(* Borrowing and releasing.                                                  *)

\* What connect may hand out: an idle connection that answers, or a new one when none
\* does.
Handouts == IF idle \subseteq broken THEN Conns \ (idle \cup Owned) ELSE idle \ broken

\* The free list after connect returned r: dead connections met on the way are closed.
Popped(r) == IF r \in idle THEN {idle \ ({r} \cup gone) : gone \in SUBSET (idle \cap broken)} ELSE {{}}

PutBack(free, r) == IF Cardinality(free) < PoolMax THEN free \cup {r} ELSE free

\* Mutation: close releases again what it already released.
ClosesAgain(c) == proxy[c].conn # None

Closes(c) == ~proxy[c].released

\* Mutation: a connection goes back with its transaction open.
KeptOpen(open, r) == open

RolledBack(open, r) == open \ {r}

\* _PooledConnectionProxy.close and _release_connection: a connection that cannot be
\* rolled back is dropped.
Release(c) ==
    LET r == proxy[c].conn
        poisoned == r \in inTxn \cap broken
    IN  /\ proxy' = [proxy EXCEPT ![c].released = TRUE]
        /\ inTxn' = IF poisoned THEN inTxn \ {r} ELSE RolledBack(inTxn, r)
        /\ idle' = IF poisoned THEN idle ELSE PutBack(idle, r)
        /\ UNCHANGED <<broken, faults>>

\* connect.
Borrow(c, r) ==
    /\ r \in Handouts
    /\ idle' \in Popped(r)
    /\ proxy' = [proxy EXCEPT ![c] = [conn |-> r, released |-> FALSE]]
    /\ broken' = IF r \in idle THEN broken ELSE broken \ {r}

Connect(c) ==
    /\ Free(c) /\ ~Borrows(c)
    /\ \E r \in Conns : Borrow(c, r)
    /\ UNCHANGED <<inTxn, lock, queue, pc, faults>>

\* The caller's finally, or a second close of the same proxy.
Close(c) ==
    /\ Free(c)
    /\ Closes(c)
    /\ Release(c)
    /\ pc' = [pc EXCEPT ![c] = IF @ = "thread" THEN "ended" ELSE @]
    /\ UNCHANGED <<lock, queue>>

\* BEGIN IMMEDIATE by a caller of its own: it waits for SQLite's lock ...
Begin(c) ==
    /\ Free(c) /\ Borrows(c)
    /\ inTxn = {} /\ proxy[c].conn \notin broken
    /\ inTxn' = {proxy[c].conn}
    /\ UNCHANGED <<idle, proxy, broken, lock, queue, pc, faults>>

\* ... or raises: busy for longer than busy_timeout, or a bad handle.
BeginFails(c) ==
    /\ Free(c) /\ Borrows(c)
    /\ proxy[c].conn \notin inTxn
    /\ inTxn # {} \/ proxy[c].conn \in broken
    /\ Release(c)
    /\ pc' = [pc EXCEPT ![c] = IF @ = "thread" THEN "ended" ELSE @]
    /\ UNCHANGED <<lock, queue>>

\* COMMIT or ROLLBACK.
End(c) ==
    /\ Free(c) /\ Borrows(c)
    /\ proxy[c].conn \in inTxn \ broken
    /\ inTxn' = inTxn \ {proxy[c].conn}
    /\ UNCHANGED <<idle, proxy, broken, lock, queue, pc, faults>>

\* A connection's handle goes bad.
Breaks(r) ==
    /\ faults < MaxBroken
    /\ r \in (idle \cup Owned) \ broken
    /\ faults' = faults + 1
    /\ broken' = broken \cup {r}
    /\ UNCHANGED <<idle, proxy, inTxn, lock, queue, pc>>

-----------------------------------------------------------------------------
(* The write lock.                                                           *)

\* A coroutine waits for _WRITE_LOCK; asyncio wakes the waiters in order.
Ask(c) ==
    /\ c \in Sessions \cup Workers /\ pc[c] = "out"
    /\ pc' = [pc EXCEPT ![c] = "waits"]
    /\ queue' = Append(queue, c)
    /\ UNCHANGED <<idle, proxy, inTxn, broken, lock, faults>>

Acquire(c) ==
    /\ lock = None
    /\ pc[c] = "waits" /\ queue # <<>> /\ Head(queue) = c
    /\ lock' = c
    /\ queue' = Tail(queue)
    /\ pc' = [pc EXCEPT ![c] = "enters"]
    /\ UNCHANGED <<idle, proxy, inTxn, broken, faults>>

\* The waiter is cancelled.
Leaves(c) ==
    /\ pc[c] = "waits"
    /\ pc' = [pc EXCEPT ![c] = "out"]
    /\ queue' = SelectSeq(queue, LAMBDA d : d # c)
    /\ UNCHANGED <<idle, proxy, inTxn, broken, lock, faults>>

\* WriteSession.__aenter__: connect and BEGIN IMMEDIATE.
Enter(c) ==
    /\ c \in Sessions /\ pc[c] = "enters"
    /\ inTxn = {}
    /\ \E r \in Conns : Borrow(c, r) /\ inTxn' = {r}
    /\ pc' = [pc EXCEPT ![c] = "writes"]
    /\ UNCHANGED <<lock, queue, faults>>

\* Mutation: an exception in __aenter__ leaves the lock taken.
LockKept(c) == c

LockAfterFailure(c) == None

\* It raises: SQLite is busy for too long, or the caller is cancelled.  The connection
\* that connect returned is closed again.
EnterFails(c) ==
    /\ c \in Sessions /\ pc[c] = "enters"
    /\ \E r \in Handouts : /\ \E free \in Popped(r) : idle' = PutBack(free, r)
                           /\ proxy' = [proxy EXCEPT ![c] = [conn |-> r, released |-> TRUE]]
                           /\ broken' = IF r \in idle THEN broken ELSE broken \ {r}
    /\ lock' = LockAfterFailure(c)
    /\ pc' = [pc EXCEPT ![c] = "out"]
    /\ UNCHANGED <<inTxn, queue, faults>>

\* WriteSession.__aexit__: whether COMMIT or ROLLBACK succeeds or raises, the
\* connection goes back and the lock is released.
Exit(c) ==
    /\ pc[c] = "writes"
    /\ Release(c)
    /\ lock' = None
    /\ pc' = [pc EXCEPT ![c] = "out"]
    /\ UNCHANGED queue

\* McIngestor._process_batch: with the lock held, a thread does the work.
ToThread(c) ==
    /\ c \in Workers /\ pc[c] = "enters"
    /\ pc' = [pc EXCEPT ![c] = "thread"]
    /\ UNCHANGED <<idle, proxy, inTxn, broken, lock, queue, faults>>

ThreadEnds(c) ==
    /\ pc[c] = "ended"
    /\ lock' = IF lock = c THEN None ELSE lock
    /\ pc' = [pc EXCEPT ![c] = "out"]
    /\ UNCHANGED <<idle, proxy, inTxn, broken, queue, faults>>

\* The worker is cancelled while it awaits the thread: the lock is released and the
\* thread goes on.
CancelWorker(c) ==
    /\ pc[c] \in {"thread", "ended"} /\ lock = c
    /\ lock' = None
    /\ UNCHANGED <<idle, proxy, inTxn, broken, queue, pc, faults>>

Next ==
    \/ \E c \in Callers :
         \/ Connect(c) \/ Close(c) \/ Begin(c) \/ BeginFails(c) \/ End(c)
         \/ Ask(c) \/ Acquire(c) \/ Leaves(c) \/ Enter(c) \/ EnterFails(c) \/ Exit(c)
         \/ ToThread(c) \/ ThreadEnds(c) \/ CancelWorker(c)
    \/ \E r \in Conns : Breaks(r)

\* A holder of the lock goes on, and so does a thread, up to the end of its batch.
Fairness ==
    \A c \in Callers :
        /\ WF_vars(Acquire(c))
        /\ WF_vars(Enter(c) \/ EnterFails(c) \/ ToThread(c) \/ Exit(c) \/ ThreadEnds(c))
        /\ WF_vars(pc[c] = "thread" /\ (Connect(c) \/ Close(c)))

Spec == Init /\ [][Next]_vars /\ Fairness

-----------------------------------------------------------------------------
(* Properties.                                                               *)

Stages == {"out", "waits", "enters", "writes", "thread", "ended"}

TypeOK ==
    /\ idle \subseteq Conns /\ inTxn \subseteq Conns /\ broken \subseteq Conns
    /\ proxy \in [Callers -> [conn : Conns \cup {None}, released : BOOLEAN]]
    /\ pc \in [Callers -> Stages]
    /\ faults \in Nat

\* Two callers never hold the same physical connection, and none that is held lies in
\* the free list: "a double close() must never push the same real connection onto the
\* free list twice" (_PooledConnectionProxy.close), however often proxies are closed.
OneBorrower ==
    \A r \in Conns :
        /\ \A c, d \in Callers : Owns(c, r) /\ Owns(d, r) => c = d
        /\ \A c \in Callers : Owns(c, r) => r \notin idle

\* An open transaction belongs to a caller that can still end it: no connection lies in
\* the free list, or is handed out, inside somebody's half-finished write, and SQLite's
\* lock is never held by nobody.
TransactionsAreOwned == inTxn \subseteq Owned

\* Whoever waits for _WRITE_LOCK gets it or is cancelled, whatever fails in the sessions
\* before it, and though the worker may be cancelled over its thread.
WaitersAreServed == \A c \in Callers : pc[c] = "waits" ~> pc[c] # "waits"
=============================================================================
