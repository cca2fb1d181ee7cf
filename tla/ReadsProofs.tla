----------------------------- MODULE ReadsProofs ----------------------------
(* The pool and the boards, for every number of callers, connections, faults *)
(* and web processes.                                                        *)
(*                                                                           *)
(* No connection has two borrowers and no transaction is abandoned: a        *)
(* session's proxy is open exactly while it writes; without that its own     *)
(* connect could overwrite an open proxy and lose the connection inside its  *)
(* transaction.                                                              *)
(*                                                                           *)
(* An answer carries the attribution of the audience it was built for, and   *)
(* what a reader is shown of a region is no older than the caches it came    *)
(* through may be together: every cached value is dated, and the dates only  *)
(* grow on the way down.                                                     *)
EXTENDS MCReads, TLAPS

ProxyHasConn == \A c \in Callers : Borrows(c) => proxy[c].conn \in Conns

SessionsHoldWhileWriting ==
    /\ \A c \in Callers : pc[c] = "writes" => c \in Sessions /\ Borrows(c)
    /\ \A c \in Sessions : pc[c] # "writes" => ~Borrows(c)
    /\ \A c \in Sessions : pc[c] # "thread"

\* What does not depend on where the callers are.
PoolInv ==
    /\ idle \subseteq Conns /\ inTxn \subseteq Conns /\ broken \subseteq Conns
    /\ proxy \in [Callers -> [conn : Conns \cup {None}, released : BOOLEAN]]
    /\ ProxyHasConn
    /\ OneBorrower
    /\ TransactionsAreOwned

IInv == PoolInv /\ TypeOK /\ SessionsHoldWhileWriting

-----------------------------------------------------------------------------

\* A connection that goes back has no borrower left and no transaction.
LEMMA ReleaseKeepsPool ==
    ASSUME PoolInv, NEW c \in Callers, Borrows(c), Release(c)
    PROVE  /\ PoolInv'
           /\ \A d \in Callers : Borrows(d)' <=> d # c /\ Borrows(d)
<1> DEFINE r == proxy[c].conn
<1>1. r \in Conns /\ Owns(c, r)
  BY DEF PoolInv, ProxyHasConn, Owns, Borrows
<1>2. proxy' = [proxy EXCEPT ![c].released = TRUE]
  BY DEF Release
<1>3. /\ proxy' \in [Callers -> [conn : Conns \cup {None}, released : BOOLEAN]]
      /\ \A d \in Callers : proxy'[d].conn = proxy[d].conn
      /\ proxy'[c].released
      /\ \A d \in Callers : d # c => proxy'[d] = proxy[d]
  BY <1>2 DEF PoolInv
<1>4. /\ inTxn' = inTxn \ {r}
      /\ idle' \subseteq idle \cup {r}
      /\ broken' = broken
  BY DEF Release, PutBack, RolledBack
<1>5. \A d \in Callers : Borrows(d)' <=> (d # c /\ Borrows(d))
  BY <1>3 DEF Borrows
<1>6. \A d \in Callers, s \in Conns : Owns(d, s)' <=> d # c /\ Owns(d, s)
  BY <1>3 DEF Owns
<1>7. ProxyHasConn'
  BY <1>3, <1>5 DEF PoolInv, ProxyHasConn
<1>8. OneBorrower'
  <2>1. \A s \in Conns : \A d, e \in Callers : Owns(d, s)' /\ Owns(e, s)' => d = e
    BY <1>6 DEF PoolInv, OneBorrower
  <2>2. ASSUME NEW s \in Conns, NEW d \in Callers, Owns(d, s)'
        PROVE  s \notin idle'
    <3>1. d # c /\ Owns(d, s)
      BY <1>6, <2>2
    <3>2. s # r
      BY <1>1, <3>1 DEF PoolInv, OneBorrower
    <3>3. s \notin idle
      BY <3>1 DEF PoolInv, OneBorrower
    <3> QED BY <1>4, <3>2, <3>3
  <2> QED BY <2>1, <2>2 DEF OneBorrower
<1>9. TransactionsAreOwned'
  <2> SUFFICES ASSUME NEW s \in inTxn' PROVE s \in Owned'
    BY DEF TransactionsAreOwned
  <2>1. s \in inTxn /\ s # r /\ s \in Conns
    BY <1>4 DEF PoolInv
  <2>2. PICK d \in Callers : Owns(d, s)
    BY <2>1 DEF PoolInv, TransactionsAreOwned, Owned
  <2>3. d # c
    BY <2>1, <2>2 DEF Owns
  <2> QED BY <1>6, <2>1, <2>2, <2>3 DEF Owned
<1> QED
  BY <1>1, <1>3, <1>4, <1>5, <1>7, <1>8, <1>9 DEF PoolInv

\* What connect hands out belongs to nobody.
LEMMA HandoutsAreFree ==
    ASSUME PoolInv, NEW r \in Conns, r \in Handouts
    PROVE  \A d \in Callers : ~Owns(d, r)
BY DEF PoolInv, OneBorrower, Handouts, Owned

LEMMA PoppedIsIdle ==
    ASSUME NEW r, NEW free \in Popped(r)
    PROVE  free \subseteq idle /\ r \notin free
BY DEF Popped

\* A caller without a proxy gets a connection of its own; a transaction begun at once is
\* its own too.
LEMMA BorrowKeepsPool ==
    ASSUME PoolInv, NEW c \in Callers, ~Borrows(c), NEW r \in Conns, Borrow(c, r),
           inTxn' = inTxn \/ (inTxn = {} /\ inTxn' = {r})
    PROVE  /\ PoolInv'
           /\ \A d \in Callers : Borrows(d)' <=> d = c \/ Borrows(d)
<1>1. \A d \in Callers : ~Owns(d, r)
  BY HandoutsAreFree DEF Borrow
<1>2. idle' \subseteq idle /\ r \notin idle'
  BY PoppedIsIdle DEF Borrow
<1>3. /\ proxy' \in [Callers -> [conn : Conns \cup {None}, released : BOOLEAN]]
      /\ proxy'[c] = [conn |-> r, released |-> FALSE]
      /\ \A d \in Callers : d # c => proxy'[d] = proxy[d]
  BY DEF PoolInv, Borrow
<1>4. \A d \in Callers : Borrows(d)' <=> d = c \/ Borrows(d)
  BY <1>3 DEF Borrows
<1>5. \A d \in Callers, s \in Conns : Owns(d, s)' <=> (d = c /\ s = r) \/ Owns(d, s)
  <2> SUFFICES ASSUME NEW d \in Callers, NEW s \in Conns
               PROVE  Owns(d, s)' <=> (d = c /\ s = r) \/ Owns(d, s)
    OBVIOUS
  <2>1. CASE d = c
    BY <1>3, <2>1 DEF Owns, Borrows
  <2>2. CASE d # c
    BY <1>3, <2>2 DEF Owns
  <2> QED BY <2>1, <2>2
<1>6. ProxyHasConn'
  BY <1>3 DEF PoolInv, ProxyHasConn, Borrows
<1>7. OneBorrower'
  <2>1. \A s \in Conns : \A d, e \in Callers : Owns(d, s)' /\ Owns(e, s)' => d = e
    BY <1>1, <1>5 DEF PoolInv, OneBorrower
  <2>2. \A s \in Conns, d \in Callers : Owns(d, s)' => s \notin idle'
    BY <1>2, <1>5 DEF PoolInv, OneBorrower
  <2> QED BY <2>1, <2>2 DEF OneBorrower
<1>8. TransactionsAreOwned'
  <2> SUFFICES ASSUME NEW s \in inTxn' PROVE s \in Owned'
    BY DEF TransactionsAreOwned
  <2>1. s \in Conns
    BY DEF PoolInv
  <2>2. CASE s = r
    BY <1>5, <2>1, <2>2 DEF Owned
  <2>3. CASE s # r
    <3>1. s \in inTxn
      BY <2>3
    <3>2. PICK d \in Callers : Owns(d, s)
      BY <3>1 DEF PoolInv, TransactionsAreOwned, Owned
    <3> QED BY <1>5, <2>1, <3>2 DEF Owned
  <2> QED BY <2>2, <2>3
<1>9. inTxn' \subseteq Conns /\ broken' \subseteq Conns /\ idle' \subseteq Conns
  BY <1>2 DEF PoolInv, Borrow
<1> QED
  BY <1>3, <1>4, <1>6, <1>7, <1>8, <1>9 DEF PoolInv

\* A session whose BEGIN fails leaves nothing behind: what it got goes back.
LEMMA EnterFailsKeepsPool ==
    ASSUME PoolInv, NEW c \in Sessions, ~Borrows(c), EnterFails(c)
    PROVE  /\ PoolInv'
           /\ \A d \in Callers : Borrows(d)' <=> Borrows(d)
<1>1. c \in Callers
  BY DEF Callers
<1>2. PICK r \in Handouts :
        /\ \E free \in Popped(r) : idle' = PutBack(free, r)
        /\ proxy' = [proxy EXCEPT ![c] = [conn |-> r, released |-> TRUE]]
        /\ broken' = IF r \in idle THEN broken ELSE broken \ {r}
  BY DEF EnterFails
<1>3. r \in Conns
  BY <1>2 DEF Handouts, PoolInv
<1>4. \A d \in Callers : ~Owns(d, r)
  BY <1>2, <1>3, HandoutsAreFree
<1>5. idle' \subseteq idle \cup {r}
  BY <1>2, PoppedIsIdle DEF PutBack
<1>6. /\ proxy' \in [Callers -> [conn : Conns \cup {None}, released : BOOLEAN]]
      /\ proxy'[c].released
      /\ \A d \in Callers : d # c => proxy'[d] = proxy[d]
  BY <1>1, <1>2, <1>3 DEF PoolInv
<1>7. \A d \in Callers : Borrows(d)' <=> Borrows(d)
  BY <1>6 DEF Borrows
<1>8. \A d \in Callers, s \in Conns : Owns(d, s)' <=> Owns(d, s)
  BY <1>6 DEF Owns, Borrows
<1>9. inTxn' = inTxn
  BY DEF EnterFails
<1>10. ProxyHasConn' /\ OneBorrower' /\ TransactionsAreOwned'
  <2>1. ProxyHasConn'
    BY <1>6, <1>7 DEF PoolInv, ProxyHasConn, Borrows
  <2>2. OneBorrower'
    BY <1>4, <1>5, <1>8 DEF PoolInv, OneBorrower
  <2>3. TransactionsAreOwned'
    BY <1>8, <1>9 DEF PoolInv, TransactionsAreOwned, Owned
  <2> QED BY <2>1, <2>2, <2>3
<1> QED
  BY <1>2, <1>3, <1>5, <1>6, <1>7, <1>9, <1>10 DEF PoolInv

-----------------------------------------------------------------------------

LEMMA InitPool == Init => IInv
BY NoneIsNoConnection
   DEF Init, IInv, PoolInv, TypeOK, SessionsHoldWhileWriting, ProxyHasConn, OneBorrower,
       TransactionsAreOwned, Owned, Owns, Borrows, NoProxy, Stages, Callers

\* The pool's part of the invariant survives a step that leaves the proxies and the free
\* list alone and opens no transaction but of a borrower's.
LEMMA SameProxiesKeepPool ==
    ASSUME PoolInv, UNCHANGED <<idle, proxy>>, broken' \subseteq Conns,
           \A r \in inTxn' : r \in inTxn \/ r \in Owned
    PROVE  PoolInv' /\ \A d \in Callers : Borrows(d)' <=> Borrows(d)
<1>1. inTxn' \subseteq Owned
  BY DEF PoolInv, TransactionsAreOwned
<1>2. Owned' = Owned
  BY DEF Owned, Owns
<1>3. inTxn' \subseteq Conns
  BY <1>1 DEF Owned
<1> QED
  BY <1>1, <1>2, <1>3 DEF PoolInv, ProxyHasConn, OneBorrower, TransactionsAreOwned, Owns, Borrows

LEMMA StepKeepsPool == IInv /\ [Next]_vars => IInv'
<1> SUFFICES ASSUME IInv, [Next]_vars PROVE IInv'
  OBVIOUS
<1> USE DEF IInv
<1>0. /\ Sessions \subseteq Callers /\ Handlers \cap Sessions = {} /\ Workers \cap Sessions = {}
      /\ pc \in [Callers -> Stages]
  BY RolesAreDistinct DEF Callers, TypeOK
<1>1. ASSUME NEW c \in Callers, Connect(c) PROVE IInv'
  <2>1. PoolInv' /\ \A d \in Callers : Borrows(d)' <=> d = c \/ Borrows(d)
    BY <1>1, BorrowKeepsPool DEF Connect
  <2>2. c \notin Sessions
    BY <1>0, <1>1 DEF Connect, Free, SessionsHoldWhileWriting
  <2> QED BY <1>0, <1>1, <2>1, <2>2 DEF Connect, PoolInv, TypeOK, SessionsHoldWhileWriting
<1>2. ASSUME NEW c \in Callers, Close(c) \/ BeginFails(c) PROVE IInv'
  <2>1. Borrows(c) /\ Release(c) /\ Free(c)
    BY <1>2 DEF Close, BeginFails, Closes, Borrows
  <2>2. PoolInv' /\ \A d \in Callers : Borrows(d)' <=> d # c /\ Borrows(d)
    BY <2>1, ReleaseKeepsPool
  <2>3. c \notin Sessions
    BY <1>0, <2>1 DEF Free, SessionsHoldWhileWriting
  <2>4. /\ pc' = [pc EXCEPT ![c] = IF @ = "thread" THEN "ended" ELSE @]
        /\ faults' = faults
    BY <1>2 DEF Close, BeginFails, Release
  <2>5. pc' \in [Callers -> Stages] /\ \A d \in Callers : d # c => pc'[d] = pc[d]
    BY <1>0, <2>4 DEF Stages
  <2>6. pc'[c] # "writes"
    BY <1>0, <2>3, <2>4 DEF SessionsHoldWhileWriting
  <2> QED BY <1>0, <2>2, <2>3, <2>4, <2>5, <2>6 DEF PoolInv, TypeOK, SessionsHoldWhileWriting
<1>3. ASSUME NEW c \in Callers, Begin(c) \/ End(c) PROVE IInv'
  <2>1. proxy[c].conn \in Owned
    BY <1>3 DEF Begin, End, PoolInv, ProxyHasConn, Owned, Owns, Borrows
  <2>2. /\ \A r \in inTxn' : r \in inTxn \/ r \in Owned
        /\ UNCHANGED <<idle, proxy, broken, pc, faults>>
    BY <1>3, <2>1 DEF Begin, End
  <2>3. PoolInv' /\ \A d \in Callers : Borrows(d)' <=> Borrows(d)
    BY <2>2, SameProxiesKeepPool DEF PoolInv
  <2> QED BY <1>0, <2>2, <2>3 DEF PoolInv, TypeOK, SessionsHoldWhileWriting
<1>4. ASSUME NEW c \in Callers, Ask(c) \/ Acquire(c) \/ Leaves(c) \/ ToThread(c) \/ ThreadEnds(c)
      PROVE IInv'
  <2>1. UNCHANGED <<idle, proxy, inTxn, broken, faults>>
    BY <1>4 DEF Ask, Acquire, Leaves, ToThread, ThreadEnds
  <2>2. PoolInv' /\ \A d \in Callers : Borrows(d)' <=> Borrows(d)
    BY <2>1, SameProxiesKeepPool DEF PoolInv
  <2>3. /\ pc' \in [Callers -> Stages]
        /\ \A d \in Callers : d # c => pc'[d] = pc[d]
        /\ pc'[c] # "writes"
    BY <1>0, <1>4 DEF Ask, Acquire, Leaves, ToThread, ThreadEnds, Stages
  <2>4. pc[c] # "writes" /\ (c \in Sessions => pc'[c] # "thread")
    BY <1>0, <1>4 DEF Ask, Acquire, Leaves, ToThread, ThreadEnds, Stages
  <2> QED BY <1>0, <2>1, <2>2, <2>3, <2>4 DEF PoolInv, TypeOK, SessionsHoldWhileWriting
<1>5. ASSUME NEW c \in Callers, Enter(c) PROVE IInv'
  <2>1. c \in Sessions /\ pc[c] = "enters" /\ ~Borrows(c)
    BY <1>5 DEF Enter, SessionsHoldWhileWriting
  <2>2. PICK r \in Conns : Borrow(c, r) /\ inTxn = {} /\ inTxn' = {r}
    BY <1>5 DEF Enter
  <2>3. PoolInv' /\ \A d \in Callers : Borrows(d)' <=> d = c \/ Borrows(d)
    BY <2>1, <2>2, BorrowKeepsPool
  <2>4. pc' = [pc EXCEPT ![c] = "writes"] /\ faults' = faults
    BY <1>5 DEF Enter
  <2> QED BY <1>0, <2>1, <2>3, <2>4 DEF PoolInv, TypeOK, SessionsHoldWhileWriting, Stages
<1>6. ASSUME NEW c \in Callers, EnterFails(c) PROVE IInv'
  <2>1. c \in Sessions /\ pc[c] = "enters" /\ ~Borrows(c)
    BY <1>6 DEF EnterFails, SessionsHoldWhileWriting
  <2>2. PoolInv' /\ \A d \in Callers : Borrows(d)' <=> Borrows(d)
    BY <1>6, <2>1, EnterFailsKeepsPool
  <2>3. pc' = [pc EXCEPT ![c] = "out"] /\ faults' = faults
    BY <1>6 DEF EnterFails
  <2> QED BY <1>0, <2>1, <2>2, <2>3 DEF PoolInv, TypeOK, SessionsHoldWhileWriting, Stages
<1>7. ASSUME NEW c \in Callers, Exit(c) PROVE IInv'
  <2>1. c \in Sessions /\ Borrows(c) /\ Release(c)
    BY <1>7 DEF Exit, SessionsHoldWhileWriting
  <2>2. PoolInv' /\ \A d \in Callers : Borrows(d)' <=> d # c /\ Borrows(d)
    BY <2>1, ReleaseKeepsPool
  <2>3. pc' = [pc EXCEPT ![c] = "out"] /\ faults' = faults
    BY <1>7 DEF Exit, Release
  <2> QED BY <1>0, <2>1, <2>2, <2>3 DEF PoolInv, TypeOK, SessionsHoldWhileWriting, Stages
<1>8. ASSUME NEW c \in Callers, CancelWorker(c) PROVE IInv'
  <2>1. UNCHANGED <<idle, proxy, inTxn, broken, pc, faults>>
    BY <1>8 DEF CancelWorker
  <2>2. PoolInv' /\ \A d \in Callers : Borrows(d)' <=> Borrows(d)
    BY <2>1, SameProxiesKeepPool DEF PoolInv
  <2> QED BY <1>0, <2>1, <2>2 DEF PoolInv, TypeOK, SessionsHoldWhileWriting
<1>9. ASSUME NEW r \in Conns, Breaks(r) PROVE IInv'
  <2>1. UNCHANGED <<idle, proxy, inTxn, pc>> /\ broken' = broken \cup {r} /\ faults' = faults + 1
    BY <1>9 DEF Breaks
  <2>2. PoolInv' /\ \A d \in Callers : Borrows(d)' <=> Borrows(d)
    BY <2>1, SameProxiesKeepPool DEF PoolInv
  <2> QED BY <1>0, <2>1, <2>2 DEF PoolInv, TypeOK, SessionsHoldWhileWriting
<1>10. ASSUME UNCHANGED vars PROVE IInv'
  <2>1. UNCHANGED <<idle, proxy, inTxn, broken, pc, faults>>
    BY <1>10 DEF vars
  <2>2. PoolInv' /\ \A d \in Callers : Borrows(d)' <=> Borrows(d)
    BY <2>1, SameProxiesKeepPool DEF PoolInv
  <2> QED BY <1>0, <2>1, <2>2 DEF PoolInv, TypeOK, SessionsHoldWhileWriting
<1> QED
  BY <1>1, <1>2, <1>3, <1>4, <1>5, <1>6, <1>7, <1>8, <1>9, <1>10 DEF Next

LEMMA PoolInvariant == Spec => []IInv
BY InitPool, StepKeepsPool, PTL DEF Spec

\* The pool never hands one connection to two callers, whatever the number of callers,
\* the order of connects and closes and the connections that break.
THEOREM ConnectionsAreExclusive == Spec => []OneBorrower
<1>1. IInv => OneBorrower
  BY DEF IInv, PoolInv
<1> QED BY <1>1, PoolInvariant, PTL

\* No connection waits in the free list inside a transaction, and SQLite's write lock
\* always has a borrower that can end it, also over a worker cancelled in mid-batch.
THEOREM NoTransactionAbandoned == Spec => []TransactionsAreOwned
<1>1. IInv => TransactionsAreOwned
  BY DEF IInv, PoolInv
<1> QED BY <1>1, PoolInvariant, PTL
-----------------------------------------------------------------------------
(* The boards.                                                               *)

AllKeys == {public, authed, group, region}

\* How long the row of a key that has a shared TTL is trusted.
Trust(k) == IF k = group THEN GroupTtl ELSE RegionTtl
Ageing == {group, region}

Payloads(k) == {RA!Payload(k, b) : b \in Boards}

Entries == [body : Bodies, etag : Bodies, age : Nat, lag : Nat]

\* An entry of a key: cut for it, and under the ETag of its body.
IsEntry(e, k) == e \in Entries /\ e.body \in Payloads(k) /\ e.etag = e.body

Builds == [client : Clients, key : family, board : Boards, lag : 0..BuildTime]
Cycles == [left : SUBSET family, board : Boards, lag : 0..PublishTime,
           same : family \cup {None}]

RowsOK == /\ row = [k \in family |-> row[k]]
          /\ \A k \in family : row[k] = None \/ IsEntry(row[k], k)

CacheOK == /\ cache = [p \in Procs |-> [k \in family |-> cache[p][k]]]
           /\ \A p \in Procs, k \in family : cache[p][k] = None \/ IsEntry(cache[p][k], k)

BuildsOK == /\ request = [p \in Procs |-> request[p]]
            /\ \A p \in Procs : request[p] = None \/ request[p] \in Builds

\* The publisher confirms a row that is there.
CycleOK == publisher = None \/ /\ publisher \in Cycles
                               /\ publisher.same # None => row[publisher.same] # None

\* A client's ETag is always that of the body it holds.
ClientsOK ==
    /\ asked \in [Clients -> family \cup {None}]
    /\ shown = [c \in Clients |-> shown[c]]
    /\ tag = shown
    /\ \A c \in Clients : asked[c] # None => shown[c] \in Payloads(asked[c])

BoardInv == /\ family \in MCFamilies /\ board \in Boards
            /\ RowsOK /\ CacheOK /\ BuildsOK /\ CycleOK /\ ClientsOK

LEMMA KeysOfFamily ==
    ASSUME BoardInv
    PROVE  family \subseteq AllKeys /\ None \notin family
BY BoardShape DEF BoardInv, MCFamilies, AllKeys

LEMMA PayloadIs ==
    ASSUME NEW k \in AllKeys, NEW b \in Boards
    PROVE  RA!Payload(k, b) \in Bodies /\ RA!Payload(k, b) \in Payloads(k)
<1>1. RA!Payload(k, b) \in Payloads(k)
  BY DEF Payloads
<1>2. RA!Payload(k, b) \in Bodies
  BY DEF RA!Payload, Bodies, AllKeys
<1> QED BY <1>1, <1>2

LEMMA EntryIs ==
    ASSUME NEW k \in AllKeys, NEW b \in Boards, NEW lag \in Nat
    PROVE  /\ IsEntry(RA!Entry(k, b, lag), k)
           /\ RA!Entry(k, b, lag).body = RA!Payload(k, b)
           /\ RA!Entry(k, b, lag).age = 0
           /\ RA!Entry(k, b, lag).lag = IF k \in Ageing THEN lag ELSE 0
<1>1. RA!Entry(k, b, lag) = [body |-> RA!Payload(k, b), etag |-> RA!Payload(k, b), age |-> 0,
                             lag |-> IF k \in Ageing THEN lag ELSE 0]
  BY DEF RA!Entry, RA!Digest, RA!Shared, Ageing
<1> QED BY <1>1, PayloadIs DEF IsEntry, Entries

LEMMA EntriesAreThere == \A k, e : IsEntry(e, k) => e # None
BY BoardShape DEF IsEntry, Entries

LEMMA OlderIs ==
    ASSUME NEW k \in AllKeys, NEW e, IsEntry(e, k)
    PROVE  LET f == RA!Older(k, e)
           IN  /\ IsEntry(f, k) /\ f.body = e.body
               /\ k \in Ageing =>
                    \/ e.age > Trust(k) /\ f.age = e.age /\ f.lag = e.lag
                    \/ ~(e.age > Trust(k)) /\ f.age = e.age + 1 /\ f.lag = e.lag + 1
<1>1. e.age \in Nat /\ e.lag \in Nat
  BY DEF IsEntry, Entries
<1>2. CASE k \notin Ageing
  BY <1>2 DEF RA!Older, RA!Shared, Ageing
<1>3. CASE k \in Ageing
  <2> DEFINE age == IF e.age > Trust(k) THEN e.age ELSE e.age + 1
             lag == IF e.age > Trust(k) THEN e.lag ELSE e.lag + 1
  <2>1. RA!Older(k, e) = [e EXCEPT !.age = age, !.lag = lag]
    BY <1>3 DEF RA!Older, RA!Shared, Ageing, Trust
  <2>2. age \in Nat /\ lag \in Nat
    BY <1>1
  <2>3. /\ IsEntry(RA!Older(k, e), k) /\ RA!Older(k, e).body = e.body
        /\ RA!Older(k, e).age = age /\ RA!Older(k, e).lag = lag
    <3> HIDE DEF age, lag
    <3> QED BY <2>1, <2>2 DEF IsEntry, Entries
  <2> QED BY <2>3
<1> QED BY <1>2, <1>3

LEMMA CacheOlderIs ==
    ASSUME NEW k \in AllKeys, NEW e, e = None \/ IsEntry(e, k), RA!CacheOlder(k, e) # None
    PROVE  LET f == RA!CacheOlder(k, e)
           IN  /\ IsEntry(e, k) /\ IsEntry(f, k)
               /\ e.age + 1 < Ttl /\ f.age = e.age + 1
               /\ k \in Ageing => f.lag = e.lag + 1
<1>1. IsEntry(e, k) /\ e.age \in Nat /\ e.lag \in Nat /\ Ttl \in Nat
  BY BoardShape DEF RA!CacheOlder, IsEntry, Entries
<1> DEFINE lag == IF k \in Ageing THEN e.lag + 1 ELSE e.lag
<1>2. RA!CacheOlder(k, e) = [e EXCEPT !.age = e.age + 1, !.lag = lag] /\ ~(e.age + 1 >= Ttl)
  BY DEF RA!CacheOlder, RA!Shared, Ageing
<1>3. e.age + 1 \in Nat /\ lag \in Nat
  BY <1>1
<1>4. /\ IsEntry(RA!CacheOlder(k, e), k)
      /\ RA!CacheOlder(k, e).age = e.age + 1 /\ RA!CacheOlder(k, e).lag = lag
  <2> HIDE DEF lag
  <2> QED BY <1>1, <1>2, <1>3 DEF IsEntry, Entries
<1> QED BY <1>1, <1>2, <1>4

-----------------------------------------------------------------------------
(* What writes them.                                                         *)

LEMMA AnswerKeeps ==
    ASSUME BoardInv, NEW c \in Clients, NEW k \in family, NEW e, IsEntry(e, k),
           RA!Answer(c, k, e), family' = family
    PROVE  ClientsOK'
<1>1. /\ asked \in [Clients -> family \cup {None}] /\ shown = [d \in Clients |-> shown[d]]
      /\ tag = shown /\ \A d \in Clients : asked[d] # None => shown[d] \in Payloads(asked[d])
  BY DEF BoardInv, ClientsOK
<1>2. e.etag = e.body /\ e.body \in Payloads(k)
  BY DEF IsEntry
<1>3. /\ asked' = [asked EXCEPT ![c] = k]
      /\ shown' = [shown EXCEPT ![c] = IF tag[c] = e.etag THEN shown[c] ELSE e.body]
      /\ tag' = [tag EXCEPT ![c] = e.etag]
  BY DEF RA!Answer
<1>4. shown' = [shown EXCEPT ![c] = e.body] /\ tag' = [shown EXCEPT ![c] = e.body]
  BY <1>1, <1>2, <1>3
<1>5. asked' \in [Clients -> family' \cup {None}]
  BY <1>1, <1>3
<1>6. /\ shown' = [d \in Clients |-> shown'[d]] /\ shown'[c] = e.body
      /\ \A d \in Clients \ {c} : shown'[d] = shown[d]
  BY <1>1, <1>4
<1>7. asked'[c] = k /\ \A d \in Clients \ {c} : asked'[d] = asked[d]
  BY <1>1, <1>3
<1>8. \A d \in Clients : asked'[d] # None => shown'[d] \in Payloads(asked'[d])
  BY <1>1, <1>2, <1>6, <1>7
<1> QED BY <1>4, <1>5, <1>6, <1>8 DEF ClientsOK

LEMMA RowWritten ==
    ASSUME BoardInv, NEW k \in family, NEW e, IsEntry(e, k),
           row' = [row EXCEPT ![k] = e], family' = family
    PROVE  /\ RowsOK'
           /\ row'[k] = e /\ \A j \in family \ {k} : row'[j] = row[j]
           /\ \A j \in family : row[j] # None => row'[j] # None
<1>1. row = [j \in family |-> row[j]] /\ \A j \in family : row[j] = None \/ IsEntry(row[j], j)
  BY DEF BoardInv, RowsOK
<1>2. /\ row' = [j \in family' |-> row'[j]]
      /\ row'[k] = e /\ \A j \in family \ {k} : row'[j] = row[j]
  BY <1>1
<1>3. \A j \in family' : row'[j] = None \/ IsEntry(row'[j], j)
  BY <1>1, <1>2
<1> QED BY <1>2, <1>3, EntriesAreThere DEF RowsOK

\* One entry of one process is what changes.
EntryChanges(p, k, e) ==
    \A q \in Procs, j \in family : cache'[q][j] = IF q = p /\ j = k THEN e ELSE cache[q][j]

LEMMA CacheWritten ==
    ASSUME BoardInv, NEW p \in Procs, NEW k \in family, NEW e, e = None \/ IsEntry(e, k),
           cache' = [cache EXCEPT ![p][k] = e], family' = family
    PROVE  CacheOK' /\ EntryChanges(p, k, e)
<1>1. /\ cache = [q \in Procs |-> [j \in family |-> cache[q][j]]]
      /\ \A q \in Procs, j \in family : cache[q][j] = None \/ IsEntry(cache[q][j], j)
  BY DEF BoardInv, CacheOK
<1>2. cache[p] = [j \in family |-> cache[p][j]]
  BY <1>1
<1>3. cache' = [cache EXCEPT ![p] = [cache[p] EXCEPT ![k] = e]]
  OBVIOUS
<1>4. /\ DOMAIN cache' = Procs /\ cache'[p] = [cache[p] EXCEPT ![k] = e]
      /\ \A q \in Procs \ {p} : cache'[q] = cache[q]
      /\ cache' = [q \in Procs |-> cache'[q]]
  BY <1>1, <1>3
<1>5. \A q \in Procs, j \in family :
          cache'[q][j] = IF q = p /\ j = k THEN e ELSE cache[q][j]
  BY <1>2, <1>4
<1>6. \A q \in Procs : cache'[q] = [j \in family |-> cache'[q][j]]
  <2>1. \A q \in Procs : cache[q] = [j \in family |-> cache[q][j]]
    BY <1>1
  <2>2. cache'[p] = [j \in family |-> cache'[p][j]]
    BY <1>2, <1>4
  <2> QED BY <1>4, <2>1, <2>2
<1>7. cache' = [q \in Procs |-> [j \in family' |-> cache'[q][j]]]
  BY <1>4, <1>6
<1>8. \A q \in Procs, j \in family' : cache'[q][j] = None \/ IsEntry(cache'[q][j], j)
  BY <1>1, <1>5
<1> QED BY <1>5, <1>7, <1>8 DEF CacheOK, EntryChanges

LEMMA KeyDoneKeeps ==
    ASSUME BoardInv, NEW k, publisher # None, RA!KeyDone(k), family' = family
    PROVE  CycleOK' /\ (publisher' # None => publisher'.same = None)
<1>1. publisher \in Cycles
  BY DEF BoardInv, CycleOK
<1> DEFINE less == publisher.left \ {k}
<1>2. CASE publisher' = None
  BY <1>2 DEF CycleOK
<1>3. CASE publisher' = [publisher EXCEPT !.left = less, !.same = None]
  <2>1. publisher' \in Cycles /\ publisher'.same = None
    BY <1>1, <1>3 DEF Cycles
  <2>2. Cycles' = Cycles
    BY DEF Cycles
  <2> QED BY <2>1, <2>2 DEF CycleOK
<1> QED BY <1>2, <1>3 DEF RA!KeyDone

\* Only processes answer.
LEMMA ReachIs ==
    ASSUME BoardInv, NEW p,
           p \in [f \in MCFamilies |-> IF public \in f THEN Alone ELSE Procs][family]
    PROVE  p \in Procs
BY BoardShape DEF BoardInv

\* A tick: every entry a tick older, or gone.
LEMMA TickIs ==
    ASSUME BoardInv, RA!Tick
    PROVE  /\ \A k \in family : row'[k] = IF row[k] = None THEN None ELSE RA!Older(k, row[k])
           /\ \A p \in Procs, k \in family : cache'[p][k] = RA!CacheOlder(k, cache[p][k])
           /\ \A p \in Procs : request'[p] = IF request[p] = None THEN None
                                             ELSE [request[p] EXCEPT !.lag = request[p].lag + 1]
           /\ BoardInv'
<1>1. /\ family' = family /\ board' = board
      /\ asked' = asked /\ shown' = shown /\ tag' = tag
  BY DEF RA!Tick, RA!clientVars
<1>2. family \subseteq AllKeys /\ None \notin family
  BY KeysOfFamily
<1>3. /\ row' = [k \in family |-> IF row[k] = None THEN None ELSE RA!Older(k, row[k])]
      /\ cache' = [p \in Procs |-> [k \in family |-> RA!CacheOlder(k, cache[p][k])]]
      /\ request' = [p \in Procs |-> IF request[p] = None THEN None
                                     ELSE [request[p] EXCEPT !.lag = request[p].lag + 1]]
      /\ publisher' = IF publisher = None THEN None
                      ELSE [publisher EXCEPT !.lag = publisher.lag + 1]
      /\ \A p \in Procs : request[p] # None => request[p].lag < BuildTime
      /\ publisher # None => publisher.lag < PublishTime
  BY DEF RA!Tick
<1>4. RowsOK' /\ \A k \in family : row[k] # None => row'[k] # None
  <2>1. \A k \in family : row'[k] = IF row[k] = None THEN None ELSE RA!Older(k, row[k])
    BY <1>3
  <2>2. ASSUME NEW k \in family, row[k] # None PROVE IsEntry(row'[k], k)
    <3>1. IsEntry(row[k], k)
      BY <2>2 DEF BoardInv, RowsOK
    <3> QED BY <1>2, <2>1, <2>2, <3>1, OlderIs
  <2>3. row' = [k \in family' |-> row'[k]]
    BY <1>1, <1>3
  <2> QED BY <1>1, <2>1, <2>2, <2>3, EntriesAreThere DEF RowsOK
<1>5. CacheOK'
  <2>1. \A p \in Procs, k \in family : cache'[p][k] = RA!CacheOlder(k, cache[p][k])
    BY <1>3
  <2>2. \A p \in Procs, k \in family : cache'[p][k] = None \/ IsEntry(cache'[p][k], k)
    <3> SUFFICES ASSUME NEW p \in Procs, NEW k \in family, cache'[p][k] # None
                 PROVE  IsEntry(cache'[p][k], k)
      OBVIOUS
    <3>1. cache[p][k] = None \/ IsEntry(cache[p][k], k)
      BY DEF BoardInv, CacheOK
    <3>2. k \in AllKeys /\ cache'[p][k] = RA!CacheOlder(k, cache[p][k])
      BY <1>2, <2>1
    <3> QED BY <3>1, <3>2, CacheOlderIs
  <2>3. cache' = [p \in Procs |-> [k \in family' |-> cache'[p][k]]]
    <3>1. \A p \in Procs : cache'[p] = [k \in family |-> cache'[p][k]]
      BY <1>3
    <3>2. cache' = [p \in Procs |-> cache'[p]]
      BY <1>3
    <3> QED BY <1>1, <3>1, <3>2
  <2> QED BY <1>1, <2>2, <2>3 DEF CacheOK
<1>6. BuildsOK'
  <2>1. ASSUME NEW p \in Procs PROVE request'[p] = None \/ request'[p] \in Builds
    <3>1. request[p] = None \/ request[p] \in Builds
      BY DEF BoardInv, BuildsOK
    <3>2. CASE request[p] = None
      BY <1>3, <3>2
    <3>3. CASE request[p] # None
      <4>1. request'[p] = [request[p] EXCEPT !.lag = request[p].lag + 1]
        BY <1>3, <3>3
      <4>2. request[p] \in Builds /\ request[p].lag \in 0..BuildTime /\ request[p].lag < BuildTime
        BY <1>3, <3>1, <3>3 DEF Builds
      <4>3. request[p].lag + 1 \in 0..BuildTime
        BY <4>2, BoardShape
      <4> QED BY <4>1, <4>2, <4>3 DEF Builds
    <3> QED BY <3>2, <3>3
  <2>2. request' = [p \in Procs |-> request'[p]]
    BY <1>3
  <2>3. Builds' = Builds
    BY <1>1 DEF Builds
  <2> QED BY <2>1, <2>2, <2>3 DEF BuildsOK
<1>7. CycleOK'
  <2>1. CASE publisher = None
    BY <1>3, <2>1 DEF CycleOK
  <2>2. CASE publisher # None
    <3>1. publisher \in Cycles /\ (publisher.same # None => row[publisher.same] # None)
      BY <2>2 DEF BoardInv, CycleOK
    <3>2. publisher' = [publisher EXCEPT !.lag = publisher.lag + 1]
      BY <1>3, <2>2
    <3>3. publisher.lag + 1 \in 0..PublishTime
      BY <1>3, <2>2, <3>1, BoardShape DEF Cycles
    <3>4. publisher' \in Cycles /\ publisher'.same = publisher.same
      BY <3>1, <3>2, <3>3 DEF Cycles
    <3>5. publisher'.same # None => row'[publisher'.same] # None
      BY <1>4, <3>1, <3>4 DEF Cycles
    <3>6. Cycles' = Cycles
      BY <1>1 DEF Cycles
    <3> QED BY <3>4, <3>5, <3>6 DEF CycleOK
  <2> QED BY <2>1, <2>2
<1>8. ClientsOK'
  BY <1>1 DEF BoardInv, ClientsOK
<1> QED BY <1>1, <1>3, <1>4, <1>5, <1>6, <1>7, <1>8 DEF BoardInv

LEMMA FinishBuildKeeps ==
    ASSUME BoardInv, NEW p \in Procs, RA!FinishBuild(p)
    PROVE  BoardInv'
<1> DEFINE q == request[p]
           e == RA!Entry(q.key, q.board, q.lag)
           kept == IF q.lag >= Ttl THEN None ELSE [e EXCEPT !.age = q.lag]
<1>1. q # None /\ q \in Builds
  BY DEF RA!FinishBuild, BoardInv, BuildsOK
<1>2. /\ family' = family /\ board' = board /\ publisher' = publisher
      /\ cache' = [cache EXCEPT ![p][q.key] = kept]
      /\ RA!Answer(q.client, q.key, e)
      /\ row' = [row EXCEPT ![q.key] = e] \/ row' = row
      /\ request' = [request EXCEPT ![p] = None]
  BY Zenon DEF RA!FinishBuild
<1>3. /\ q.client \in Clients /\ q.key \in family /\ q.key \in AllKeys
      /\ q.board \in Boards /\ q.lag \in Nat
  BY <1>1, KeysOfFamily, BoardShape DEF Builds
<1>4. IsEntry(e, q.key)
  BY <1>3, EntryIs
<1>5. kept = None \/ IsEntry(kept, q.key)
  <2> HIDE DEF e, q
  <2> QED BY <1>3, <1>4 DEF IsEntry, Entries
<1> HIDE DEF e, q, kept
<1>6. ClientsOK'
  BY <1>2, <1>3, <1>4, AnswerKeeps
<1>7. CacheOK'
  BY <1>2, <1>3, <1>5, CacheWritten
<1>8. RowsOK' /\ \A k \in family : row[k] # None => row'[k] # None
  <2>1. CASE row' = row
    BY <1>2, <2>1 DEF BoardInv, RowsOK
  <2>2. CASE row' = [row EXCEPT ![q.key] = e]
    BY <1>2, <1>3, <1>4, <2>2, RowWritten
  <2> QED BY <1>2, <2>1, <2>2
<1>9. BuildsOK'
  <2>1. Builds' = Builds
    BY <1>2 DEF Builds
  <2> QED BY <1>2, <2>1 DEF BoardInv, BuildsOK
<1>10. CycleOK'
  <2>1. Cycles' = Cycles
    BY <1>2 DEF Cycles
  <2> QED BY <1>2, <1>8, <2>1 DEF BoardInv, CycleOK, Cycles
<1> QED BY <1>2, <1>6, <1>7, <1>8, <1>9, <1>10 DEF BoardInv

LEMMA RestartKeeps ==
    ASSUME BoardInv, NEW p \in Procs, RA!Restart(p)
    PROVE  BoardInv'
<1>1. /\ cache' = [cache EXCEPT ![p] = [k \in family |-> None]]
      /\ request' = [request EXCEPT ![p] = None]
      /\ UNCHANGED <<family, board, row, publisher, asked, shown, tag>>
  BY DEF RA!Restart, RA!clientVars
<1>2. CacheOK'
  <2>1. /\ cache = [q \in Procs |-> [k \in family |-> cache[q][k]]]
        /\ \A q \in Procs, k \in family : cache[q][k] = None \/ IsEntry(cache[q][k], k)
    BY DEF BoardInv, CacheOK
  <2>2. /\ cache'[p] = [k \in family |-> None] /\ cache' = [q \in Procs |-> cache'[q]]
        /\ \A q \in Procs \ {p} : cache'[q] = cache[q]
    BY <1>1, <2>1
  <2>3. \A q \in Procs : cache'[q] = [k \in family |-> cache'[q][k]]
    BY <2>1, <2>2
  <2>4. \A q \in Procs, k \in family : cache'[q][k] = None \/ IsEntry(cache'[q][k], k)
    BY <2>1, <2>2
  <2>5. cache' = [q \in Procs |-> [k \in family' |-> cache'[q][k]]]
    BY <1>1, <2>2, <2>3
  <2> QED BY <1>1, <2>4, <2>5 DEF CacheOK
<1>3. BuildsOK'
  <2>1. Builds' = Builds
    BY <1>1 DEF Builds
  <2> QED BY <1>1, <2>1 DEF BoardInv, BuildsOK
<1> QED BY <1>1, <1>2, <1>3 DEF BoardInv, RowsOK, CycleOK, Cycles, ClientsOK

LEMMA HitKeeps ==
    ASSUME BoardInv, NEW p \in Procs, NEW c \in Clients, NEW k \in family, RA!Hit(p, c, k)
    PROVE  BoardInv'
<1>1. IsEntry(cache[p][k], k) /\ RA!Answer(c, k, cache[p][k])
  BY DEF RA!Hit, BoardInv, CacheOK
<1>2. UNCHANGED <<family, board, row, cache, request, publisher>>
  BY DEF RA!Hit
<1>3. ClientsOK'
  BY <1>1, <1>2, AnswerKeeps
<1> QED BY <1>2, <1>3 DEF BoardInv, RowsOK, CacheOK, BuildsOK, Builds, CycleOK, Cycles

LEMMA ReadRowKeeps ==
    ASSUME BoardInv, NEW p \in Procs, NEW c \in Clients, NEW k \in family, RA!ReadRow(p, c, k)
    PROVE  BoardInv'
<1>1. IsEntry(row[k], k)
  BY DEF RA!ReadRow, RA!Trusted, BoardInv, RowsOK
<1>2. IsEntry(RA!FromRow(k), k)
  BY <1>1 DEF RA!FromRow, IsEntry, Entries
<1>3. /\ UNCHANGED <<family, board, row, request, publisher>>
      /\ cache' = [cache EXCEPT ![p][k] = RA!FromRow(k)]
      /\ RA!Answer(c, k, RA!FromRow(k))
  BY DEF RA!ReadRow
<1>4. ClientsOK'
  BY <1>2, <1>3, AnswerKeeps
<1>5. CacheOK'
  BY <1>2, <1>3, CacheWritten
<1> QED BY <1>3, <1>4, <1>5 DEF BoardInv, RowsOK, BuildsOK, Builds, CycleOK, Cycles

LEMMA StartBuildKeeps ==
    ASSUME BoardInv, NEW p \in Procs, NEW c \in Clients, NEW k \in family, RA!StartBuild(p, c, k)
    PROVE  BoardInv'
<1> DEFINE build == [client |-> c, key |-> k, board |-> board, lag |-> 0]
<1>1. /\ request' = [request EXCEPT ![p] = build]
      /\ UNCHANGED <<family, board, row, cache, publisher, asked, shown, tag>>
  BY DEF RA!StartBuild, RA!clientVars
<1>2. build \in Builds
  BY BoardShape DEF BoardInv, Builds
<1>3. BuildsOK'
  <2>1. Builds' = Builds
    BY <1>1 DEF Builds
  <2> HIDE DEF build
  <2> QED BY <1>1, <1>2, <2>1 DEF BoardInv, BuildsOK
<1> QED BY <1>1, <1>3 DEF BoardInv, RowsOK, CacheOK, CycleOK, Cycles, ClientsOK

LEMMA BuildBaseKeeps ==
    ASSUME BoardInv, RA!BuildBase
    PROVE  BoardInv'
<1>1. /\ publisher' = [left |-> family, board |-> board, lag |-> 0, same |-> None]
      /\ UNCHANGED <<family, board, row, cache, request, asked, shown, tag>>
  BY DEF RA!BuildBase, RA!clientVars
<1>2. CycleOK'
  BY <1>1, BoardShape DEF BoardInv, CycleOK, Cycles
<1> QED BY <1>1, <1>2 DEF BoardInv, RowsOK, CacheOK, BuildsOK, Builds, ClientsOK

LEMMA SkipUnchangedKeeps ==
    ASSUME BoardInv, NEW k \in family, RA!SkipUnchanged(k)
    PROVE  BoardInv'
<1>1. /\ UNCHANGED <<family, board, row, cache, request, asked, shown, tag>>
      /\ publisher # None /\ row[k] # None
      /\ publisher' = [publisher EXCEPT !.same = k] \/ RA!KeyDone(k)
  BY DEF RA!SkipUnchanged, RA!Unchanged, RA!clientVars
<1>2. CycleOK'
  <2>1. CASE RA!KeyDone(k)
    BY <1>1, <2>1, KeyDoneKeeps
  <2>2. CASE publisher' = [publisher EXCEPT !.same = k]
    <3>1. publisher' \in Cycles /\ publisher'.same = k
      BY <1>1, <2>2 DEF BoardInv, CycleOK, Cycles
    <3>2. Cycles' = Cycles
      BY <1>1 DEF Cycles
    <3> QED BY <1>1, <3>1, <3>2 DEF CycleOK
  <2> QED BY <1>1, <2>1, <2>2
<1> QED BY <1>1, <1>2 DEF BoardInv, RowsOK, CacheOK, BuildsOK, Builds, ClientsOK

\* The row a touch stamps, and with what.
LEMMA TouchIs ==
    ASSUME BoardInv, NEW k \in family, RA!Touch(k)
    PROVE  \E e : /\ row' = [row EXCEPT ![k] = e]
                  /\ IsEntry(e, k) /\ IsEntry(row[k], k)
                  /\ e.age = 0 /\ e.lag = IF RA!Unchanged(k) THEN publisher.lag ELSE row[k].lag
<1>1. /\ publisher # None /\ publisher.same = k
      /\ row' = [row EXCEPT ![k] = [row[k] EXCEPT
                    !.age = 0, !.lag = IF RA!Unchanged(k) THEN publisher.lag ELSE row[k].lag]]
  BY DEF RA!Touch
<1>2. IsEntry(row[k], k) /\ publisher \in Cycles
  BY <1>1, KeysOfFamily DEF BoardInv, CycleOK, RowsOK
<1> DEFINE lag == IF RA!Unchanged(k) THEN publisher.lag ELSE row[k].lag
           e == [row[k] EXCEPT !.age = 0, !.lag = lag]
<1>3. lag \in Nat
  BY <1>2, BoardShape DEF Cycles, IsEntry, Entries
<1>4. IsEntry(e, k) /\ e.age = 0 /\ e.lag = lag
  <2> HIDE DEF lag
  <2> QED BY <1>2, <1>3 DEF IsEntry, Entries
<1>5. row' = [row EXCEPT ![k] = e]
  BY <1>1, Zenon
<1> HIDE DEF e
<1> QED BY <1>2, <1>4, <1>5

LEMMA TouchKeeps ==
    ASSUME BoardInv, NEW k \in family, RA!Touch(k)
    PROVE  BoardInv'
<1>1. /\ publisher # None /\ RA!KeyDone(k)
      /\ UNCHANGED <<family, board, cache, request, asked, shown, tag>>
  BY DEF RA!Touch, RA!clientVars
<1>2. RowsOK'
  <2>1. PICK e : row' = [row EXCEPT ![k] = e] /\ IsEntry(e, k)
    BY TouchIs
  <2> QED BY <1>1, <2>1, RowWritten
<1>3. CycleOK'
  BY <1>1, KeyDoneKeeps
<1> QED BY <1>1, <1>2, <1>3 DEF BoardInv, CacheOK, BuildsOK, Builds, ClientsOK

LEMMA PublishKeeps ==
    ASSUME BoardInv, NEW k \in family, RA!Publish(k)
    PROVE  BoardInv'
<1>1. /\ publisher # None /\ RA!KeyDone(k)
      /\ row' = [row EXCEPT ![k] = RA!Entry(k, publisher.board, publisher.lag)]
      /\ UNCHANGED <<family, board, cache, request, asked, shown, tag>>
  BY DEF RA!Publish, RA!clientVars
<1>2. publisher.board \in Boards /\ publisher.lag \in Nat /\ k \in AllKeys
  BY <1>1, KeysOfFamily, BoardShape DEF BoardInv, CycleOK, Cycles
<1>3. IsEntry(RA!Entry(k, publisher.board, publisher.lag), k)
  BY <1>2, EntryIs
<1>4. RowsOK'
  BY <1>1, <1>3, RowWritten
<1>5. CycleOK'
  BY <1>1, KeyDoneKeeps
<1> QED BY <1>1, <1>4, <1>5 DEF BoardInv, CacheOK, BuildsOK, Builds, ClientsOK

LEMMA PublishFailsKeeps ==
    ASSUME BoardInv, NEW k \in family, RA!PublishFails(k)
    PROVE  BoardInv'
<1>1. /\ publisher # None /\ RA!KeyDone(k)
      /\ UNCHANGED <<family, board, row, cache, request, asked, shown, tag>>
  BY DEF RA!PublishFails, RA!clientVars
<1>2. CycleOK'
  BY <1>1, KeyDoneKeeps
<1> QED BY <1>1, <1>2 DEF BoardInv, RowsOK, CacheOK, BuildsOK, Builds, ClientsOK

LEMMA BoardStep == BoardInv /\ [RA!Next]_boardVars => BoardInv'
<1> SUFFICES ASSUME BoardInv, [RA!Next]_boardVars PROVE BoardInv'
  OBVIOUS
<1>1. ASSUME UNCHANGED <<family, row, cache, request, publisher, asked, shown, tag>>, board' \in Boards
      PROVE  BoardInv'
  BY <1>1 DEF BoardInv, RowsOK, CacheOK, BuildsOK, Builds, CycleOK, Cycles, ClientsOK
<1>2. CASE RA!Change
  BY <1>1, <1>2 DEF RA!Change, RA!clientVars
<1>3. CASE \E c \in Clients : RA!ToggleSession(c)
  BY <1>1, <1>3 DEF RA!ToggleSession, BoardInv
<1>4. CASE UNCHANGED boardVars
  BY <1>1, <1>4 DEF boardVars, BoardInv
<1>5. CASE \E k \in family : RA!PublishFails(k)
  BY <1>5, PublishFailsKeeps
<1>6. CASE RA!PublisherStep
  BY <1>6, BuildBaseKeeps, SkipUnchangedKeeps, TouchKeeps, PublishKeeps DEF RA!PublisherStep
<1>7. ASSUME NEW p \in Procs, RA!FinishBuild(p) \/ RA!Restart(p) PROVE BoardInv'
  BY <1>7, FinishBuildKeeps, RestartKeeps
<1>8. ASSUME NEW p \in Procs, NEW c \in Clients, NEW k \in family,
             RA!Hit(p, c, k) \/ RA!ReadRow(p, c, k) \/ RA!StartBuild(p, c, k)
      PROVE  BoardInv'
  BY <1>8, HitKeeps, ReadRowKeeps, StartBuildKeeps
<1> QED BY <1>2, <1>3, <1>4, <1>5, <1>6, <1>7, <1>8, TickIs, ReachIs DEF RA!Next

LEMMA BoardInit == RA!Init => BoardInv
<1> SUFFICES ASSUME RA!Init PROVE BoardInv
  OBVIOUS
<1>1. /\ family \in MCFamilies /\ board \in Boards
      /\ row = [k \in family |-> None]
      /\ cache = [p \in Procs |-> [k \in family |-> None]]
      /\ request = [p \in Procs |-> None] /\ publisher = None
      /\ asked = [c \in Clients |-> None]
      /\ shown = [c \in Clients |-> None] /\ tag = [c \in Clients |-> None]
  BY DEF RA!Init
<1>2. RowsOK /\ CacheOK /\ BuildsOK /\ CycleOK
  BY <1>1 DEF RowsOK, CacheOK, BuildsOK, CycleOK
<1>3. ClientsOK
  BY <1>1 DEF ClientsOK
<1> QED BY <1>1, <1>2, <1>3 DEF BoardInv

LEMMA BoardAlways == RA!Spec => []BoardInv
<1>1. BoardInv /\ [RA!Next]_RA!vars => BoardInv'
  BY BoardStep DEF RA!vars, boardVars
<1> QED BY <1>1, BoardInit, PTL DEF RA!Spec

\* Whatever is answered from, rebuilt or re-stamped, and whatever the client kept of
\* an earlier answer, it holds the shape of the key it was last answered under
\* (_cached_board_response, /get-nodes).
THEOREM AlwaysShownForAudience == RA!Spec => []ShownForAudience
<1>1. BoardInv => ShownForAudience
  <2> SUFFICES ASSUME BoardInv, NEW c \in Clients, asked[c] # None
               PROVE  shown[c].shape = RA!Payload(asked[c], board).shape
    BY DEF ShownForAudience, RA!ShownForAudience, RA!Payload
  <2> QED BY DEF BoardInv, ClientsOK, Payloads, RA!Payload
<1> QED BY <1>1, BoardAlways, PTL

-----------------------------------------------------------------------------
(* How old a regional answer can be.                                         *)

\* A row is no older than the build or the publish that wrote it, and its own age since.
RowIsYoung(k, e) == e.age <= Trust(k) + 1 /\ e.lag <= BuildTime + PublishTime + e.age

RowsAreYoung == \A k \in family \cap Ageing : row[k] # None => RowIsYoung(k, row[k])

\* A row that changed under the publisher, after it found it unchanged, was built
\* meanwhile: to stamp it again makes it no older than the two together.
TouchesAreYoung ==
    \A k \in family \cap Ageing :
        /\ publisher # None /\ publisher.same = k
        /\ row[k].etag # RA!Payload(k, publisher.board)
        => row[k].lag <= BuildTime + publisher.lag

\* A process keeps an entry for one TTL, its build included.
IsYoung(k, e) ==
    e.age <= Ttl - 1 /\ e.lag <= BuildTime + PublishTime + Trust(k) + e.age

CachesAreYoung ==
    \A p \in Procs, k \in family \cap Ageing : cache[p][k] # None => IsYoung(k, cache[p][k])

FreshInv == RowsAreYoung /\ TouchesAreYoung /\ CachesAreYoung

LEMMA TrustIs == \A k : Trust(k) \in Nat
BY BoardShape DEF Trust

LEMMA TickStaysFresh ==
    ASSUME BoardInv, FreshInv, RA!Tick
    PROVE  FreshInv'
<1>1. /\ \A k \in family : row'[k] = IF row[k] = None THEN None ELSE RA!Older(k, row[k])
      /\ \A p \in Procs, k \in family : cache'[p][k] = RA!CacheOlder(k, cache[p][k])
  BY TickIs
<1>2. /\ family' = family
      /\ publisher' = IF publisher = None THEN None
                      ELSE [publisher EXCEPT !.lag = publisher.lag + 1]
  BY DEF RA!Tick
<1>3. ASSUME NEW k \in family \cap Ageing, row[k] # None
      PROVE  /\ row[k].age \in Nat /\ row[k].lag \in Nat
             /\ row'[k].etag = row[k].etag
             /\ \/ row[k].age > Trust(k) /\ row'[k].age = row[k].age /\ row'[k].lag = row[k].lag
                \/ /\ ~(row[k].age > Trust(k))
                   /\ row'[k].age = row[k].age + 1 /\ row'[k].lag = row[k].lag + 1
  <2>1. IsEntry(row[k], k) /\ k \in AllKeys /\ row'[k] = RA!Older(k, row[k])
    BY <1>1, <1>3, KeysOfFamily DEF BoardInv, RowsOK
  <2>2. /\ IsEntry(row'[k], k) /\ row'[k].body = row[k].body
        /\ \/ row[k].age > Trust(k) /\ row'[k].age = row[k].age /\ row'[k].lag = row[k].lag
           \/ /\ ~(row[k].age > Trust(k))
              /\ row'[k].age = row[k].age + 1 /\ row'[k].lag = row[k].lag + 1
    BY <1>3, <2>1, OlderIs
  <2> QED BY <2>1, <2>2 DEF IsEntry, Entries
<1>4. RowsAreYoung'
  <2> SUFFICES ASSUME NEW k \in family \cap Ageing, row'[k] # None PROVE RowIsYoung(k, row'[k])
    BY <1>2 DEF RowsAreYoung
  <2>1. row[k] # None
    BY <1>1
  <2> QED BY <1>3, <2>1, TrustIs, BoardShape DEF FreshInv, RowsAreYoung, RowIsYoung
<1>5. TouchesAreYoung'
  <2> SUFFICES ASSUME NEW k \in family \cap Ageing, publisher' # None, publisher'.same = k,
                      row'[k].etag # RA!Payload(k, publisher'.board)
               PROVE  row'[k].lag <= BuildTime + publisher'.lag
    BY <1>2 DEF TouchesAreYoung
  <2>1. /\ publisher # None /\ publisher \in Cycles
        /\ publisher' = [publisher EXCEPT !.lag = publisher.lag + 1]
    BY <1>2 DEF BoardInv, CycleOK
  <2>2. /\ publisher.same = k /\ publisher'.board = publisher.board
        /\ publisher'.lag = publisher.lag + 1 /\ publisher.lag \in Nat
    BY <2>1, BoardShape DEF Cycles
  <2>3. row[k] # None
    BY <2>1, <2>2, KeysOfFamily DEF BoardInv, CycleOK
  <2>4. row[k].lag <= BuildTime + publisher.lag
    BY <1>3, <2>1, <2>2, <2>3 DEF FreshInv, TouchesAreYoung
  <2>5. row[k].lag \in Nat /\ (row'[k].lag = row[k].lag \/ row'[k].lag = row[k].lag + 1)
    BY <1>3, <2>3
  <2> QED BY <2>2, <2>4, <2>5, BoardShape
<1>6. CachesAreYoung'
  <2> SUFFICES ASSUME NEW p \in Procs, NEW k \in family \cap Ageing, cache'[p][k] # None
               PROVE  IsYoung(k, cache'[p][k])
    BY <1>2 DEF CachesAreYoung
  <2>1. k \in AllKeys /\ (cache[p][k] = None \/ IsEntry(cache[p][k], k))
        /\ cache'[p][k] = RA!CacheOlder(k, cache[p][k])
    BY <1>1, KeysOfFamily DEF BoardInv, CacheOK
  <2>2. /\ IsEntry(cache[p][k], k)
        /\ cache[p][k].age + 1 < Ttl /\ cache'[p][k].age = cache[p][k].age + 1
        /\ cache'[p][k].lag = cache[p][k].lag + 1
    BY <2>1, CacheOlderIs
  <2>3. cache[p][k].age \in Nat /\ cache[p][k].lag \in Nat /\ cache[p][k] # None
    BY <2>2, EntriesAreThere DEF IsEntry, Entries
  <2>4. IsYoung(k, cache[p][k])
    BY <2>3 DEF FreshInv, CachesAreYoung
  <2> QED BY <2>2, <2>3, <2>4, TrustIs, BoardShape DEF IsYoung
<1> QED BY <1>4, <1>5, <1>6 DEF FreshInv

LEMMA ReadRowStaysFresh ==
    ASSUME BoardInv, FreshInv, NEW p \in Procs, NEW c, NEW k \in family, RA!ReadRow(p, c, k)
    PROVE  FreshInv'
<1>1. /\ UNCHANGED <<family, row, publisher>>
      /\ cache' = [cache EXCEPT ![p][k] = RA!FromRow(k)]
      /\ row[k] # None /\ IsEntry(row[k], k)
      /\ k \in Ageing => row[k].age <= Trust(k)
  BY DEF RA!ReadRow, RA!Trusted, RA!Shared, Ageing, Trust, BoardInv, RowsOK
<1>2. /\ IsEntry(RA!FromRow(k), k)
      /\ RA!FromRow(k).age = 0 /\ RA!FromRow(k).lag = row[k].lag
      /\ row[k].age \in Nat /\ row[k].lag \in Nat
  BY <1>1 DEF RA!FromRow, IsEntry, Entries
<1>3. k \in Ageing => IsYoung(k, RA!FromRow(k))
  BY <1>1, <1>2, TrustIs, BoardShape DEF FreshInv, RowsAreYoung, RowIsYoung, IsYoung
<1>4. CachesAreYoung'
  <2>1. EntryChanges(p, k, RA!FromRow(k))
    BY <1>1, <1>2, CacheWritten
  <2> QED BY <1>1, <1>3, <2>1 DEF FreshInv, CachesAreYoung, EntryChanges
<1> QED BY <1>1, <1>4 DEF FreshInv, RowsAreYoung, TouchesAreYoung

LEMMA FinishBuildStaysFresh ==
    ASSUME BoardInv, FreshInv, NEW p \in Procs, RA!FinishBuild(p)
    PROVE  FreshInv'
<1> DEFINE q == request[p]
           e == RA!Entry(q.key, q.board, q.lag)
           kept == IF q.lag >= Ttl THEN None ELSE [e EXCEPT !.age = q.lag]
<1>1. q # None /\ q \in Builds
  BY DEF RA!FinishBuild, BoardInv, BuildsOK
<1>2. /\ family' = family /\ publisher' = publisher
      /\ cache' = [cache EXCEPT ![p][q.key] = kept]
      /\ row' = [row EXCEPT ![q.key] = e] \/ row' = row
  BY Zenon DEF RA!FinishBuild
<1>3. /\ q.key \in family /\ q.key \in AllKeys
      /\ q.board \in Boards /\ q.lag \in Nat /\ q.lag <= BuildTime
  BY <1>1, KeysOfFamily, BoardShape DEF Builds
<1>4. /\ IsEntry(e, q.key) /\ e.age = 0
      /\ q.key \in Ageing => e.lag = q.lag
  BY <1>3, EntryIs
<1>5. kept # None => /\ IsEntry(kept, q.key) /\ kept.age = q.lag /\ q.lag < Ttl
                     /\ q.key \in Ageing => kept.lag = q.lag
  <2> HIDE DEF e, q
  <2> QED BY <1>3, <1>4, BoardShape DEF IsEntry, Entries
<1> HIDE DEF e, q, kept
<1>6. kept # None /\ q.key \in Ageing => IsYoung(q.key, kept)
  BY <1>3, <1>5, TrustIs, BoardShape DEF IsYoung
<1>7. CachesAreYoung'
  <2>1. EntryChanges(p, q.key, kept)
    BY <1>2, <1>3, <1>5, CacheWritten
  <2> QED BY <1>2, <1>6, <2>1 DEF FreshInv, CachesAreYoung, EntryChanges
<1>8. CASE row' = row
  BY <1>2, <1>7, <1>8 DEF FreshInv, RowsAreYoung, TouchesAreYoung
<1>9. CASE row' = [row EXCEPT ![q.key] = e]
  <2>1. row'[q.key] = e /\ \A j \in family \ {q.key} : row'[j] = row[j]
    BY <1>2, <1>3, <1>4, <1>9, RowWritten
  <2>2. q.key \in Ageing => RowIsYoung(q.key, e)
    BY <1>3, <1>4, TrustIs, BoardShape DEF RowIsYoung
  <2>3. RowsAreYoung'
    BY <1>2, <2>1, <2>2 DEF FreshInv, RowsAreYoung
  <2>4. publisher # None => publisher.lag \in Nat
    BY BoardShape DEF BoardInv, CycleOK, Cycles
  <2>5. TouchesAreYoung'
    <3> SUFFICES ASSUME NEW k \in family \cap Ageing, publisher # None, publisher.same = k,
                        row'[k].etag # RA!Payload(k, publisher.board)
                 PROVE  row'[k].lag <= BuildTime + publisher.lag
      BY <1>2 DEF TouchesAreYoung
    <3>1. CASE k = q.key
      BY <1>3, <1>4, <2>1, <2>4, <3>1, BoardShape
    <3>2. CASE k # q.key
      BY <2>1, <3>2 DEF FreshInv, TouchesAreYoung
    <3> QED BY <3>1, <3>2
  <2> QED BY <1>7, <2>3, <2>5 DEF FreshInv
<1> QED BY <1>2, <1>8, <1>9

LEMMA RestartStaysFresh ==
    ASSUME BoardInv, FreshInv, NEW p \in Procs, RA!Restart(p)
    PROVE  FreshInv'
<1>1. /\ cache' = [cache EXCEPT ![p] = [k \in family |-> None]]
      /\ UNCHANGED <<family, row, publisher>>
  BY DEF RA!Restart
<1>2. \A q \in Procs, k \in family : cache'[q][k] = None \/ cache'[q][k] = cache[q][k]
  BY <1>1 DEF BoardInv, CacheOK
<1>3. CachesAreYoung'
  BY <1>1, <1>2 DEF FreshInv, CachesAreYoung
<1> QED BY <1>1, <1>3 DEF FreshInv, RowsAreYoung, TouchesAreYoung

\* The publisher gives a key up, or goes on to the next: nothing is being confirmed.
LEMMA DoneStaysFresh ==
    ASSUME BoardInv, FreshInv, NEW k, publisher # None, RA!KeyDone(k),
           UNCHANGED <<family, cache>>, RowsAreYoung'
    PROVE  FreshInv'
<1>1. publisher' # None => publisher'.same = None
  BY KeyDoneKeeps
<1>2. TouchesAreYoung'
  BY <1>1, KeysOfFamily DEF TouchesAreYoung
<1> QED BY <1>2 DEF FreshInv, CachesAreYoung

LEMMA PublisherStaysFresh ==
    ASSUME BoardInv, FreshInv, RA!PublisherStep \/ \E k \in family : RA!PublishFails(k)
    PROVE  FreshInv'
<1>1. CASE RA!BuildBase
  <2>1. /\ publisher' = [left |-> family, board |-> board, lag |-> 0, same |-> None]
        /\ UNCHANGED <<family, row, cache>>
    BY <1>1 DEF RA!BuildBase
  <2>2. TouchesAreYoung'
    BY <2>1, KeysOfFamily DEF TouchesAreYoung
  <2> QED BY <2>1, <2>2 DEF FreshInv, RowsAreYoung, CachesAreYoung
<1>2. ASSUME NEW k \in family, RA!SkipUnchanged(k) PROVE FreshInv'
  <2>1. /\ UNCHANGED <<family, row, cache>> /\ publisher # None
        /\ row[k].etag = RA!Payload(k, publisher.board)
        /\ publisher' = [publisher EXCEPT !.same = k] \/ RA!KeyDone(k)
    BY <1>2 DEF RA!SkipUnchanged, RA!Unchanged, RA!Digest
  <2>2. RowsAreYoung'
    BY <2>1 DEF FreshInv, RowsAreYoung
  <2>3. CASE RA!KeyDone(k)
    BY <2>1, <2>2, <2>3, DoneStaysFresh
  <2>4. CASE publisher' = [publisher EXCEPT !.same = k]
    <3>1. publisher'.same = k /\ publisher'.board = publisher.board
      BY <2>1, <2>4 DEF BoardInv, CycleOK, Cycles
    <3>2. TouchesAreYoung'
      BY <2>1, <3>1 DEF TouchesAreYoung
    <3> QED BY <2>1, <2>2, <3>2 DEF FreshInv, CachesAreYoung
  <2> QED BY <2>1, <2>3, <2>4
<1>3. ASSUME NEW k \in family, RA!Touch(k) PROVE FreshInv'
  <2>1. publisher # None /\ publisher.same = k /\ RA!KeyDone(k) /\ UNCHANGED <<family, cache>>
    BY <1>3 DEF RA!Touch
  <2>2. PICK e : /\ row' = [row EXCEPT ![k] = e]
                 /\ IsEntry(e, k) /\ IsEntry(row[k], k)
                 /\ e.age = 0 /\ e.lag = IF RA!Unchanged(k) THEN publisher.lag ELSE row[k].lag
    BY <1>3, TouchIs
  <2>3. row'[k] = e /\ \A j \in family \ {k} : row'[j] = row[j]
    BY <2>1, <2>2, RowWritten, ZenonT(40)
  <2>4. publisher.lag \in Nat /\ publisher.lag <= PublishTime /\ row[k].lag \in Nat
    BY <2>1, <2>2, BoardShape DEF BoardInv, CycleOK, Cycles, IsEntry, Entries
  <2>5. k \in Ageing /\ ~RA!Unchanged(k) => row[k].lag <= BuildTime + publisher.lag
    <3>1. row[k] # None
      BY <2>2, EntriesAreThere
    <3> QED BY <2>1, <3>1 DEF FreshInv, TouchesAreYoung, RA!Unchanged, RA!Digest
  <2>6. k \in Ageing => RowIsYoung(k, e)
    BY <2>2, <2>4, <2>5, TrustIs, BoardShape DEF RowIsYoung
  <2>7. RowsAreYoung'
    BY <2>1, <2>3, <2>6 DEF FreshInv, RowsAreYoung
  <2> QED BY <2>1, <2>7, DoneStaysFresh
<1>4. ASSUME NEW k \in family, RA!Publish(k) PROVE FreshInv'
  <2> DEFINE e == RA!Entry(k, publisher.board, publisher.lag)
  <2>1. publisher # None /\ RA!KeyDone(k) /\ UNCHANGED <<family, cache>>
        /\ row' = [row EXCEPT ![k] = e]
    BY <1>4 DEF RA!Publish
  <2>2. /\ publisher.board \in Boards /\ publisher.lag \in Nat /\ publisher.lag <= PublishTime
        /\ k \in AllKeys
    BY <2>1, KeysOfFamily, BoardShape DEF BoardInv, CycleOK, Cycles
  <2>3. IsEntry(e, k) /\ e.age = 0 /\ (k \in Ageing => e.lag = publisher.lag)
    BY <2>2, EntryIs
  <2> HIDE DEF e
  <2>4. row'[k] = e /\ \A j \in family \ {k} : row'[j] = row[j]
    BY <2>1, <2>3, RowWritten
  <2>5. k \in Ageing => RowIsYoung(k, e)
    BY <2>2, <2>3, TrustIs, BoardShape DEF RowIsYoung
  <2>6. RowsAreYoung'
    BY <2>1, <2>4, <2>5 DEF FreshInv, RowsAreYoung
  <2> QED BY <2>1, <2>6, DoneStaysFresh
<1>5. ASSUME NEW k \in family, RA!PublishFails(k) PROVE FreshInv'
  <2>1. publisher # None /\ RA!KeyDone(k) /\ UNCHANGED <<family, row, cache>>
    BY <1>5 DEF RA!PublishFails
  <2> QED BY <2>1, DoneStaysFresh DEF FreshInv, RowsAreYoung
<1> QED BY <1>1, <1>2, <1>3, <1>4, <1>5 DEF RA!PublisherStep

LEMMA FreshStep == BoardInv /\ FreshInv /\ [RA!Next]_boardVars => FreshInv'
<1> SUFFICES ASSUME BoardInv, FreshInv, [RA!Next]_boardVars PROVE FreshInv'
  OBVIOUS
<1>1. ASSUME UNCHANGED <<family, row, cache, publisher>> PROVE FreshInv'
  BY <1>1 DEF FreshInv, RowsAreYoung, TouchesAreYoung, CachesAreYoung
<1>2. CASE RA!Change \/ (\E c \in Clients : RA!ToggleSession(c)) \/ UNCHANGED boardVars
  BY <1>1, <1>2 DEF RA!Change, RA!ToggleSession, boardVars
<1>3. ASSUME NEW p \in Procs, RA!FinishBuild(p) \/ RA!Restart(p) PROVE FreshInv'
  BY <1>3, FinishBuildStaysFresh, RestartStaysFresh
<1>4. ASSUME NEW p \in Procs, NEW c \in Clients, NEW k \in family,
             RA!Hit(p, c, k) \/ RA!ReadRow(p, c, k) \/ RA!StartBuild(p, c, k)
      PROVE  FreshInv'
  <2>1. CASE RA!ReadRow(p, c, k)
    BY <2>1, ReadRowStaysFresh
  <2>2. CASE RA!Hit(p, c, k) \/ RA!StartBuild(p, c, k)
    BY <1>1, <2>2 DEF RA!Hit, RA!StartBuild
  <2> QED BY <1>4, <2>1, <2>2
<1> QED BY <1>2, <1>3, <1>4, PublisherStaysFresh, TickStaysFresh, ReachIs DEF RA!Next

\* However a region's row is built, published, found unchanged and stamped again by
\* whoever comes first, no process answers with more than the bound.
THEOREM RegionalAlwaysFresh == RA!Spec => []RegionalIsFresh
<1>1. RA!Init => FreshInv
  <2> SUFFICES ASSUME RA!Init PROVE FreshInv
    OBVIOUS
  <2>1. /\ \A k \in family : row[k] = None
        /\ \A p \in Procs, k \in family : cache[p][k] = None
        /\ publisher = None
    BY DEF RA!Init
  <2> QED BY <2>1 DEF FreshInv, RowsAreYoung, TouchesAreYoung, CachesAreYoung
<1>2. BoardInv /\ FreshInv /\ [RA!Next]_RA!vars => FreshInv'
  BY FreshStep DEF RA!vars, boardVars
<1>3. BoardInv /\ FreshInv => RegionalIsFresh
  <2> SUFFICES ASSUME BoardInv, FreshInv, NEW p \in Procs, NEW k \in Ageing \cap family,
                      cache[p][k] # None
               PROVE  cache[p][k].lag <= BuildTime + PublishTime + Trust(k) + Ttl - 1
    BY DEF RegionalIsFresh, RA!RegionalIsFresh, RA!Shared, Ageing, Trust
  <2>1. cache[p][k].age \in Nat /\ cache[p][k].lag \in Nat
    BY DEF BoardInv, CacheOK, IsEntry, Entries
  <2>2. IsYoung(k, cache[p][k])
    BY DEF FreshInv, CachesAreYoung
  <2> QED BY <2>1, <2>2, TrustIs, BoardShape DEF IsYoung
<1> QED BY <1>1, <1>2, <1>3, BoardAlways, PTL DEF RA!Spec

=============================================================================
