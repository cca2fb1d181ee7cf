---------------------------- MODULE CreditsProofs ---------------------------
(* What the ping pipeline and the check-in poller pay, for any players,      *)
(* pings, nets, messages and retentions.                                     *)
(*                                                                           *)
(* A payment is safe while the row that guards it is on file, or when it is  *)
(* old enough for the row to have been pruned.  A rollback restores what a   *)
(* batch found, so the tables it saved are held to the same, and no row is   *)
(* pruned while a batch is open.                                             *)
(*                                                                           *)
(* The check-ins (instance Net of CheckIn) go the same way: a message that   *)
(* was awarded has a seen row for as long as a poll can still find it in the *)
(* buffer.                                                                   *)
EXTENDS MCCredits, FiniteSetTheorems, WellFoundedInduction, TLAPS

Seens == [player : Players, cell : Cells, ts : Times, at : Times]
TagRows == [tag : Tags, player : Players, at : Times]
Payments == [player : Players, cell : Cells, ts : Times, tag : Tags \cup {None},
             first : Times \cup {None}, at : Times, when : Times,
             credited : SUBSET Ids]
Bindings == [Radios -> [owner : Players \cup {None}, since : Times]]

\* The tables as the batches leave them: nodes n, tags t, history s, payments p.
TablesAre(n, t, s, p) ==
    /\ n \in Bindings
    /\ t \subseteq TagRows
    /\ s \subseteq Seens
    /\ p \subseteq Payments

PingType ==
    /\ now \in Times
    /\ TablesAre(node, tag, seen, paid)
    /\ tx # None =>
          /\ tx.player \in Players /\ tx.received \in Times
          /\ tx = [player |-> tx.player, received |-> tx.received, left |-> tx.left,
                   saved |-> tx.saved]
          /\ TablesAre(tx.saved.node, tx.saved.tag, tx.saved.seen, tx.saved.paid)

\* The rows that guard payment a: its history row and its tag's row.
OnHistory(a, s) == [player |-> a.player, cell |-> a.cell, ts |-> a.ts, at |-> a.at] \in s
OnFile(a, t) == [tag |-> a.tag, player |-> a.player, at |-> a.first] \in t

\* Each payment's guards are there, or were old enough to go.
Guarded(t, s, p) ==
    \A a \in p :
        /\ now > a.at + Retention \/ OnHistory(a, s)
        /\ a.tag # None =>
              a.first \in Times /\ (now > a.first + TagRetention \/ OnFile(a, t))

\* The two properties, of any set of payments.
Once(p) ==
    \A a, b \in p : SamePing(a, b) /\ a # b =>
        \/ a.when > b.at + Retention
        \/ b.when > a.at + Retention

OnePlayer(p) ==
    \A a, b \in p : a.tag # None /\ a.tag = b.tag /\ a.player # b.player =>
        \/ a.when > b.first + TagRetention
        \/ b.when > a.first + TagRetention

Sound(t, s, p) == Guarded(t, s, p) /\ Once(p) /\ OnePlayer(p)

PaymentsSound ==
    /\ Sound(tag, seen, paid)
    /\ tx # None => Sound(tx.saved.tag, tx.saved.seen, tx.saved.paid)

PingInv == PingType /\ PaymentsSound

-----------------------------------------------------------------------------
(* Lemmas on the gates.                                                      *)

LEMMA NumbersAreNat ==
    /\ Retention \in Nat /\ TagRetention \in Nat
    /\ NodeTtl \in Nat /\ DirectoryTtl \in Nat /\ Horizon \in Nat
BY PingNumbers

\* INSERT OR IGNORE keeps what is there, and a tag that is nobody else's is then
\* on file for this player.
LEMMA TagGetsOnFile ==
    ASSUME NEW t \in Tags \cup {None}, NEW p \in Players, NEW r \in Times,
           tag \subseteq TagRows
    PROVE  /\ TagRecorded(t, p, r) \subseteq TagRows
           /\ tag \subseteq TagRecorded(t, p, r)
           /\ t # None /\ ~TagConflict(t, p) =>
                LET f == FirstSeen(t, TagRecorded(t, p, r)) IN
                f \in Times /\ [tag |-> t, player |-> p, at |-> f] \in TagRecorded(t, p, r)
<1>1. /\ TagRecorded(t, p, r) \subseteq TagRows
      /\ tag \subseteq TagRecorded(t, p, r)
  BY DEF TagRecorded, TagRows
<1>2. ASSUME t # None, ~TagConflict(t, p)
      PROVE  LET f == FirstSeen(t, TagRecorded(t, p, r)) IN
             f \in Times /\ [tag |-> t, player |-> p, at |-> f] \in TagRecorded(t, p, r)
  <2>1. \E x \in TagRecorded(t, p, r) : x.tag = t
    <3>1. CASE \E x \in tag : x.tag = t
      BY <1>1, <3>1
    <3>2. CASE ~\E x \in tag : x.tag = t
      <4>1. [tag |-> t, player |-> p, at |-> r] \in TagRecorded(t, p, r)
        BY <1>2, <3>2 DEF TagRecorded
      <4> QED
        BY <4>1
    <3> QED
      BY <3>1, <3>2
  <2> DEFINE row == CHOOSE x \in TagRecorded(t, p, r) : x.tag = t
  <2>2. row \in TagRecorded(t, p, r) /\ row.tag = t
    BY <2>1
  <2>3. row.player = p
    BY <1>2, <2>2 DEF TagRecorded, TagConflict
  <2>4. row = [tag |-> t, player |-> p, at |-> row.at] /\ row.at \in Times
    BY <1>1, <2>2, <2>3 DEF TagRows
  <2> QED
    BY <1>2, <2>2, <2>4 DEF FirstSeen
<1> QED
  BY <1>1, <1>2

\* More rows guard no worse.
LEMMA GuardedByMore ==
    ASSUME NEW t, NEW s, NEW t2, NEW s2, NEW p, t \subseteq t2, s \subseteq s2,
           Sound(t, s, p)
    PROVE  Sound(t2, s2, p)
BY DEF Sound, Guarded, OnHistory, OnFile

\* A payment that is on history and on file, when no row was there before for the
\* same ping and none for another player's tag.
LEMMA PaymentSound ==
    ASSUME PingInv, NEW a \in Payments, NEW t, NEW s, tag \subseteq t, seen \subseteq s,
           a.when = now, OnHistory(a, s),
           a.tag # None => a.first \in Times /\ OnFile(a, t),
           ~Duplicate(a.player, a.cell, a.ts),
           ~TagConflict(a.tag, a.player)
    PROVE  Sound(t, s, paid \cup {a})
<1> USE NumbersAreNat
<1>1. Guarded(tag, seen, paid) /\ Once(paid) /\ OnePlayer(paid)
  BY DEF PingInv, PaymentsSound, Sound
<1>2. Guarded(t, s, paid \cup {a})
  BY <1>1 DEF Guarded, OnHistory, OnFile
<1>3. ASSUME NEW b \in paid, SamePing(a, b) PROVE a.when > b.at + Retention
  BY <1>1, <1>3 DEF Guarded, OnHistory, SamePing, Duplicate
<1>4. ASSUME NEW b \in paid, a.tag # None, a.tag = b.tag, a.player # b.player
      PROVE  a.when > b.first + TagRetention
  BY <1>1, <1>4 DEF Guarded, OnFile, TagConflict
<1>5. Once(paid \cup {a})
  BY <1>1, <1>3 DEF Once, SamePing
<1>6. OnePlayer(paid \cup {a})
  BY <1>1, <1>4 DEF OnePlayer
<1> QED
  BY <1>2, <1>5, <1>6 DEF Sound
-----------------------------------------------------------------------------
(* Each step keeps the invariant.                                            *)

LEMMA InitPing == Init => PingInv
<1> SUFFICES ASSUME Init PROVE PingInv
  OBVIOUS
<1>1. PingType
  BY NumbersAreNat DEF Init, PingType, TablesAre, Bindings, Unbound, Times
<1>2. PaymentsSound
  BY DEF Init, PaymentsSound, Sound, Guarded, Once, OnePlayer
<1> QED
  BY <1>1, <1>2 DEF PingInv

\* A ping leaves the open batch what it is, and the tables it found.
LEMMA NextPingKeeps ==
    ASSUME PingInv, NEW m, NextPing(m)
    PROVE  /\ now' = now /\ now \in Times
           /\ tx # None /\ tx.player \in Players /\ tx.received \in Times
           /\ tx'.player = tx.player /\ tx'.received = tx.received /\ tx'.saved = tx.saved
           /\ tx' = [player |-> tx'.player, received |-> tx'.received, left |-> tx'.left,
                     saved |-> tx'.saved]
           /\ TablesAre(tx.saved.node, tx.saved.tag, tx.saved.seen, tx.saved.paid)
           /\ Sound(tx.saved.tag, tx.saved.seen, tx.saved.paid)
<1>1. /\ now \in Times /\ tx # None
      /\ tx.player \in Players /\ tx.received \in Times
      /\ tx = [player |-> tx.player, received |-> tx.received, left |-> tx.left,
               saved |-> tx.saved]
      /\ TablesAre(tx.saved.node, tx.saved.tag, tx.saved.seen, tx.saved.paid)
      /\ Sound(tx.saved.tag, tx.saved.seen, tx.saved.paid)
  BY DEF NextPing, PingInv, PingType, PaymentsSound
<1>2. /\ now' = now
      /\ tx' = [player |-> tx.player, received |-> tx.received, left |-> tx.left - 1,
                saved |-> tx.saved]
  BY <1>1 DEF NextPing
<1> QED
  BY <1>1, <1>2

\* Whatever a ping's step does, it is enough to look at the tables it leaves.
LEMMA PingKeeps ==
    ASSUME PingInv, NEW m, NextPing(m),
           TablesAre(node, tag, seen, paid)', Sound(tag', seen', paid')
    PROVE  PingInv'
<1>1. /\ now' = now /\ now \in Times
      /\ tx'.player \in Players /\ tx'.received \in Times
      /\ tx' = [player |-> tx'.player, received |-> tx'.received, left |-> tx'.left,
                saved |-> tx'.saved]
      /\ TablesAre(tx'.saved.node, tx'.saved.tag, tx'.saved.seen, tx'.saved.paid)
      /\ Sound(tx.saved.tag, tx.saved.seen, tx.saved.paid)
      /\ tx'.saved = tx.saved
  BY NextPingKeeps
<1>2. PingType'
  BY <1>1 DEF PingType
<1>3. PaymentsSound'
  BY <1>1 DEF PaymentsSound, Sound, Guarded
<1> QED
  BY <1>2, <1>3 DEF PingInv

LEMMA BindingKeeps ==
    ASSUME node \in Bindings, now \in Times, NEW p \in Players, NEW r \in Radios
    PROVE  BoundNode(r, p) \in Bindings
BY DEF Bindings, BoundNode

LEMMA PingIsShaped ==
    ASSUME NEW m \in Pings
    PROVE  /\ m.radio \in Radios /\ m.cell \in Cells /\ m.ts \in Times
           /\ m.tag \in Tags \cup {None} /\ m.heard \subseteq Ids
BY PingsAreShaped DEF PingShapes

\* A rejected ping pays nothing and takes no row away.
LEMMA RejectKeeps ==
    ASSUME PingInv, NEW m \in Pings, RejectTag(m) \/ RejectDuplicate(m)
    PROVE  PingInv'
<1>1. /\ NextPing(m) /\ node' = BoundNode(m.radio, tx.player)
      /\ seen' = seen /\ paid' = paid
      /\ tag' = tag \/ tag' = TagRecorded(m.tag, tx.player, tx.received)
  BY DEF RejectTag, RejectDuplicate, BindOnly
<1>2. /\ tx.player \in Players /\ tx.received \in Times /\ now \in Times
      /\ TablesAre(node, tag, seen, paid) /\ Sound(tag, seen, paid)
  BY <1>1, NextPingKeeps DEF PingInv, PingType, PaymentsSound
<1>3. node' \in Bindings
  BY <1>1, <1>2, PingIsShaped, BindingKeeps DEF TablesAre
<1>4. tag' \subseteq TagRows /\ tag \subseteq tag'
  BY <1>1, <1>2, PingIsShaped, TagGetsOnFile DEF TablesAre
<1>5. TablesAre(node, tag, seen, paid)' /\ Sound(tag', seen', paid')
  BY <1>1, <1>2, <1>3, <1>4, GuardedByMore DEF TablesAre
<1> QED
  BY <1>1, <1>5, PingKeeps

\* What is recorded of an accepted ping.
LEMMA RecordKeeps ==
    ASSUME PingInv, NEW m \in Pings, Record(m)
    PROVE  /\ node' \in Bindings /\ tag' \subseteq TagRows /\ seen' \subseteq Seens
           /\ tag \subseteq tag' /\ seen \subseteq seen'
           /\ [player |-> tx.player, cell |-> m.cell, ts |-> m.ts, at |-> tx.received] \in seen'
           /\ m.tag # None =>
                /\ FirstSeen(m.tag, tag') \in Times
                /\ [tag |-> m.tag, player |-> tx.player, at |-> FirstSeen(m.tag, tag')] \in tag'
           /\ KeptRepeaters(m.heard, cache', known') \subseteq Ids
<1>1. /\ tx.player \in Players /\ tx.received \in Times /\ now \in Times
      /\ TablesAre(node, tag, seen, paid)
  BY NextPingKeeps DEF Record, PingInv, PingType
<1>2. /\ m.radio \in Radios /\ m.cell \in Cells /\ m.ts \in Times
      /\ m.tag \in Tags \cup {None} /\ m.heard \subseteq Ids
  BY PingIsShaped
<1>3. node' \in Bindings
  BY <1>1, <1>2, BindingKeeps DEF Record, TablesAre
<1>4. /\ tag' \subseteq TagRows /\ tag \subseteq tag'
      /\ m.tag # None =>
                /\ FirstSeen(m.tag, tag') \in Times
                /\ [tag |-> m.tag, player |-> tx.player, at |-> FirstSeen(m.tag, tag')] \in tag'
  BY <1>1, <1>2, TagGetsOnFile DEF Record, TablesAre
<1>5. /\ seen' \subseteq Seens /\ seen \subseteq seen'
      /\ [player |-> tx.player, cell |-> m.cell, ts |-> m.ts, at |-> tx.received] \in seen'
  BY <1>1, <1>2 DEF Record, TablesAre, Seens
<1>6. KeptRepeaters(m.heard, cache', known') \subseteq Ids
  BY <1>2 DEF KeptRepeaters
<1> QED
  BY <1>3, <1>4, <1>5, <1>6

LEMMA UnpaidKeeps ==
    ASSUME PingInv, NEW m \in Pings, Record(m), paid' = paid
    PROVE  PingInv'
<1>1. /\ NextPing(m) /\ TablesAre(node, tag, seen, paid) /\ Sound(tag, seen, paid)
  BY DEF Record, PingInv, PingType, PaymentsSound
<1>2. TablesAre(node, tag, seen, paid)' /\ Sound(tag', seen', paid')
  BY <1>1, RecordKeeps, GuardedByMore DEF TablesAre
<1> QED
  BY <1>1, <1>2, PingKeeps

\* A payment: its rows are now on file, and there were none against it.
LEMMA ScoredKeeps ==
    ASSUME PingInv, NEW m \in Pings, AcceptScored(m)
    PROVE  PingInv'
<1> DEFINE first == FirstSeen(m.tag, tag')
           kept == KeptRepeaters(m.heard, cache', known')
           a == [player |-> tx.player, cell |-> m.cell, ts |-> m.ts, tag |-> m.tag,
                 first |-> first, at |-> tx.received, when |-> now, credited |-> kept]
<1>1. Record(m) /\ (paid' = paid \cup {a} \/ paid' = paid)
  BY DEF AcceptScored
<1>2. CASE paid' = paid
  BY <1>1, <1>2, UnpaidKeeps
<1>3. CASE paid' = paid \cup {a}
  <2>1. /\ NextPing(m) /\ tx.player \in Players /\ tx.received \in Times /\ now \in Times
        /\ TablesAre(node, tag, seen, paid)
    BY <1>1, NextPingKeeps DEF Record, PingInv, PingType
  <2>2. first \in Times \cup {None}
    BY <1>1, RecordKeeps, PingIsShaped DEF FirstSeen
  <2>3. kept \subseteq Ids
    BY <1>1, RecordKeeps
  <2>4. a \in Payments
    BY <2>1, <2>2, <2>3, PingIsShaped DEF Payments
  <2>5. ~Duplicate(a.player, a.cell, a.ts) /\ ~TagConflict(a.tag, a.player)
    BY <1>1 DEF Record
  <2>6. OnHistory(a, seen') /\ (a.tag # None => a.first \in Times /\ OnFile(a, tag'))
    BY <1>1, RecordKeeps DEF OnHistory, OnFile
  <2>7. a.when = now
    OBVIOUS
  <2> HIDE DEF a
  <2>8. Sound(tag', seen', paid \cup {a})
    BY <1>1, <2>4, <2>5, <2>6, <2>7, RecordKeeps, PaymentSound
  <2>9. TablesAre(node, tag, seen, paid)'
    BY <1>1, <1>3, <2>1, <2>4, RecordKeeps DEF TablesAre
  <2> QED
    BY <1>3, <2>1, <2>8, <2>9, PingKeeps
<1> QED
  BY <1>1, <1>2, <1>3

\* Between batches: no tables are saved, and what was pruned was old enough.
LEMMA BetweenKeeps ==
    ASSUME PingInv,
           \/ Tick \/ Housekeep
           \/ \E r \in Radios, p \in Players : AddNode(r, p) \/ RemoveNode(r, p)
           \/ \E i \in Ambiguous : Advertise(i)
    PROVE  PingInv'
<1>1. now \in Times /\ TablesAre(node, tag, seen, paid) /\ Sound(tag, seen, paid)
  BY DEF PingInv, PingType, PaymentsSound
<1>2. CASE Tick
  <2>1. now' \in Times /\ now' = now + 1 /\ tx' = None /\ UNCHANGED <<node, tag, seen, paid>>
    BY <1>1, <1>2, NumbersAreNat DEF Tick, tables, Times
  <2>2. Sound(tag, seen, paid)'
    BY <1>1, <2>1, NumbersAreNat DEF Sound, Guarded, TablesAre, Payments, Times
  <2> QED
    BY <1>1, <2>1, <2>2 DEF PingInv, PingType, PaymentsSound
<1>3. CASE Housekeep
  <2>1. /\ UNCHANGED <<now, node, paid, tx>> /\ tx = None
        /\ seen' = {row \in seen : row.at >= now - Retention}
        /\ tag' = {row \in tag : row.at >= now - TagRetention}
    BY <1>3 DEF Housekeep
  <2>2. TablesAre(node, tag, seen, paid)'
    BY <1>1, <2>1 DEF TablesAre
  <2>3. ASSUME NEW a \in paid
        PROVE  /\ now > a.at + Retention \/ OnHistory(a, seen')
               /\ a.tag # None =>
                     a.first \in Times /\ (now > a.first + TagRetention \/ OnFile(a, tag'))
    <3>1. a.at \in Int /\ now \in Int
      BY <1>1 DEF TablesAre, Payments, Times
    <3>2. now > a.at + Retention \/ OnHistory(a, seen')
      BY <1>1, <2>1, <3>1, NumbersAreNat DEF Sound, Guarded, OnHistory
    <3>3. ASSUME a.tag # None
          PROVE  a.first \in Times /\ (now > a.first + TagRetention \/ OnFile(a, tag'))
      <4>1. a.first \in Times /\ (now > a.first + TagRetention \/ OnFile(a, tag))
        BY <1>1, <3>3 DEF Sound, Guarded
      <4> QED
        BY <2>1, <3>1, <4>1, NumbersAreNat DEF OnFile, Times
    <3> QED
      BY <3>2, <3>3
  <2>4. Sound(tag', seen', paid')
    BY <1>1, <2>1, <2>3 DEF Sound, Guarded
  <2> QED
    BY <1>1, <2>1, <2>2, <2>4 DEF PingInv, PingType, PaymentsSound, Sound, Guarded
<1>4. ASSUME NEW r \in Radios, NEW p \in Players, AddNode(r, p) \/ RemoveNode(r, p)
      PROVE  PingInv'
  <2>1. node' \in Bindings
    <3>1. node \in Bindings
      BY <1>1 DEF TablesAre
    <3>2. Unbound \in [owner : Players \cup {None}, since : Times]
      BY NumbersAreNat DEF Unbound, Times
    <3>3. node' = BoundNode(r, p) \/ node' = [node EXCEPT ![r] = Unbound]
      BY <1>4 DEF AddNode, RemoveNode
    <3>4. BoundNode(r, p) \in Bindings
      BY <1>1, <3>1, BindingKeeps
    <3>5. [node EXCEPT ![r] = Unbound] \in Bindings
      BY <3>1, <3>2 DEF Bindings
    <3> QED
      BY <3>3, <3>4, <3>5
  <2>2. UNCHANGED <<now, tag, seen, paid, tx>> /\ tx = None
    BY <1>4 DEF AddNode, RemoveNode
  <2> QED
    BY <1>1, <2>1, <2>2 DEF PingInv, PingType, PaymentsSound, TablesAre, Sound, Guarded
<1>5. ASSUME NEW i \in Ambiguous, Advertise(i) PROVE PingInv'
  <2>1. UNCHANGED <<now, node, tag, seen, paid, tx>> /\ tx = None
    BY <1>5 DEF Advertise, tables
  <2> QED
    BY <1>1, <2>1 DEF PingInv, PingType, PaymentsSound, TablesAre, Sound, Guarded
<1> QED
  BY <1>2, <1>3, <1>4, <1>5

\* A batch saves the tables it found, and leaves them or goes back to them.
LEMMA BatchKeeps ==
    ASSUME PingInv,
           Commit \/ RollBack \/ \E p \in Players, t \in Times : BeginBatch(p, t)
    PROVE  PingInv'
<1>1. now \in Times /\ TablesAre(node, tag, seen, paid) /\ Sound(tag, seen, paid)
  BY DEF PingInv, PingType, PaymentsSound
<1>2. CASE Commit
  <2>1. UNCHANGED <<now, node, tag, seen, paid>> /\ tx' = None
    BY <1>2 DEF Commit, tables
  <2> QED
    BY <1>1, <2>1 DEF PingInv, PingType, PaymentsSound, Sound, Guarded
<1>3. CASE RollBack
  <2>1. /\ now' = now /\ tx' = None
        /\ node' = tx.saved.node /\ tag' = tx.saved.tag /\ seen' = tx.saved.seen
        /\ paid' = tx.saved.paid
    BY <1>3 DEF RollBack
  <2>2. /\ TablesAre(tx.saved.node, tx.saved.tag, tx.saved.seen, tx.saved.paid)
        /\ Sound(tx.saved.tag, tx.saved.seen, tx.saved.paid)
    BY <1>3 DEF RollBack, PingInv, PingType, PaymentsSound
  <2> QED
    BY <1>1, <2>1, <2>2 DEF PingInv, PingType, PaymentsSound, Sound, Guarded
<1>4. ASSUME NEW p \in Players, NEW t \in Times, BeginBatch(p, t) PROVE PingInv'
  <2>1. /\ UNCHANGED <<now, node, tag, seen, paid>>
        /\ tx' = [player |-> p, received |-> t, left |-> BatchSize, saved |-> Tables]
    BY <1>4 DEF BeginBatch, tables
  <2>2. /\ Tables.node = node /\ Tables.tag = tag /\ Tables.seen = seen
        /\ Tables.paid = paid
    BY DEF Tables
  <2>3. PingType'
    BY <1>1, <2>1, <2>2 DEF PingType
  <2>4. PaymentsSound'
    BY <1>1, <2>1, <2>2 DEF PaymentsSound, Sound, Guarded
  <2> QED
    BY <2>3, <2>4 DEF PingInv
<1> QED
  BY <1>2, <1>3, <1>4

LEMMA PingStep == PingInv /\ [Next]_vars => PingInv'
<1> SUFFICES ASSUME PingInv, [Next]_vars PROVE PingInv'
  OBVIOUS
<1>1. CASE UNCHANGED vars
  BY <1>1 DEF vars, tables, PingInv, PingType, TablesAre, PaymentsSound, Sound, Guarded
<1>2. ASSUME NEW m \in Pings, AcceptUnscored(m) \/ AcceptCapped(m) PROVE PingInv'
  BY <1>2, UnpaidKeeps DEF AcceptUnscored, AcceptCapped
<1>3. ASSUME NEW m \in Pings, RejectTag(m) \/ RejectDuplicate(m) \/ AcceptScored(m) PROVE PingInv'
  BY <1>3, RejectKeeps, ScoredKeeps
<1>4. CASE Commit \/ RollBack \/ \E p \in Players, t \in Times : BeginBatch(p, t)
  BY <1>4, BatchKeeps
<1>5. CASE \/ Tick \/ Housekeep
           \/ \E r \in Radios, p \in Players : AddNode(r, p) \/ RemoveNode(r, p)
           \/ \E i \in Ambiguous : Advertise(i)
  BY <1>5, BetweenKeeps
<1> QED
  BY <1>1, <1>2, <1>3, <1>4, <1>5 DEF Next

\* The tables keep their types, in an open batch and in what it saved.
THEOREM PingTypeCorrect == Spec => []PingType
<1>1. PingInv => PingType
  BY DEF PingInv
<1> QED
  BY <1>1, InitPing, PingStep, PTL DEF Spec

\* No ping is paid twice while its history is kept, however late, often and out of
\* order its batches come, rolled back or not.
THEOREM PaidOnceAlways == Spec => []PaidOnceWhileKept
<1>1. PingInv => PaidOnceWhileKept
  BY DEF PingInv, PaymentsSound, Sound, Once, PaidOnceWhileKept
<1> QED
  BY <1>1, InitPing, PingStep, PTL DEF Spec

\* No tag pays two players before it is TagRetention old.
THEOREM TagPaysOneAlways == Spec => []TagPaysOnePlayer
<1>1. PingInv => TagPaysOnePlayer
  BY DEF PingInv, PaymentsSound, Sound, OnePlayer, TagPaysOnePlayer
<1> QED
  BY <1>1, InitPing, PingStep, PTL DEF Spec
-----------------------------------------------------------------------------
(* Radios, and the lists of radios and repeaters that the worker keeps.      *)

\* A binding that the list misses was made after the list was read: the registry n.
Misses(c, n) ==
    \A r \in Radios : n[r].owner # None => r \in c.radios \/ n[r].since >= c.at

DirectoryType == directory \in [Ambiguous -> [on : BOOLEAN, gone : Times \cup {None}]]

\* Listed, or gone at t or later.
ListedAt(d, t) == d.on \/ (d.gone # None /\ d.gone >= t)

\* What the cached directory lists and the table does not has gone since it was read.
KnownIsListed ==
    known # None =>
        /\ known.at \in Times /\ known.at <= now
        /\ known.ids \subseteq Ambiguous
        /\ \A i \in known.ids : ListedAt(directory[i], known.at)

\* An open batch only adds to the bindings and payments it found, so the list it may
\* have read is no worse for them.
ListInv ==
    /\ cache # None => cache.at \in Times /\ cache.at <= now /\ Misses(cache, node)
    /\ DirectoryType /\ KnownIsListed
    /\ tx # None =>
          /\ tx.saved.paid \subseteq paid
          /\ \A r \in Radios :
                tx.saved.node[r].owner # None => node[r] = tx.saved.node[r]

\* A list that survives the binding of a ping, or is read after it, misses nothing
\* older.
LEMMA ListAfter ==
    ASSUME PingInv, ListInv, NEW n \in Bindings, NEW heard,
           cache' = CacheAfter(heard, n), now' = now
    PROVE  cache' # None =>
             cache'.at \in Times /\ cache'.at <= now /\ Misses(cache', n)
<1>1. now \in Times
  BY DEF PingInv, PingType
<1>2. CASE cache' = [at |-> now, radios |-> {r \in Radios : n[r].owner # None}]
  BY <1>1, <1>2 DEF Misses, Times
<1>3. CASE cache' = cache /\ n = node
  BY <1>3 DEF ListInv
<1>4. CASE cache' = None
  BY <1>4
<1> QED
  BY <1>2, <1>3, <1>4 DEF CacheAfter

\* A directory that was kept, or is read now, lists what it should.
LEMMA KnownAfterKeeps ==
    ASSUME PingInv, ListInv, NEW heard, NEW list, now' = now, directory' = directory,
           known' = known \/ known' \in KnownAfter(heard, list)
    PROVE  KnownIsListed'
<1>1. now \in Times
  BY DEF PingInv, PingType
<1>2. CASE known' = known
  BY <1>2 DEF ListInv, KnownIsListed
<1>3. ASSUME NEW read \in {Listed, {}}, known' = [at |-> now, ids |-> read] PROVE KnownIsListed'
  <2>1. known'.at = now /\ known'.ids = read
    BY <1>3
  <2>2. read \subseteq Ambiguous /\ \A i \in read : directory[i].on
    BY DEF Listed
  <2> QED
    BY <1>1, <2>1, <2>2 DEF KnownIsListed, ListedAt, Times
<1> QED
  BY <1>2, <1>3 DEF KnownAfter

LEMMA PingKeepsList ==
    ASSUME PingInv, ListInv, NEW m \in Pings, NextPing(m), NEW heard,
           node' = BoundNode(m.radio, tx.player), cache' = CacheAfter(heard, node'),
           known' = known \/ known' \in KnownAfter(heard, cache'),
           paid \subseteq paid'
    PROVE  ListInv'
<1>1. /\ now' = now /\ tx # None /\ tx'.saved = tx.saved /\ tx.player \in Players
      /\ now \in Times /\ node \in Bindings
  BY NextPingKeeps DEF PingInv, PingType, TablesAre
<1>2. node' \in Bindings
  BY <1>1, BindingKeeps, PingIsShaped
<1>3. \A r \in Radios : node[r].owner # None => node'[r] = node[r]
  BY <1>1 DEF BoundNode, Bindings
<1>4. cache' # None => cache'.at \in Times /\ cache'.at <= now /\ Misses(cache', node')
  BY <1>1, <1>2, ListAfter
<1>5. directory' = directory
  BY DEF NextPing, listing
<1>6. DirectoryType' /\ KnownIsListed'
  BY <1>1, <1>5, KnownAfterKeeps DEF ListInv, DirectoryType
<1> QED
  BY <1>1, <1>3, <1>4, <1>6 DEF ListInv, Misses

\* A repeater that goes now is not older than the list that still has it.
LEMMA AdvertKeepsList ==
    ASSUME PingInv, ListInv, NEW i \in Ambiguous, Advertise(i)
    PROVE  ListInv'
<1>1. /\ UNCHANGED <<now, node, paid, cache, known, tx>> /\ now \in Times
      /\ directory' = [directory EXCEPT ![i] =
                          [on |-> ~@.on, gone |-> IF @.on THEN now ELSE @.gone]]
  BY DEF Advertise, tables, caches, PingInv, PingType
<1>2. DirectoryType
  BY DEF ListInv
<1>3. DirectoryType'
  BY <1>1, <1>2 DEF DirectoryType
<1>4. ASSUME known # None, NEW k \in known.ids PROVE ListedAt(directory'[k], known.at)
  <2>1. k \in Ambiguous /\ known.at \in Times /\ known.at <= now /\ ListedAt(directory[k], known.at)
    BY <1>4 DEF ListInv, KnownIsListed
  <2>2. CASE k # i \/ ~directory[i].on
    <3>1. directory'[k].gone = directory[k].gone /\ (directory[k].on => directory'[k].on)
      BY <1>1, <1>2, <2>1, <2>2 DEF DirectoryType
    <3> QED
      BY <2>1, <3>1 DEF ListedAt
  <2>3. CASE k = i /\ directory[i].on
    <3>1. directory'[k].gone = now /\ now # None
      BY <1>1, <1>2, <2>3, PingSets DEF DirectoryType, Times
    <3> QED
      BY <1>1, <2>1, <3>1 DEF ListedAt, Times
  <2> QED
    BY <2>2, <2>3
<1>5. KnownIsListed'
  BY <1>1, <1>4 DEF ListInv, KnownIsListed
<1> QED
  BY <1>1, <1>3, <1>5 DEF ListInv, Misses

LEMMA ListStep == PingInv /\ ListInv /\ [Next]_vars => ListInv'
<1> SUFFICES ASSUME PingInv, ListInv, [Next]_vars PROVE ListInv'
  OBVIOUS
<1> USE DEF tables, caches, listing, ListInv, DirectoryType, KnownIsListed, Misses
<1>t. now \in Times /\ node \in Bindings
  BY DEF PingInv, PingType, TablesAre
<1>1. CASE UNCHANGED vars
  BY <1>1 DEF vars
<1>2. CASE Tick
  BY <1>2, <1>t, NumbersAreNat DEF Tick, Times
<1>3. ASSUME NEW p \in Players, NEW t \in Times, BeginBatch(p, t) PROVE ListInv'
  BY <1>3 DEF BeginBatch, Tables
<1>4. ASSUME NEW m \in Pings,
             RejectTag(m) \/ RejectDuplicate(m) \/ AcceptUnscored(m) \/ AcceptCapped(m)
               \/ AcceptScored(m)
      PROVE  ListInv'
  BY <1>4, PingKeepsList
     DEF RejectTag, RejectDuplicate, BindOnly, AcceptUnscored, AcceptCapped, AcceptScored,
         Record
<1>5. CASE Commit
  BY <1>5 DEF Commit
<1>6. CASE RollBack
  BY <1>6 DEF RollBack
<1>7. CASE Housekeep
  BY <1>7 DEF Housekeep
<1>8. ASSUME NEW r \in Radios, NEW p \in Players, AddNode(r, p) \/ RemoveNode(r, p)
      PROVE  ListInv'
  <2>1. UNCHANGED <<now, cache, known, directory, tx>> /\ tx = None
    BY <1>8 DEF AddNode, RemoveNode
  <2>2. ASSUME NEW s \in Radios, node'[s].owner # None
        PROVE  node'[s] = node[s] \/ node'[s].since = now
    BY <1>8, <1>t, <2>2 DEF AddNode, RemoveNode, BoundNode, Bindings, Unbound
  <2>3. cache # None => Misses(cache, node')
    BY <1>t, <2>2 DEF Times
  <2> QED
    BY <2>1, <2>3
<1> HIDE DEF tables, caches, listing, ListInv, DirectoryType, KnownIsListed, Misses
<1>9. ASSUME NEW i \in Ambiguous, Advertise(i) PROVE ListInv'
  BY <1>9, AdvertKeepsList
<1> QED
  BY <1>1, <1>2, <1>3, <1>4, <1>5, <1>6, <1>7, <1>8, <1>9 DEF Next

\* An id that is credited and names a radio is not known for one by the list the batch
\* went by, which is less than NodeTtl old, or it is in the directory the batch went
\* by, which is less than DirectoryTtl old.
LEMMA CreditIsFresh ==
    ASSUME PingInv, ListInv, NEW m \in Pings, Record(m),
           NEW i \in KeptRepeaters(m.heard, cache', known'), NEW r \in Radios,
           <<i, r>> \in Names
    PROVE  node[r].owner = None \/ now - node[r].since < NodeTtl \/ ListedLately(i)
<1>1. /\ now' = now /\ now \in Times /\ node \in Bindings /\ tx.player \in Players
      /\ m.radio \in Radios
  BY NextPingKeeps, PingIsShaped DEF Record, PingInv, PingType, TablesAre
<1>2. m.heard # {} /\ i \in m.heard
  BY DEF KeptRepeaters
<1>3. /\ node' \in Bindings /\ cache' = CacheAfter(m.heard, node')
      /\ node[r].owner # None => node'[r] = node[r]
  BY <1>1, BindingKeeps DEF Record, BoundNode, Bindings
<1>4. CASE r \notin cache'.radios
  <2>1. CASE cache' = [at |-> now, radios |-> {s \in Radios : node'[s].owner # None}]
    BY <1>3, <1>4, <2>1
  <2>2. CASE Fresh(cache) /\ cache' = cache /\ node' = node
    BY <1>1, <1>4, <2>2, NumbersAreNat DEF Fresh, ListInv, Misses, Bindings, Times
  <2> QED
    BY <1>2, <1>3, <2>1, <2>2 DEF CacheAfter, Fresh
<1>5. CASE r \in cache'.radios
  <2>1. NamesRadio(i, cache')
    BY <1>5 DEF NamesRadio
  <2>2. i \in known'.ids /\ known' \in KnownAfter(m.heard, cache')
    BY <2>1 DEF KeptRepeaters, Record
  <2>3. CASE known' = known /\ known # None /\ now - known.at < DirectoryTtl
    <3>1. i \in Ambiguous /\ known.at \in Times /\ ListedAt(directory[i], known.at)
      BY <2>2, <2>3 DEF ListInv, KnownIsListed
    <3>2. directory[i].gone \in Times \cup {None}
      BY <3>1 DEF ListInv, DirectoryType
    <3> QED
      BY <1>1, <2>3, <3>1, <3>2, NumbersAreNat DEF ListedLately, ListedAt, Times
  <2>4. CASE \E read \in {Listed, {}} : known' = [at |-> now, ids |-> read]
    BY <2>2, <2>4 DEF Listed, ListedLately
  <2> QED
    BY <1>2, <2>1, <2>2, <2>3, <2>4 DEF KnownAfter
<1> QED
  BY <1>4, <1>5

\* Once a radio has been registered for NodeTtl, in whichever process, nobody is
\* credited for an id that names it, but for one that a repeater of the directory
\* answered to within DirectoryTtl: for any radios and ids, any ids that two of them
\* share, and either cache at any age (drop_player_node_repeaters).
THEOREM RadiosNeverCredited == Spec => RadiosAreNotCredited
<1>1. Init => ListInv
  BY DEF Init, ListInv, DirectoryType, KnownIsListed
<1>2. ASSUME PingInv, ListInv, [Next]_vars,
             NEW a \in paid' \ paid, NEW i \in a.credited, NEW r \in Radios, <<i, r>> \in Names
      PROVE  node[r].owner = None \/ now - node[r].since < NodeTtl \/ ListedLately(i)
  <2>1. PICK m \in Pings : AcceptScored(m)
    <3>1. ~RollBack
      BY <1>2 DEF RollBack, ListInv
    <3> QED
      BY <1>2, <3>1
         DEF Next, vars, tables, Tick, BeginBatch, RejectTag, RejectDuplicate,
             AcceptUnscored, AcceptCapped, Commit, Housekeep, AddNode, RemoveNode, Advertise
  <2>2. Record(m) /\ i \in KeptRepeaters(m.heard, cache', known')
    BY <1>2, <2>1 DEF AcceptScored
  <2> QED
    BY <1>2, <2>2, CreditIsFresh
<1>3. PingInv /\ ListInv /\ [Next]_vars =>
        [\A a \in paid' \ paid : \A i \in a.credited, r \in Radios :
            <<i, r>> \in Names => \/ node[r].owner = None
                                 \/ now - node[r].since < NodeTtl
                                 \/ ListedLately(i)]_vars
  BY <1>2
<1> QED
  BY <1>1, <1>3, InitPing, PingStep, ListStep, PTL DEF Spec, RadiosAreNotCredited

-----------------------------------------------------------------------------
(* Check-ins: what a transaction leaves in the two tables.                   *)

Messages == [node : Nodes, conn : Net!Connectors, day : Int, nets : SUBSET Nets]

\* The dates that a streak of this award could count.
Past(aw, a) ==
    {b.date : b \in {c \in aw : c.player = a.player /\ c.net = a.net /\ c.date < a.date}}

StreakIn(aw, a) == a.streak - 1 <= Cardinality(Past(aw, a))

AwardRow(a) == a.date \in Int /\ a.streak \in Int /\ a.msg \in 0..Len(sent)

AwardsAre(aw) ==
    /\ IsFiniteSet(aw)
    /\ \A a \in aw : AwardRow(a) /\ StreakIn(aw, a)

LEMMA PastGrows ==
    ASSUME NEW aw, NEW more, IsFiniteSet(more), aw \subseteq more, NEW a
    PROVE  /\ IsFiniteSet(Past(more, a)) /\ Past(aw, a) \subseteq Past(more, a)
           /\ Cardinality(Past(aw, a)) <= Cardinality(Past(more, a))
           /\ Cardinality(Past(aw, a)) \in Nat /\ Cardinality(Past(more, a)) \in Nat
<1> DEFINE S == {c \in more : c.player = a.player /\ c.net = a.net /\ c.date < a.date}
<1>1. IsFiniteSet(S)
  BY FS_Subset
<1>2. IsFiniteSet({b.date : b \in S})
  <2> DEFINE f == [b \in S |-> b.date]
  <2>1. f \in Surjection(S, {b.date : b \in S})
    BY DEF Surjection
  <2> HIDE DEF f, S
  <2> QED BY <1>1, <2>1, FS_Surjection
<1>3. Past(more, a) = {b.date : b \in S}
  BY DEF Past
<1>4. Past(aw, a) \subseteq Past(more, a)
  BY DEF Past
<1>5. IsFiniteSet(Past(more, a))
  BY <1>2, <1>3
<1> QED BY <1>4, <1>5, FS_Subset, FS_CardinalityType

LEMMA StreakGrows ==
    ASSUME NEW aw, NEW more, IsFiniteSet(more), aw \subseteq more, NEW a, a.streak \in Int,
           StreakIn(aw, a)
    PROVE  StreakIn(more, a)
BY PastGrows DEF StreakIn

\* A streak counts days of the past that were attended.
LEMMA StreakIs ==
    ASSUME NEW aw, IsFiniteSet(aw), NEW p, NEW n, NEW d \in Int, \A a \in aw : a.date \in Int,
           NEW a, a.player = p, a.net = n, a.date = d
    PROVE  Net!Streak(aw, p, n, d) \in Nat /\ Net!Streak(aw, p, n, d) - 1 <= Cardinality(Past(aw, a))
<1> DEFINE past == Net!Occurrences(aw, n, d)
           kept == Net!Attended(aw, p, n, d)
           run == {x \in past : \A e \in past : e >= x => e \in kept}
<1>1. kept \subseteq Past(aw, a)
  BY DEF Net!Attended, Net!Occurrences, Past
<1>2. run \subseteq kept
  <2>1. ASSUME NEW x \in run PROVE x \in kept
    <3>1. x \in past /\ x \in Int
      BY DEF Net!Occurrences
    <3>2. x >= x
      BY <3>1
    <3> QED BY <3>1, <3>2
  <2> QED BY <2>1
<1>3. IsFiniteSet(Past(aw, a))
  BY PastGrows
<1> HIDE DEF kept, run
<1>4. Cardinality(run) \in Nat /\ Cardinality(Past(aw, a)) \in Nat
      /\ Cardinality(run) <= Cardinality(Past(aw, a))
  BY <1>1, <1>2, <1>3, FS_Subset, FS_CardinalityType
<1>5. Net!Streak(aw, p, n, d) = 1 + Cardinality(run)
  BY DEF Net!Streak, run, kept, Net!Cardinality, Cardinality
<1> QED BY <1>4, <1>5

\* One more award.
LEMMA InsertKeeps ==
    ASSUME NEW aw, AwardsAre(aw), NEW a, AwardRow(a), StreakIn(aw, a)
    PROVE  AwardsAre(Net!Insert(aw, a)) /\ aw \subseteq Net!Insert(aw, a)
           /\ Net!Insert(aw, a) \subseteq aw \cup {a}
<1>1. CASE Net!Insert(aw, a) = aw
  BY <1>1
<1>2. CASE Net!Insert(aw, a) = aw \cup {a}
  <2>1. IsFiniteSet(aw \cup {a})
    BY FS_AddElement DEF AwardsAre
  <2>2. \A b \in aw \cup {a} : AwardRow(b) /\ StreakIn(aw, b)
    BY DEF AwardsAre
  <2>3. \A b \in aw \cup {a} : StreakIn(aw \cup {a}, b)
    BY <2>1, <2>2, StreakGrows DEF AwardRow
  <2> QED BY <1>2, <2>1, <2>2, <2>3 DEF AwardsAre
<1> QED BY <1>1, <1>2 DEF Net!Insert

LEMMA AwardKeeps ==
    ASSUME NEW aw, AwardsAre(aw), NEW s, NEW p, NEW n, NEW d \in Int, NEW m \in 0..Len(sent)
    PROVE  LET more == Net!Award(aw, s, p, n, d, m) IN
           /\ AwardsAre(more) /\ aw \subseteq more
           /\ \A b \in more \ aw : b.season = s /\ b.msg = m
<1>1. PICK a : a = [season |-> s, player |-> p, date |-> d, net |-> n,
                    streak |-> Net!Streak(aw, p, n, d), msg |-> m]
  OBVIOUS
<1>2. a.player = p /\ a.net = n /\ a.date = d /\ a.season = s /\ a.msg = m
      /\ a.streak = Net!Streak(aw, p, n, d)
  BY <1>1
<1>3. IsFiniteSet(aw) /\ \A b \in aw : b.date \in Int
  BY DEF AwardsAre, AwardRow
<1>4. a.streak \in Nat /\ StreakIn(aw, a)
  BY <1>2, <1>3, StreakIs DEF StreakIn
<1>5. AwardRow(a)
  BY <1>2, <1>4 DEF AwardRow
<1>6. Net!Award(aw, s, p, n, d, m) = Net!Insert(aw, a)
  BY <1>1 DEF Net!Award
<1> QED BY <1>2, <1>4, <1>5, <1>6, InsertKeeps

-----------------------------------------------------------------------------
(* Check-ins: a transaction, message by message and net by net.              *)

\* A statement about 0..n that fails somewhere fails first somewhere.
LEMMA FirstFailure ==
    ASSUME NEW n \in Nat, NEW S, 0 \in S, \A i \in 1..n : i - 1 \in S => i \in S
    PROVE  \A i \in 0..n : i \in S
<1> DEFINE out == {i \in 0..n : i \notin S}
<1> SUFFICES ASSUME out # {} PROVE FALSE
  OBVIOUS
<1>1. PICK m \in out : \A x \in out : <<x, m>> \notin OpToRel(<, Nat)
  <2>1. out \subseteq Nat
    OBVIOUS
  <2> HIDE DEF out
  <2> QED BY <2>1, WFMin, NatLessThanWellFounded
<1>2. m \in 1..n /\ m - 1 \in 0..n
  OBVIOUS
<1>3. m - 1 \in out
  BY <1>2
<1>4. m - 1 < m /\ m - 1 \in Nat /\ m \in Nat
  BY <1>2
<1>5. <<m - 1, m>> \in OpToRel(<, Nat)
  BY <1>4, Zenon DEF OpToRel
<1> QED BY <1>1, <1>3, <1>5

NetStep(f, n, aw, p, dated, i) ==
    IF n = 0 THEN aw
    ELSE IF n \in dated
         THEN Net!Award(f[n - 1], poll.season, p, n, Net!NetDate(n, sent[i].day), i)
    ELSE f[n - 1]
NetSteps(f, top, aw, p, dated, i) == f = [n \in 0..top |-> NetStep(f, n, aw, p, dated, i)]

\* The function there is over the first nets.
LEMMA NetsExist ==
    ASSUME NEW top \in Nat, NEW aw, NEW p, NEW dated, NEW i
    PROVE  \E f : NetSteps(f, top, aw, p, dated, i)
<1> DEFINE S == {k \in 0..top : \E f : f = [n \in 0..k |-> NetStep(f, n, aw, p, dated, i)]}
<1>1. 0 \in S
  <2>1. PICK f : f = [n \in 0..0 |-> aw]
    OBVIOUS
  <2>2. \A n \in 0..0 : NetStep(f, n, aw, p, dated, i) = aw
    BY DEF NetStep
  <2>3. f = [n \in 0..0 |-> NetStep(f, n, aw, p, dated, i)]
    BY <2>1, <2>2
  <2> QED BY <2>3
<1>2. ASSUME NEW k \in 1..top, k - 1 \in S PROVE k \in S
  <2>1. PICK f : f = [n \in 0..k - 1 |-> NetStep(f, n, aw, p, dated, i)]
    BY <1>2
  <2>2. PICK g : g = [n \in 0..k |-> IF n < k THEN f[n] ELSE NetStep(f, k, aw, p, dated, i)]
    OBVIOUS
  <2>3. \A n \in 0..k - 1 : g[n] = f[n]
    BY <2>2
  <2>4. ASSUME NEW n \in 0..k PROVE g[n] = NetStep(g, n, aw, p, dated, i)
    <3>1. n # 0 => g[n - 1] = f[n - 1]
      BY <2>3
    <3>2. NetStep(g, n, aw, p, dated, i) = NetStep(f, n, aw, p, dated, i)
      BY <3>1 DEF NetStep
    <3>3. CASE n = k
      BY <2>2, <3>2, <3>3
    <3>4. CASE n # k
      <4>1. n \in 0..k - 1 /\ g[n] = f[n]
        BY <2>3, <3>4
      <4>2. f[n] = NetStep(f, n, aw, p, dated, i)
        BY <2>1, <4>1
      <4> QED BY <3>2, <4>1, <4>2
    <3> QED BY <3>3, <3>4
  <2>5. g = [n \in 0..k |-> NetStep(g, n, aw, p, dated, i)]
    BY <2>2, <2>4
  <2> QED BY <2>5
<1> HIDE DEF S
<1>3. \A k \in 0..top : k \in S
  BY <1>1, <1>2, FirstFailure
<1>4. \E f : f = [n \in 0..top |-> NetStep(f, n, aw, p, dated, i)]
  BY <1>3 DEF S
<1> QED BY <1>4 DEF NetSteps

LEMMA CreditedKeeps ==
    ASSUME Net!CheckInConstants, NEW aw, AwardsAre(aw), NEW p, NEW i \in 1..Len(sent),
           NEW dated, \A n \in dated : Net!NetDate(n, sent[i].day) \in Int
    PROVE  LET more == Net!Credited(aw, p, dated, i) IN
           /\ AwardsAre(more) /\ aw \subseteq more
           /\ \A b \in more \ aw : b.season = poll.season /\ b.msg = i
<1>1. PICK top : top = Net!Cardinality(Nets)
  OBVIOUS
<1>2. top \in Nat
  <2>1. IsFiniteSet(Nets)
    BY DEF Net!CheckInConstants, Net!NetsAreNumbered, Net!IsFiniteSet, IsFiniteSet
  <2> QED BY <1>1, <2>1, FS_CardinalityType DEF Net!Cardinality, Cardinality
<1>3. PICK f : /\ Net!Credited(aw, p, dated, i) = f[top]
               /\ f = [n \in 0..top |-> NetStep(f, n, aw, p, dated, i)]
  <2> DEFINE g == CHOOSE f : f = [n \in 0..top |-> NetStep(f, n, aw, p, dated, i)]
  <2>1. g = [n \in 0..top |-> NetStep(g, n, aw, p, dated, i)]
    <3>1. \E h : NetSteps(h, top, aw, p, dated, i)
      BY <1>2, NetsExist
    <3> QED BY <3>1 DEF NetSteps
  <2>2. Net!Credited(aw, p, dated, i) = g[top]
    BY <1>1 DEF Net!Credited, NetStep
  <2> HIDE DEF g
  <2> QED BY <2>1, <2>2
<1> DEFINE S == {k \in 0..top : /\ AwardsAre(f[k]) /\ aw \subseteq f[k]
                                /\ \A b \in f[k] \ aw : b.season = poll.season /\ b.msg = i}
<1>4. 0 \in S
  <2>1. f[0] = aw
    BY <1>2, <1>3 DEF NetStep
  <2> QED BY <1>2, <2>1
<1>5. ASSUME NEW k \in 1..top, k - 1 \in S PROVE k \in S
  <2>1. f[k] = NetStep(f, k, aw, p, dated, i)
    BY <1>2, <1>3
  <2>2. CASE k \in dated
    <3>1. f[k] = Net!Award(f[k - 1], poll.season, p, k, Net!NetDate(k, sent[i].day), i)
      BY <2>1, <2>2 DEF NetStep
    <3>2. /\ AwardsAre(f[k]) /\ f[k - 1] \subseteq f[k]
          /\ \A b \in f[k] \ f[k - 1] : b.season = poll.season /\ b.msg = i
      BY <1>5, <2>2, <3>1, AwardKeeps
    <3> QED BY <1>5, <3>2
  <2>3. CASE k \notin dated
    BY <1>5, <2>1, <2>3 DEF NetStep
  <2> QED BY <2>2, <2>3
<1>6. top \in S
  <2> HIDE DEF S
  <2>1. \A k \in 0..top : k \in S
    BY <1>2, <1>4, <1>5, FirstFailure
  <2> QED BY <1>2, <2>1
<1> QED BY <1>3, <1>6

\* A message that may yet be handed to a transaction.
Pending(m) ==
    \/ \E b \in buffer : b.msg = m
    \/ poll # None /\ poll.hand # None /\ m \in poll.hand.msgs

Buffered(m) == m # 0 /\ sent[m].conn \in Brokers

PaidAreSeen(aw, rows) ==
    \A a \in aw : Buffered(a.msg) /\ Pending(a.msg) => \E r \in rows : r.msg = a.msg
OneSeasonEach(aw) ==
    \A a, b \in aw : a.msg = b.msg /\ Buffered(a.msg) => a.season = b.season

CheckInType ==
    /\ now \in Int /\ sent \in Seq(Messages) /\ AwardsAre(awards)
    /\ \A r \in settled : r.msg \in 1..Len(sent) /\ r.at \in Int
    /\ \A b \in buffer : /\ b.msg \in 1..Len(sent) /\ b.at \in Int
                         /\ b.at <= now /\ b.at >= now - BufferKept - 1
    /\ poll # None =>
         /\ poll = [at |-> poll.at, season |-> poll.season, known |-> poll.known,
                    left |-> poll.left, hand |-> poll.hand]
         /\ poll.at \in Int /\ poll.at <= now /\ poll.at >= now - 1
         /\ poll.hand # None => poll.hand.msgs \subseteq 1..Len(sent)
    /\ form # None => AwardRow(form) /\ form.msg = 0 /\ StreakIn(awards, form)

\* A message's seen row is a day older than its buffer row at most.
SeenFollows == \A r \in settled, b \in buffer : r.msg = b.msg => r.at >= b.at - 1

CheckInInv == CheckInType /\ PaidAreSeen(awards, settled) /\ OneSeasonEach(awards) /\ SeenFollows

\* What a transaction keeps, message by message.
Open == poll # None /\ poll.hand # None
SettleKeeps(st) ==
    /\ AwardsAre(st.awards) /\ awards \subseteq st.awards
    /\ settled \subseteq st.seen
    /\ \A r \in st.seen \ settled : r.at = poll.at /\ r.msg \in 1..Len(sent)
    /\ PaidAreSeen(st.awards, st.seen) /\ OneSeasonEach(st.awards)

LEMMA ProcessKeeps ==
    ASSUME Net!CheckInConstants, CheckInInv, Open, NEW i \in poll.hand.msgs,
           NEW st, SettleKeeps(st)
    PROVE  SettleKeeps(Net!ProcessMessage(st, i))
<1> DEFINE m == sent[i]
           p == Net!Sender(m.conn, m.node)
           dated == {net \in m.nets : Net!NetDate(net, m.day) # None}
           row == [msg |-> i, at |-> poll.at, player |-> p]
           done == Net!ProcessMessage(st, i)
<1>1. i \in 1..Len(sent) /\ m \in Messages /\ m.day \in Int
  <2>1. i \in 1..Len(sent) /\ sent \in Seq(Messages)
    BY DEF CheckInInv, CheckInType, Open
  <2>2. m \in Messages
    BY <2>1
  <2> QED BY <2>1, <2>2 DEF Messages
<1>2. \A n \in dated : Net!NetDate(n, m.day) \in Int
  BY <1>1 DEF Net!NetDate
<1>3. CASE \E r \in st.seen : r.msg = i
  BY <1>3 DEF Net!ProcessMessage
<1>4. CASE ~\E r \in st.seen : r.msg = i
  <2> DEFINE more == Net!Credited(st.awards, p, dated, i)
             keeps == Net!Settles(dated, p)
  <2>1. done = [awards |-> IF p = None THEN st.awards ELSE more,
                seen |-> IF keeps THEN st.seen \cup {row} ELSE st.seen]
    BY <1>4 DEF Net!ProcessMessage
  <2>2. AwardsAre(more) /\ st.awards \subseteq more
        /\ \A b \in more \ st.awards : b.season = poll.season /\ b.msg = i
    <3> HIDE DEF p, dated
    <3>1. \A n \in dated : Net!NetDate(n, sent[i].day) \in Int
      BY <1>2
    <3>2. AwardsAre(st.awards)
      BY DEF SettleKeeps
    <3>3. Net!CheckInConstants
      OBVIOUS
    <3> HIDE DEF m, row, done, keeps
    <3>4. i \in 1..Len(sent)
      BY <1>1
    <3> QED BY ONLY <3>1, <3>2, <3>3, <3>4, CreditedKeeps
  <2>3. p # None => keeps
    BY DEF Net!Settles
  <2>4. row.msg = i /\ row.at = poll.at
    OBVIOUS
  <2>5. Pending(i)
    BY DEF Pending, Open
  <2>6. Buffered(i) => \A a \in st.awards : a.msg # i
    BY <1>4, <2>5 DEF SettleKeeps, PaidAreSeen
  <2> HIDE DEF more, keeps, row, p, dated
  <2>7. done.awards = (IF p = None THEN st.awards ELSE more)
        /\ done.seen = (IF keeps THEN st.seen \cup {row} ELSE st.seen)
    BY <2>1
  <2> HIDE DEF done
  <2>8. AwardsAre(done.awards) /\ awards \subseteq done.awards /\ settled \subseteq done.seen
    BY <2>2, <2>7 DEF SettleKeeps
  <2>9. \A r \in done.seen \ settled : r.at = poll.at /\ r.msg \in 1..Len(sent)
    BY <1>1, <2>4, <2>7 DEF SettleKeeps
  <2>10. PaidAreSeen(done.awards, done.seen)
    BY <2>2, <2>3, <2>4, <2>7 DEF SettleKeeps, PaidAreSeen
  <2>11. OneSeasonEach(done.awards)
    <3>1. CASE p = None
      BY <2>7, <3>1 DEF SettleKeeps
    <3>2. CASE p # None
      <4>1. \A a \in more : a \in st.awards \/ (a.season = poll.season /\ a.msg = i)
        BY <2>2
      <4>2. OneSeasonEach(st.awards)
        BY DEF SettleKeeps
      <4>3. OneSeasonEach(more)
        BY <2>6, <4>1, <4>2 DEF OneSeasonEach
      <4> QED BY <2>7, <3>2, <4>3
    <3> QED BY <3>1, <3>2
  <2> QED BY <2>8, <2>9, <2>10, <2>11 DEF SettleKeeps, done
<1> QED BY <1>3, <1>4

MessageStep(f, i) ==
    IF i = 0 THEN [awards |-> awards, seen |-> settled]
    ELSE IF i \in poll.hand.msgs THEN Net!ProcessMessage(f[i - 1], i)
    ELSE f[i - 1]
MessageSteps(f, top) == f = [i \in 0..top |-> MessageStep(f, i)]

\* The function there is over the first messages.
LEMMA MessagesExist ==
    ASSUME NEW top \in Nat
    PROVE  \E f : MessageSteps(f, top)
<1> DEFINE S == {k \in 0..top : \E f : f = [i \in 0..k |-> MessageStep(f, i)]}
<1>1. 0 \in S
  <2>1. PICK f : f = [i \in 0..0 |-> [awards |-> awards, seen |-> settled]]
    OBVIOUS
  <2>2. \A i \in 0..0 : MessageStep(f, i) = [awards |-> awards, seen |-> settled]
    BY DEF MessageStep
  <2>3. f = [i \in 0..0 |-> MessageStep(f, i)]
    BY <2>1, <2>2
  <2> QED BY <2>3
<1>2. ASSUME NEW k \in 1..top, k - 1 \in S PROVE k \in S
  <2>1. PICK f : f = [i \in 0..k - 1 |-> MessageStep(f, i)]
    BY <1>2
  <2>2. PICK g : g = [i \in 0..k |-> IF i < k THEN f[i] ELSE MessageStep(f, k)]
    OBVIOUS
  <2>3. \A i \in 0..k - 1 : g[i] = f[i]
    BY <2>2
  <2>4. ASSUME NEW i \in 0..k PROVE g[i] = MessageStep(g, i)
    <3>1. i # 0 => g[i - 1] = f[i - 1]
      BY <2>3
    <3>2. MessageStep(g, i) = MessageStep(f, i)
      BY <3>1 DEF MessageStep
    <3>3. CASE i = k
      BY <2>2, <3>2, <3>3
    <3>4. CASE i # k
      <4>1. i \in 0..k - 1 /\ g[i] = f[i]
        BY <2>3, <3>4
      <4>2. f[i] = MessageStep(f, i)
        BY <2>1, <4>1
      <4> QED BY <3>2, <4>1, <4>2
    <3> QED BY <3>3, <3>4
  <2>5. g = [i \in 0..k |-> MessageStep(g, i)]
    BY <2>2, <2>4
  <2> QED BY <2>5
<1> HIDE DEF S
<1>3. \A k \in 0..top : k \in S
  BY <1>1, <1>2, FirstFailure
<1>4. \E f : f = [i \in 0..top |-> MessageStep(f, i)]
  BY <1>3 DEF S
<1> QED BY <1>4 DEF MessageSteps

LEMMA SettledKeeps ==
    ASSUME Net!CheckInConstants, CheckInInv, Open
    PROVE  SettleKeeps(Net!Settled)
<1>1. PICK top : top = Len(sent)
  OBVIOUS
<1>2. top \in Nat
  BY <1>1 DEF CheckInInv, CheckInType
<1>3. PICK f : Net!Settled = f[top] /\ f = [i \in 0..top |-> MessageStep(f, i)]
  <2> DEFINE g == CHOOSE f : f = [i \in 0..top |-> MessageStep(f, i)]
  <2>1. g = [i \in 0..top |-> MessageStep(g, i)]
    <3>1. \E h : MessageSteps(h, top)
      BY <1>2, MessagesExist
    <3> QED BY <3>1 DEF MessageSteps
  <2>2. Net!Settled = g[top]
    BY <1>1 DEF Net!Settled, MessageStep
  <2> HIDE DEF g
  <2> QED BY <2>1, <2>2
<1> DEFINE S == {k \in 0..top : SettleKeeps(f[k])}
<1>4. 0 \in S
  <2>1. f[0] = [awards |-> awards, seen |-> settled]
    BY <1>2, <1>3 DEF MessageStep
  <2>2. f[0].awards = awards /\ f[0].seen = settled
    BY <2>1
  <2> QED BY <1>2, <2>2 DEF SettleKeeps, CheckInInv, CheckInType
<1>5. ASSUME NEW k \in 1..top, k - 1 \in S PROVE k \in S
  <2>1. f[k] = MessageStep(f, k)
    BY <1>2, <1>3
  <2>2. CASE k \in poll.hand.msgs
    BY <1>5, <2>1, <2>2, ProcessKeeps DEF MessageStep
  <2>3. CASE k \notin poll.hand.msgs
    BY <1>5, <2>1, <2>3 DEF MessageStep
  <2> QED BY <2>2, <2>3
<1>6. top \in S
  <2> HIDE DEF S
  <2>1. \A k \in 0..top : k \in S
    BY <1>2, <1>4, <1>5, FirstFailure
  <2> QED BY <1>2, <2>1
<1> QED BY <1>3, <1>6

-----------------------------------------------------------------------------
(* Check-ins: every step.                                                    *)

\* Steps that pay nothing, post nothing and hand out nothing new.
LEMMA QuietKeeps ==
    ASSUME CheckInInv, UNCHANGED <<now, sent, awards, settled>>, buffer' \subseteq buffer,
           poll' = None
             \/ /\ poll' = [at |-> poll'.at, season |-> poll'.season, known |-> poll'.known,
                            left |-> poll'.left, hand |-> poll'.hand]
                /\ poll'.at \in Int /\ poll'.at <= now /\ poll'.at >= now - 1
                /\ poll'.hand = None \/ poll' = poll,
           form' = None \/ form' = form
             \/ (AwardRow(form') /\ form'.msg = 0 /\ StreakIn(awards, form'))
    PROVE  CheckInInv'
<1>1. \A m : Pending(m)' => Pending(m)
  BY DEF Pending
<1>2. PaidAreSeen(awards, settled)'
  BY <1>1 DEF CheckInInv, PaidAreSeen, Buffered
<1>3. OneSeasonEach(awards)' /\ SeenFollows'
  BY DEF CheckInInv, OneSeasonEach, Buffered, SeenFollows
<1>4. AwardsAre(awards)'
  BY DEF CheckInInv, CheckInType, AwardsAre, AwardRow, StreakIn, Past
<1>5. form' # None => AwardRow(form)' /\ form'.msg = 0 /\ StreakIn(awards, form)'
  BY DEF CheckInInv, CheckInType, AwardRow, StreakIn, Past
<1>6. /\ \A r \in settled' : r.msg \in 1..Len(sent') /\ r.at \in Int
      /\ \A b \in buffer' : /\ b.msg \in 1..Len(sent') /\ b.at \in Int
                            /\ b.at <= now' /\ b.at >= now' - BufferKept - 1
      /\ now' \in Int /\ sent' \in Seq(Messages)
  BY DEF CheckInInv, CheckInType
<1>7. poll' # None =>
        /\ poll' = [at |-> poll'.at, season |-> poll'.season, known |-> poll'.known,
                    left |-> poll'.left, hand |-> poll'.hand]
        /\ poll'.at \in Int /\ poll'.at <= now' /\ poll'.at >= now' - 1
        /\ poll'.hand # None => poll'.hand.msgs \subseteq 1..Len(sent')
  BY DEF CheckInInv, CheckInType
<1>8. CheckInType'
  BY <1>4, <1>5, <1>6, <1>7 DEF CheckInType
<1> QED BY <1>2, <1>3, <1>8 DEF CheckInInv

LEMMA PostKeeps ==
    ASSUME Net!CheckInConstants, CheckInInv, NEW n \in Nodes, NEW c \in Net!Connectors,
           NEW nets \in SUBSET Nets, Net!Post(n, c, nets)
    PROVE  CheckInInv'
<1>0. CheckInType
  BY DEF CheckInInv
<1>1. PICK m : m = [node |-> n, conn |-> c, day |-> now, nets |-> nets]
  OBVIOUS
<1>2. m \in Messages /\ sent \in Seq(Messages) /\ Len(sent) \in Nat
  BY <1>0, <1>1 DEF CheckInType, Messages
<1>3. /\ sent' = Append(sent, m)
      /\ UNCHANGED <<now, season, settled, bound, awards, poll, form, changes>>
  BY <1>1 DEF Net!Post
<1>4. /\ sent' \in Seq(Messages) /\ Len(sent') = Len(sent) + 1
      /\ \A i \in 1..Len(sent) : sent'[i] = sent[i]
  BY <1>2, <1>3
<1>5. \A b \in buffer' : b \in buffer \/ (b.msg = Len(sent) + 1 /\ b.at = now)
  BY DEF Net!Post
<1>6. \A i \in 0..Len(sent) : i \in 0..Len(sent')
  BY <1>2, <1>4
<1>7. AwardsAre(awards)'
  BY <1>0, <1>3, <1>6 DEF CheckInType, AwardsAre, AwardRow, StreakIn, Past
<1>8. \A a \in awards : a.msg \in 0..Len(sent)
  BY <1>0 DEF CheckInType, AwardsAre, AwardRow
<1>9. \A a \in awards : Buffered(a.msg)' => Buffered(a.msg)
  BY <1>2, <1>4, <1>8 DEF Buffered
<1>10. \A a \in awards : Pending(a.msg)' => Pending(a.msg)
  BY <1>2, <1>3, <1>5, <1>8 DEF Pending
<1>11. PaidAreSeen(awards, settled)' /\ OneSeasonEach(awards)'
  BY <1>3, <1>9, <1>10 DEF CheckInInv, PaidAreSeen, OneSeasonEach
<1>12. SeenFollows'
  <2>1. ASSUME NEW r \in settled', NEW b \in buffer', r.msg = b.msg PROVE r.at >= b.at - 1
    <3>1. r \in settled /\ r.msg \in 1..Len(sent)
      BY <1>0, <1>3 DEF CheckInType
    <3>2. b \in buffer
      BY <1>2, <1>5, <2>1, <3>1
    <3> QED BY <2>1, <3>1, <3>2 DEF CheckInInv, SeenFollows
  <2> QED BY <2>1 DEF SeenFollows
<1>13. /\ \A r \in settled' : r.msg \in 1..Len(sent') /\ r.at \in Int
       /\ now' \in Int
       /\ poll' # None =>
            /\ poll' = [at |-> poll'.at, season |-> poll'.season, known |-> poll'.known,
                        left |-> poll'.left, hand |-> poll'.hand]
            /\ poll'.at \in Int /\ poll'.at <= now' /\ poll'.at >= now' - 1
            /\ poll'.hand # None => poll'.hand.msgs \subseteq 1..Len(sent')
  BY <1>0, <1>2, <1>3, <1>4 DEF CheckInType
<1>14. \A b \in buffer' : /\ b.msg \in 1..Len(sent') /\ b.at \in Int
                          /\ b.at <= now' /\ b.at >= now' - BufferKept - 1
  <2>1. BufferKept \in Nat /\ now \in Int
    BY <1>0 DEF CheckInType, Net!CheckInConstants, Net!CheckInNumbers
  <2>2. \A b \in buffer : /\ b.msg \in 1..Len(sent) /\ b.at \in Int
                          /\ b.at <= now /\ b.at >= now - BufferKept - 1
    BY <1>0 DEF CheckInType
  <2> QED BY <1>2, <1>3, <1>4, <1>5, <2>1, <2>2
<1>15. form' # None => AwardRow(form)' /\ form'.msg = 0 /\ StreakIn(awards, form)'
  BY <1>0, <1>3, <1>6 DEF CheckInType, AwardRow, StreakIn, Past
<1>16. CheckInType'
  BY <1>4, <1>7, <1>13, <1>14, <1>15 DEF CheckInType
<1> QED BY <1>11, <1>12, <1>16 DEF CheckInInv

\* A seen row that is pruned has outlived its buffer row, and no poll is under way.
LEMMA PruneKeeps ==
    ASSUME Net!CheckInConstants, CheckInInv, Net!PruneSeen
    PROVE  CheckInInv'
<1>0. CheckInType
  BY DEF CheckInInv
<1>1. /\ poll = None /\ settled' = {r \in settled : r.at >= now - SeenKept}
      /\ UNCHANGED <<now, season, sent, buffer, bound, awards, poll, form, changes>>
  BY DEF Net!PruneSeen, Net!SeenAfter
<1>2. PaidAreSeen(awards, settled)'
  <2>1. ASSUME NEW a \in awards, Buffered(a.msg), Pending(a.msg)
        PROVE  \E r \in settled' : r.msg = a.msg
    <3>1. PICK r \in settled : r.msg = a.msg
      BY <2>1 DEF CheckInInv, PaidAreSeen
    <3>2. PICK b \in buffer : b.msg = a.msg
      BY <1>1, <2>1 DEF Pending
    <3>3. r.at \in Int /\ b.at \in Int /\ now \in Int /\ r.at >= b.at - 1
          /\ b.at >= now - BufferKept - 1
      BY <1>0, <3>1, <3>2 DEF CheckInType, CheckInInv, SeenFollows
    <3>4. SeenKept \in Nat /\ BufferKept \in Nat /\ SeenKept > BufferKept + 1
      BY DEF Net!CheckInConstants, Net!CheckInNumbers, Net!SeenOutlivesBuffer
    <3>5. r.at >= now - SeenKept
      BY <3>3, <3>4
    <3> QED BY <1>1, <3>1, <3>5
  <2> QED BY <1>1, <2>1 DEF PaidAreSeen, Buffered, Pending
<1>3. OneSeasonEach(awards)' /\ SeenFollows'
  BY <1>1 DEF CheckInInv, OneSeasonEach, Buffered, SeenFollows
<1>4. CheckInType'
  BY <1>0, <1>1 DEF CheckInType, AwardsAre, AwardRow, StreakIn, Past
<1> QED BY <1>2, <1>3, <1>4 DEF CheckInInv

LEMMA FetchKeeps ==
    ASSUME Net!CheckInConstants, CheckInInv, Net!Fetch
    PROVE  CheckInInv'
<1>0. CheckInType
  BY DEF CheckInInv
<1>1. PICK c, msgs : /\ msgs = Net!Handed(c) /\ poll # None /\ poll.hand = None
                     /\ poll' = [poll EXCEPT !.hand = [msgs |-> msgs]]
  BY DEF Net!Fetch
<1>2. UNCHANGED <<now, season, sent, buffer, settled, bound, awards, form, changes>>
  BY DEF Net!Fetch
<1>3. poll = [at |-> poll.at, season |-> poll.season, known |-> poll.known,
              left |-> poll.left, hand |-> poll.hand]
  BY <1>0, <1>1 DEF CheckInType
<1>4. /\ poll'.at = poll.at /\ poll'.hand = [msgs |-> msgs] /\ poll'.hand.msgs = msgs
      /\ poll' = [at |-> poll'.at, season |-> poll'.season, known |-> poll'.known,
                  left |-> poll'.left, hand |-> poll'.hand]
  BY <1>1, <1>3
<1>5. \A i \in msgs : i \in 1..Len(sent) /\ (sent[i].conn \in Brokers => \E b \in buffer : b.msg = i)
  BY <1>1 DEF Net!Handed, Net!CheckInConstants, Net!ConnectorsAreOfOneKind
<1>6. \A m : Buffered(m)' /\ Pending(m)' => Buffered(m) /\ Pending(m)
  BY <1>2, <1>4, <1>5 DEF Buffered, Pending
<1>7. PaidAreSeen(awards, settled)' /\ OneSeasonEach(awards)' /\ SeenFollows'
  BY <1>2, <1>6 DEF CheckInInv, PaidAreSeen, OneSeasonEach, Buffered, SeenFollows
<1>8. /\ AwardsAre(awards)'
      /\ form' # None => AwardRow(form)' /\ form'.msg = 0 /\ StreakIn(awards, form)'
  BY <1>0, <1>2 DEF CheckInType, AwardsAre, AwardRow, StreakIn, Past
<1>9. /\ now' \in Int /\ sent' \in Seq(Messages)
      /\ \A r \in settled' : r.msg \in 1..Len(sent') /\ r.at \in Int
      /\ \A b \in buffer' : /\ b.msg \in 1..Len(sent') /\ b.at \in Int
                            /\ b.at <= now' /\ b.at >= now' - BufferKept - 1
      /\ poll.at \in Int /\ poll.at <= now' /\ poll.at >= now' - 1
  BY <1>0, <1>1, <1>2 DEF CheckInType
<1>10. CheckInType'
  BY <1>2, <1>4, <1>5, <1>8, <1>9 DEF CheckInType
<1> QED BY <1>7, <1>10 DEF CheckInInv

LEMMA NextConnectorIs ==
    ASSUME CheckInType, poll # None
    PROVE  LET q == Net!NextConnector IN
           q = None \/ /\ q = [at |-> q.at, season |-> q.season, known |-> q.known,
                               left |-> q.left, hand |-> q.hand]
                       /\ q.at = poll.at /\ q.hand = None
<1>1. poll = [at |-> poll.at, season |-> poll.season, known |-> poll.known,
              left |-> poll.left, hand |-> poll.hand]
  BY DEF CheckInType
<1>2. Net!NextConnector = None \/ Net!NextConnector = [poll EXCEPT !.left = Tail(@), !.hand = None]
  BY DEF Net!NextConnector
<1> QED BY <1>1, <1>2

LEMMA SettleKeepsInv ==
    ASSUME Net!CheckInConstants, CheckInInv, Net!Settle
    PROVE  CheckInInv'
<1>0. CheckInType
  BY DEF CheckInInv
<1>1. /\ Open /\ awards' = Net!Settled.awards /\ settled' = Net!Settled.seen /\ poll' = Net!NextConnector
      /\ UNCHANGED <<now, season, sent, buffer, bound, form, changes>>
  BY DEF Net!Settle, Open
<1>2. PICK st : st = Net!Settled
  OBVIOUS
<1>3. SettleKeeps(st) /\ awards' = st.awards /\ settled' = st.seen
  BY <1>1, <1>2, SettledKeeps
<1>4. poll' = None
        \/ /\ poll' = [at |-> poll'.at, season |-> poll'.season, known |-> poll'.known,
                       left |-> poll'.left, hand |-> poll'.hand]
           /\ poll'.at = poll.at /\ poll'.hand = None
  <2>1. PICK q : q = Net!NextConnector
    OBVIOUS
  <2>2. q = None \/ /\ q = [at |-> q.at, season |-> q.season, known |-> q.known,
                            left |-> q.left, hand |-> q.hand]
                    /\ q.at = poll.at /\ q.hand = None
    BY <1>0, <1>1, <2>1, NextConnectorIs DEF Open
  <2> QED BY <1>1, <2>1, <2>2
<1>5. \A m : Pending(m)' => Pending(m)
  BY <1>1, <1>4 DEF Pending
<1>6. PaidAreSeen(awards, settled)' /\ OneSeasonEach(awards)'
  BY <1>1, <1>3, <1>5 DEF SettleKeeps, PaidAreSeen, OneSeasonEach, Buffered
<1>7. /\ poll.at \in Int /\ now \in Int /\ poll.at >= now - 1 /\ poll.at <= now
      /\ \A b \in buffer : b.at \in Int /\ b.at <= now
  BY <1>0, <1>1 DEF CheckInType, Open
<1>8. SeenFollows'
  <2>1. ASSUME NEW r \in st.seen, NEW b \in buffer, r.msg = b.msg PROVE r.at >= b.at - 1
    <3>1. CASE r \in settled
      BY <2>1, <3>1 DEF CheckInInv, SeenFollows
    <3>2. CASE r \notin settled
      <4>1. r.at = poll.at
        BY <1>3, <3>2 DEF SettleKeeps
      <4> QED BY <1>7, <4>1
    <3> QED BY <3>1, <3>2
  <2> QED BY <1>1, <1>3, <2>1 DEF SeenFollows
<1>9. AwardsAre(awards)'
  BY <1>1, <1>3 DEF SettleKeeps, AwardsAre, AwardRow, StreakIn, Past
<1>10. form' # None => AwardRow(form)' /\ form'.msg = 0 /\ StreakIn(awards, form)'
  <2> SUFFICES ASSUME form # None PROVE AwardRow(form)' /\ form'.msg = 0 /\ StreakIn(awards, form)'
    BY <1>1
  <2>1. AwardRow(form) /\ form.msg = 0 /\ StreakIn(awards, form)
    BY <1>0 DEF CheckInType
  <2>2. IsFiniteSet(st.awards) /\ awards \subseteq st.awards
    BY <1>3 DEF SettleKeeps, AwardsAre
  <2>3. StreakIn(st.awards, form)
    BY <2>1, <2>2, StreakGrows DEF AwardRow
  <2> QED BY <1>1, <1>3, <2>1, <2>3 DEF AwardRow, StreakIn, Past
<1>11. \A r \in settled' : r.msg \in 1..Len(sent') /\ r.at \in Int
  <2>1. \A r \in st.seen : r \in settled \/ (r.at = poll.at /\ r.msg \in 1..Len(sent))
    BY <1>3 DEF SettleKeeps
  <2> QED BY <1>0, <1>1, <1>3, <1>7, <2>1 DEF CheckInType
<1>12. /\ now' \in Int /\ sent' \in Seq(Messages)
       /\ \A b \in buffer' : /\ b.msg \in 1..Len(sent') /\ b.at \in Int
                             /\ b.at <= now' /\ b.at >= now' - BufferKept - 1
  BY <1>0, <1>1 DEF CheckInType
<1>13. CheckInType'
  BY <1>1, <1>4, <1>7, <1>9, <1>10, <1>11, <1>12 DEF CheckInType
<1> QED BY <1>6, <1>8, <1>13 DEF CheckInInv

LEMMA FormIs ==
    ASSUME CheckInType, NEW p, NEW d \in Int, Net!OpenForm(p, d)
    PROVE  AwardRow(form') /\ form'.msg = 0 /\ StreakIn(awards, form')
<1>1. PICK n : form' = [season |-> season.no, player |-> p, date |-> d, net |-> n,
                        streak |-> Net!Streak(awards, p, n, d), msg |-> 0]
  BY DEF Net!OpenForm
<1>2. PICK a : a = form'
  OBVIOUS
<1>3. a.player = p /\ a.net = n /\ a.date = d /\ a.msg = 0 /\ a.streak = Net!Streak(awards, p, n, d)
  BY <1>1, <1>2
<1>4. IsFiniteSet(awards) /\ \A b \in awards : b.date \in Int
  BY DEF CheckInType, AwardsAre, AwardRow
<1>5. a.streak \in Nat /\ StreakIn(awards, a)
  BY <1>3, <1>4, StreakIs DEF StreakIn
<1>6. Len(sent) \in Nat
  BY DEF CheckInType
<1> QED BY <1>2, <1>3, <1>5, <1>6 DEF AwardRow

LEMMA SubmitKeeps ==
    ASSUME Net!CheckInConstants, CheckInInv, Net!SubmitForm
    PROVE  CheckInInv'
<1>0. CheckInType
  BY DEF CheckInInv
<1>1. /\ form # None /\ awards' = Net!Insert(awards, form) /\ form' = None
      /\ UNCHANGED <<now, season, sent, buffer, settled, bound, poll, changes>>
  BY DEF Net!SubmitForm
<1>2. AwardRow(form) /\ form.msg = 0 /\ StreakIn(awards, form) /\ AwardsAre(awards)
  BY <1>0, <1>1 DEF CheckInType
<1>3. PICK more : more = Net!Insert(awards, form)
  OBVIOUS
<1>4. AwardsAre(more) /\ awards \subseteq more /\ more \subseteq awards \cup {form}
  BY <1>2, <1>3, InsertKeeps
<1>5. AwardsAre(awards)'
  BY <1>1, <1>3, <1>4 DEF AwardsAre, AwardRow, StreakIn, Past
<1>6. \A a \in awards' : a \in awards \/ a.msg = 0
  BY <1>1, <1>2, <1>3, <1>4
<1>7. PaidAreSeen(awards, settled)' /\ OneSeasonEach(awards)' /\ SeenFollows'
  BY <1>1, <1>6 DEF CheckInInv, PaidAreSeen, OneSeasonEach, Buffered, Pending, SeenFollows
<1>8. CheckInType'
  BY <1>0, <1>1, <1>5 DEF CheckInType
<1> QED BY <1>7, <1>8 DEF CheckInInv

LEMMA TickKeeps ==
    ASSUME Net!CheckInConstants, CheckInInv, Net!Tick
    PROVE  CheckInInv'
<1>0. CheckInType
  BY DEF CheckInInv
<1>1. /\ now' = now + 1 /\ (poll # None => poll.at = now) /\ form = None
      /\ \A b \in buffer : b.at >= now - BufferKept
      /\ UNCHANGED <<season, sent, buffer, settled, bound, awards, poll, form, changes>>
  BY DEF Net!Tick
<1>2. now \in Int /\ BufferKept \in Nat
  BY <1>0 DEF CheckInType, Net!CheckInConstants, Net!CheckInNumbers
<1>3. PaidAreSeen(awards, settled)' /\ OneSeasonEach(awards)' /\ SeenFollows'
  BY <1>1 DEF CheckInInv, PaidAreSeen, OneSeasonEach, Buffered, Pending, SeenFollows
<1>4. AwardsAre(awards)'
  BY <1>0, <1>1 DEF CheckInType, AwardsAre, AwardRow, StreakIn, Past
<1>5. \A b \in buffer' : /\ b.msg \in 1..Len(sent') /\ b.at \in Int
                         /\ b.at <= now' /\ b.at >= now' - BufferKept - 1
  BY <1>0, <1>1, <1>2 DEF CheckInType
<1>6. CheckInType'
  BY <1>0, <1>1, <1>2, <1>4, <1>5 DEF CheckInType
<1> QED BY <1>3, <1>6 DEF CheckInInv

LEMMA CheckInStep ==
    ASSUME Net!CheckInConstants, CheckInInv, [Net!Next]_Net!vars
    PROVE  CheckInInv'
<1>0. CheckInType
  BY DEF CheckInInv
<1>00. poll # None =>
         /\ poll = [at |-> poll.at, season |-> poll.season, known |-> poll.known,
                    left |-> poll.left, hand |-> poll.hand]
         /\ poll.at \in Int /\ poll.at <= now /\ poll.at >= now - 1
  BY <1>0 DEF CheckInType
<1>1. CASE \/ Net!PruneBuffer \/ Net!RollSeason \/ UNCHANGED Net!vars
           \/ \E n \in Nodes, p \in Players \cup {None} : Net!Bind(n, p)
  <2>1. /\ UNCHANGED <<now, sent, awards, settled, poll, form>>
        /\ buffer' \subseteq buffer
    BY <1>1 DEF Net!PruneBuffer, Net!RollSeason, Net!Bind, Net!vars
  <2> QED BY <1>00, <2>1, QuietKeeps
<1>2. CASE Net!StartPoll
  <2>1. /\ UNCHANGED <<now, sent, awards, settled, buffer, form>>
        /\ poll' = [at |-> now, season |-> season'.no, known |-> bound, left |-> Order, hand |-> None]
    BY <1>2 DEF Net!StartPoll
  <2>2. now \in Int
    BY <1>0 DEF CheckInType
  <2>3. /\ poll' = [at |-> poll'.at, season |-> poll'.season, known |-> poll'.known,
                    left |-> poll'.left, hand |-> poll'.hand]
        /\ poll'.at = now /\ poll'.hand = None
    BY <2>1
  <2> QED BY <2>1, <2>2, <2>3, QuietKeeps
<1>3. CASE Net!ConnectorFails
  <2>1. /\ UNCHANGED <<now, sent, awards, settled, buffer, form>>
        /\ poll # None /\ poll' \in {Net!NextConnector, None}
    BY <1>3 DEF Net!ConnectorFails
  <2>2. poll' = None
          \/ /\ poll' = [at |-> poll'.at, season |-> poll'.season, known |-> poll'.known,
                         left |-> poll'.left, hand |-> poll'.hand]
             /\ poll'.at = poll.at /\ poll'.hand = None
    <3>1. PICK q : q = Net!NextConnector
      OBVIOUS
    <3>2. q = None \/ /\ q = [at |-> q.at, season |-> q.season, known |-> q.known,
                              left |-> q.left, hand |-> q.hand]
                      /\ q.at = poll.at /\ q.hand = None
      BY <1>0, <2>1, <3>1, NextConnectorIs
    <3> QED BY <2>1, <3>1, <3>2
  <2> QED BY <1>00, <2>1, <2>2, QuietKeeps
<1>4. ASSUME NEW p \in Players, NEW d \in 0..now, Net!OpenForm(p, d) PROVE CheckInInv'
  <2>1. UNCHANGED <<now, sent, awards, settled, buffer, poll>>
    BY <1>4 DEF Net!OpenForm
  <2>2. d \in Int
    BY <1>0 DEF CheckInType
  <2>3. AwardRow(form') /\ form'.msg = 0 /\ StreakIn(awards, form')
    BY <1>0, <1>4, <2>2, FormIs
  <2> QED BY <1>00, <2>1, <2>3, QuietKeeps
<1> QED BY <1>1, <1>2, <1>3, <1>4, PostKeeps, PruneKeeps, FetchKeeps, SettleKeepsInv, SubmitKeeps,
        TickKeeps DEF Net!Next

LEMMA CheckInStarts == ASSUME Net!CheckInConstants, Net!Init PROVE CheckInInv
<1>1. IsFiniteSet({})
  BY FS_EmptySet
<1>2. AwardsAre(awards)
  BY <1>1 DEF Net!Init, AwardsAre
<1>3. CheckInType
  BY <1>2 DEF Net!Init, CheckInType
<1> QED BY <1>3 DEF Net!Init, CheckInInv, PaidAreSeen, OneSeasonEach, SeenFollows

\* A broker's message earns in one season only, for any connectors, nets and
\* retentions, if the seen rows are kept for two units longer than the buffer's:
\* one that was paid has a seen row for as long as it stands in the buffer or in
\* the hands of a poll (_prune_buffer, _prune_seen_messages).
THEOREM BufferedAlwaysPaysOneSeason == Net!Spec => []BufferedPaysOneSeason
<1>1. Net!Init => CheckInInv
  BY CheckInStarts, CheckInShape
<1>2. CheckInInv /\ [Net!Next]_Net!vars => CheckInInv'
  BY CheckInStep, CheckInShape
<1>3. CheckInInv => BufferedPaysOneSeason
  BY DEF CheckInInv, OneSeasonEach, Buffered, BufferedPaysOneSeason, Net!BufferedPaysOneSeason
<1> QED BY <1>1, <1>2, <1>3, PTL DEF Net!Spec

\* A streak of k is k dates of that one net, whatever the order in which polls
\* and operators credit them (checkin_streak): awards are only ever added.
THEOREM StreakAlwaysAttended == Net!Spec => []StreakIsAttended
<1>1. Net!Init => CheckInInv
  BY CheckInStarts, CheckInShape
<1>2. CheckInInv /\ [Net!Next]_Net!vars => CheckInInv'
  BY CheckInStep, CheckInShape
<1>3. CheckInInv => StreakIsAttended
  <2> SUFFICES ASSUME CheckInInv, NEW a \in awards
               PROVE  a.streak - 1 <= Net!Cardinality({b.date : b \in {c \in awards :
                            c.player = a.player /\ c.net = a.net /\ c.date < a.date}})
    BY DEF StreakIsAttended, Net!StreakIsAttended
  <2>1. StreakIn(awards, a)
    BY DEF CheckInInv, CheckInType, AwardsAre
  <2> QED BY <2>1 DEF StreakIn, Past, Net!Cardinality, Cardinality
<1> QED BY <1>1, <1>2, <1>3, PTL DEF Net!Spec
=============================================================================
