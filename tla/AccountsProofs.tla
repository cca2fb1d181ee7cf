--------------------------- MODULE AccountsProofs ---------------------------
(* What Roster, Doors and Claims keep for any number of accounts, players,   *)
(* keys, radios and processes, and any number of requests in flight.         *)
(*                                                                           *)
(* Roster.  A revocation reaches neither a lookup under way nor the caches   *)
(* of other processes, so RevokedKeyDies rests on when each of them learned  *)
(* what it knows: an answer "ok" that began at t is one of a key and a       *)
(* player that did not end before t, and it is used for KeyTtl from t at     *)
(* most.                                                                     *)
(*                                                                           *)
(* Doors.  HasDoor is inductive once the rows have their types.              *)
(* SecondFactorHolds rests on the secrets: one that a sign-in or a session   *)
(* was secured by is never newer than its account's, and a sign-in that got  *)
(* past the code page gave the code of a secret at least that new.           *)
(*                                                                           *)
(* Claims.  OneWatcher holds because a live watcher is the registered one.   *)
(* ClaimsAreProven rests on the baselines: what the mesh heard of a radio    *)
(* after the baseline of a window, of a start that was scanned or of an      *)
(* accept that read one, it heard since a claim of that player's began.      *)
EXTENDS MCAccounts, FiniteSetTheorems, WellFoundedInduction, TLAPS

LEMMA RosterNumbers == {KeyTtl, CacheMax, Horizon} \subseteq Nat /\ KeyTtl > 0 /\ CacheMax > 0
BY RosterShape DEF Ring!RosterConstants, Ring!RosterNumbers, Ring!CacheKeeps

States == {"fresh", "live", "erased"}
Statuses == {"not_found", "revoked", "disabled", "ok"}
PlayerRows == [made : BOOLEAN, gone : BOOLEAN, off : Ring!Times \cup {None},
               team : Teams \cup {None}, account : Accounts \cup {None}]
KeyRows == [state : States, owner : Players \cup {None}, dead : Ring!Times \cup {None}]
Answers == [status : Statuses, player : Players \cup {None}]
Entries == [until : Int, answer : Answers]
Lookups == [process : Processes, key : Keys, began : Ring!Times, answer : Answers]
Requests == [process : Processes, account : Accounts, player : Players \cup {None}]
Batches == [player : Players, key : Keys, began : Ring!Times]
Changes == [player : Players, to : Teams, at : Ring!Times, actor : {"player", "operator"}]

TablesType ==
    /\ month \in Ring!Times
    /\ player \in [Players -> PlayerRows]
    /\ key \in [Keys -> KeyRows]
    /\ \A k \in Keys : key[k].state = "live" => key[k].owner \in Players
    /\ opened \subseteq Accounts

MemoryType ==
    /\ cache \in [Processes -> [Keys -> Entries \cup {None}]]
    /\ lookup \subseteq Lookups
    /\ asked \subseteq Requests
    /\ queue \subseteq Batches
    /\ change \subseteq Changes

\* At time t, key k and the player of answer a were as a says, or ended later.
Timely(t, k, a) ==
    a.status = "ok" =>
        /\ a.player \in Players
        /\ key[k].dead # None => t <= key[k].dead
        /\ player[a.player].off # None => t <= player[a.player].off

LookupsTimely ==
    \A l \in lookup : l.began <= month /\ Timely(l.began, l.key, l.answer)

\* A cached answer is KeyTtl away from when its lookup began.
CachesTimely ==
    \A w \in Processes, k \in Keys :
        cache[w][k] # None =>
            /\ cache[w][k].until - KeyTtl <= month
            /\ Timely(cache[w][k].until - KeyTtl, k, cache[w][k].answer)

BatchesTimely == \A b \in queue : b.began <= month

KnowledgeTimely == LookupsTimely /\ CachesTimely

RosterInv ==
    TablesType /\ MemoryType /\ KnowledgeTimely /\ BatchesTimely /\ Ring!RevokedKeyDies

-----------------------------------------------------------------------------
(* What the helpers return.                                                  *)

\* A lookup's answer is true of the moment it is made.
LEMMA AnswerTimely ==
    ASSUME TablesType, NEW k \in Keys
    PROVE  Ring!Answer(k) \in Answers /\ Timely(month, k, Ring!Answer(k))
BY DEF TablesType, Ring!Answer, Answers, Statuses, KeyRows, PlayerRows, Timely

\* Whatever a request is granted, it is granted before KeyTtl has passed since the
\* key or the player ended.
LEMMA GrantTimely ==
    ASSUME TablesType, MemoryType, KnowledgeTimely,
           NEW w \in Processes, NEW k \in Keys, NEW g \in Ring!Grants(w, k)
    PROVE  /\ g.answer \in Answers /\ g.began \in Ring!Times /\ g.began <= month
           /\ g.answer.status = "ok" =>
                LET p == g.answer.player IN
                /\ p \in Players
                /\ key[k].dead # None => g.began < key[k].dead + KeyTtl
                /\ player[p].off # None => g.began < player[p].off + KeyTtl
           /\ g.from # None =>
                /\ g.from \in lookup /\ g.from.key = k /\ g.from.process = w
                /\ g.answer = g.from.answer
<1> DEFINE e == cache[w][k]
<1>1. CASE g = [answer |-> e.answer, began |-> month, from |-> None] /\ Ring!Hit(w, k)
  <2>1. e \in Entries /\ e.until > month /\ e # None
    BY <1>1 DEF Ring!Hit, MemoryType
  <2>2. e.until - KeyTtl <= month /\ Timely(e.until - KeyTtl, k, e.answer)
    BY <2>1 DEF KnowledgeTimely, CachesTimely
  <2> QED
    BY <1>1, <2>1, <2>2, RosterNumbers, SMTT(20)
       DEF TablesType, Entries, Answers, Timely, PlayerRows, KeyRows, Ring!Times
<1>2. ASSUME NEW l \in lookup, l.process = w, l.key = k,
             g = [answer |-> l.answer, began |-> l.began, from |-> l]
      PROVE  /\ g.answer \in Answers /\ g.began \in Ring!Times /\ g.began <= month
             /\ g.answer.status = "ok" =>
                LET p == g.answer.player IN
                /\ p \in Players
                /\ key[k].dead # None => g.began < key[k].dead + KeyTtl
                /\ player[p].off # None => g.began < player[p].off + KeyTtl
             /\ g.from = l
  <2>1. l \in Lookups /\ l.began <= month /\ Timely(l.began, k, l.answer)
    BY <1>2 DEF MemoryType, KnowledgeTimely, LookupsTimely
  <2> QED
    BY <1>2, <2>1, RosterNumbers
       DEF TablesType, Lookups, Answers, Timely, PlayerRows, KeyRows, Ring!Times
<1> QED
  BY <1>1, <1>2 DEF Ring!Grants

-----------------------------------------------------------------------------
(* Ends are dated now, or taken back: what was timely stays so.              *)

Ends ==
    /\ month' = month
    /\ \A k \in Keys : key'[k].dead \in {None, month, key[k].dead}
    /\ \A p \in Players : player'[p].off \in {None, month, player[p].off}

LEMMA TimelyStays ==
    ASSUME TablesType, Ends, NEW k \in Keys, NEW a, NEW t \in Int, t <= month, Timely(t, k, a)
    PROVE  Timely(t, k, a)'
BY DEF TablesType, Ends, Timely, Ring!Times

LEMMA EntryStays ==
    ASSUME TablesType, MemoryType, KnowledgeTimely, Ends,
           NEW w \in Processes, NEW k \in Keys, cache'[w][k] \in {None, cache[w][k]}
    PROVE  (cache[w][k] # None =>
                /\ cache[w][k].until - KeyTtl <= month
                /\ Timely(cache[w][k].until - KeyTtl, k, cache[w][k].answer))'
<1> SUFFICES ASSUME cache'[w][k] # None
             PROVE  /\ (cache[w][k].until - KeyTtl <= month)'
                    /\ Timely(cache[w][k].until - KeyTtl, k, cache[w][k].answer)'
  OBVIOUS
<1>1. cache'[w][k] = cache[w][k] /\ cache[w][k] \in Entries
  BY DEF MemoryType
<1>2. /\ cache[w][k].until - KeyTtl <= month
      /\ cache[w][k].until - KeyTtl \in Int
      /\ Timely(cache[w][k].until - KeyTtl, k, cache[w][k].answer)
  BY <1>1, RosterNumbers DEF Entries, KnowledgeTimely, CachesTimely
<1>3. Timely(cache[w][k].until - KeyTtl, k, cache[w][k].answer)'
  BY <1>1, <1>2, TimelyStays DEF Timely
<1> QED
  BY <1>1, <1>2, <1>3 DEF Ends

LEMMA KnowledgeStays ==
    ASSUME TablesType, MemoryType, KnowledgeTimely, Ends,
           lookup' \subseteq lookup,
           \A w \in Processes, k \in Keys : cache'[w][k] \in {None, cache[w][k]}
    PROVE  KnowledgeTimely'
<1>1. LookupsTimely'
  <2> SUFFICES ASSUME NEW l \in lookup
               PROVE  (l.began <= month)' /\ Timely(l.began, l.key, l.answer)'
    BY DEF LookupsTimely
  <2>1. l \in Lookups /\ l.began <= month /\ Timely(l.began, l.key, l.answer)
    BY DEF MemoryType, KnowledgeTimely, LookupsTimely
  <2> QED
    BY <2>1, TimelyStays DEF Lookups, Ring!Times, Ends
<1>2. CachesTimely'
  BY EntryStays DEF CachesTimely
<1> QED
  BY <1>1, <1>2 DEF KnowledgeTimely

\* What a process learns from a grant is as timely as the lookup it is from.
LEMMA LearnKeeps ==
    ASSUME TablesType, MemoryType, KnowledgeTimely, Ends,
           NEW w \in Processes, NEW k \in Keys, NEW g \in Ring!Grants(w, k), Ring!Learn(w, k, g)
    PROVE  /\ KnowledgeTimely'
           /\ cache' \in [Processes -> [Keys -> Entries \cup {None}]]
           /\ lookup' \subseteq Lookups
<1>1. CASE g.from = None
  BY <1>1, KnowledgeStays DEF Ring!Learn, MemoryType
<1>2. CASE g.from # None
  <2> DEFINE l == g.from
             entry == [until |-> Ring!Expiry(l), answer |-> l.answer]
  <2>1. /\ l \in lookup /\ l.key = k /\ l \in Lookups /\ g.answer = l.answer
        /\ l.began <= month /\ Timely(l.began, k, l.answer)
    BY <1>2, GrantTimely DEF MemoryType, KnowledgeTimely, LookupsTimely
  <2>2. entry \in Entries /\ entry.until - KeyTtl = l.began
    BY <2>1, RosterNumbers DEF Ring!Expiry, Lookups, Entries, Ring!Times
  <2> DEFINE room == Ring!MadeRoom(cache[w])
  <2>3. cache[w] \in [Keys -> Entries \cup {None}]
    BY DEF MemoryType
  <2>4. /\ room \in [Keys -> Entries \cup {None}]
        /\ \A j \in Keys : room[j] \in {None, cache[w][j]}
    BY <2>3 DEF Ring!MadeRoom
  <2>5. /\ cache' = [cache EXCEPT ![w] = [room EXCEPT ![k] = entry]]
        /\ lookup' = lookup \ {l}
    BY <1>2, <2>1 DEF Ring!Learn
  <2> HIDE DEF entry, room
  <2>6. /\ cache' \in [Processes -> [Keys -> Entries \cup {None}]]
        /\ lookup' \subseteq Lookups
    BY <2>2, <2>4, <2>5 DEF MemoryType
  <2>7. \A v \in Processes, j \in Keys :
          cache'[v][j] \in {None, cache[v][j]} \/ (v = w /\ j = k /\ cache'[v][j] = entry)
    BY <2>3, <2>4, <2>5 DEF MemoryType
  <2>8. LookupsTimely'
    <3> SUFFICES ASSUME NEW m \in lookup
                 PROVE  (m.began <= month)' /\ Timely(m.began, m.key, m.answer)'
      BY <2>5 DEF LookupsTimely
    <3>1. m \in Lookups /\ m.began <= month /\ Timely(m.began, m.key, m.answer)
      BY DEF MemoryType, KnowledgeTimely, LookupsTimely
    <3> QED
      BY <3>1, TimelyStays DEF Lookups, Ring!Times, Ends
  <2>9. CachesTimely'
    <3> SUFFICES ASSUME NEW v \in Processes, NEW j \in Keys, cache'[v][j] # None
                 PROVE  /\ (cache[v][j].until - KeyTtl <= month)'
                        /\ Timely(cache[v][j].until - KeyTtl, j, cache[v][j].answer)'
      BY DEF CachesTimely
    <3>1. CASE v = w /\ j = k /\ cache'[v][j] = entry
      <4>1. Timely(l.began, k, l.answer)'
        BY <2>1, TimelyStays DEF Lookups, Ring!Times
      <4> QED
        BY <2>1, <2>2, <3>1, <4>1 DEF Ends, Timely, entry
    <3>2. CASE cache'[v][j] = cache[v][j]
      BY <3>2, EntryStays
    <3> QED
      BY <2>7, <3>1, <3>2
  <2> QED
    BY <2>6, <2>8, <2>9 DEF KnowledgeTimely
<1> QED
  BY <1>1, <1>2

-----------------------------------------------------------------------------
(* A step keeps the invariant when it keeps the types and ends keys and      *)
(* players only now.                                                         *)

LEMMA BatchesStay ==
    ASSUME RosterInv, Ends, queue' \subseteq queue
    PROVE  BatchesTimely' /\ Ring!RevokedKeyDies'
<1> SUFFICES ASSUME NEW b \in queue
             PROVE  /\ (b.began <= month)'
                    /\ (key[b.key].dead # None => b.began < key[b.key].dead + KeyTtl)'
                    /\ (player[b.player].off # None
                            => b.began < player[b.player].off + KeyTtl)'
  BY DEF BatchesTimely, Ring!RevokedKeyDies
<1>1. /\ b \in Batches /\ b.began <= month
      /\ key[b.key].dead # None => b.began < key[b.key].dead + KeyTtl
      /\ player[b.player].off # None => b.began < player[b.player].off + KeyTtl
  BY DEF RosterInv, MemoryType, BatchesTimely, Ring!RevokedKeyDies
<1>2. month < month + KeyTtl /\ month \in Int /\ KeyTtl \in Int
  BY RosterNumbers DEF RosterInv, TablesType, Ring!Times
<1> QED
  BY <1>1, <1>2 DEF Batches, Ends, Ring!Times

\* A step that learns nothing.
LEMMA QuietStep ==
    ASSUME RosterInv, Ends, TablesType', MemoryType',
           lookup' \subseteq lookup, queue' \subseteq queue,
           \A w \in Processes, k \in Keys : cache'[w][k] \in {None, cache[w][k]}
    PROVE  RosterInv'
BY KnowledgeStays, BatchesStay DEF RosterInv

\* A step that uses a grant and queues nothing.
LEMMA LearningStep ==
    ASSUME RosterInv, Ends, TablesType',
           asked' \subseteq Requests, change' \subseteq Changes, queue' \subseteq queue,
           NEW w \in Processes, NEW k \in Keys, NEW g \in Ring!Grants(w, k), Ring!Learn(w, k, g)
    PROVE  RosterInv'
<1>1. queue' \subseteq Batches
  BY DEF RosterInv, MemoryType
<1> QED
  BY <1>1, LearnKeeps, BatchesStay DEF RosterInv, MemoryType

LEMMA InvalidateKeeps ==
    ASSUME MemoryType, NEW w, NEW p
    PROVE  /\ Ring!Invalidate(w, p) \in [Processes -> [Keys -> Entries \cup {None}]]
           /\ \A v \in Processes, k \in Keys : Ring!Invalidate(w, p)[v][k] \in {None, cache[v][k]}
BY DEF MemoryType, Ring!Invalidate

LEMMA TombstonedKeeps ==
    ASSUME TablesType, NEW p \in Players, Ring!Tombstoned(p), month' = month, opened' \subseteq opened
    PROVE  TablesType' /\ Ends
<1>1. player' \in [Players -> PlayerRows]
  BY ZenonT(40) DEF TablesType, Ring!Tombstoned, PlayerRows
<1>2. key' \in [Keys -> KeyRows]
      /\ \A k \in Keys : key'[k].state = "live" => key'[k].owner \in Players
  BY SMTT(30) DEF TablesType, Ring!Tombstoned, KeyRows, States
<1>3. Ends
  BY DEF TablesType, Ring!Tombstoned, Ends, KeyRows, PlayerRows
<1> QED
  BY <1>1, <1>2, <1>3 DEF TablesType

\* Keys may be issued after others were revoked.
LEMMA IssueKeeps ==
    ASSUME TablesType, NEW k \in Keys, NEW p \in Players,
           key' = Ring!Issued(key, k, p) \/ key' = Ring!Issued(Ring!Revoked(key, p), k, p)
    PROVE  /\ key' \in [Keys -> KeyRows]
           /\ \A j \in Keys : key'[j].state = "live" => key'[j].owner \in Players
           /\ \A j \in Keys : key'[j].dead \in {None, month, key[j].dead}
<1>1. /\ Ring!Revoked(key, p) \in [Keys -> KeyRows]
      /\ \A j \in Keys : /\ Ring!Revoked(key, p)[j].state = key[j].state
                         /\ Ring!Revoked(key, p)[j].owner = key[j].owner
                         /\ Ring!Revoked(key, p)[j].dead \in {month, key[j].dead}
  BY DEF TablesType, Ring!Revoked, KeyRows
<1>2. PICK keys \in [Keys -> KeyRows] :
        /\ key' = Ring!Issued(keys, k, p)
        /\ \A j \in Keys : /\ keys[j].state = key[j].state
                           /\ keys[j].owner = key[j].owner
                           /\ keys[j].dead \in {month, key[j].dead}
  BY <1>1 DEF TablesType
<1>3. key' \in [Keys -> KeyRows]
  BY <1>2 DEF Ring!Issued, KeyRows, States
<1>4. ASSUME NEW j \in Keys
      PROVE  /\ key'[j].state = "live" => key'[j].owner \in Players
             /\ key'[j].dead \in {None, month, key[j].dead}
  BY <1>2 DEF TablesType, Ring!Issued
<1> QED
  BY <1>3, <1>4

LEMMA CreateKeeps ==
    ASSUME TablesType, NEW p \in Players, NEW k \in Keys, NEW t \in Teams,
           NEW a \in Accounts \cup {None}, Ring!CreatePlayer(p, k, t, a),
           UNCHANGED <<month, opened>>
    PROVE  TablesType' /\ Ends
<1>1. player' \in [Players -> PlayerRows]
  BY DEF TablesType, Ring!CreatePlayer, Ring!Joined, Ring!NoPlayer, PlayerRows
<1>2. \A q \in Players : player'[q].off \in {None, player[q].off}
  BY DEF TablesType, Ring!CreatePlayer, Ring!Joined, Ring!NoPlayer, PlayerRows
<1>3. key' = Ring!Issued(key, k, p)
  BY DEF Ring!CreatePlayer
<1> QED
  BY <1>1, <1>2, <1>3, IssueKeeps DEF TablesType, Ends

LEMMA ChangeTeamKeeps ==
    ASSUME TablesType, MemoryType, NEW p \in Players, NEW t \in Teams,
           NEW actor \in {"player", "operator"}, Ring!ChangeTeam(p, t, actor),
           UNCHANGED <<month, opened, key>>
    PROVE  TablesType' /\ Ends /\ change' \subseteq Changes
<1>1. player' \in [Players -> PlayerRows] /\ \A q \in Players : player'[q].off = player[q].off
  BY DEF TablesType, Ring!ChangeTeam, PlayerRows
<1>2. change' \subseteq Changes
  BY DEF TablesType, MemoryType, Ring!ChangeTeam, Changes
<1> QED
  BY <1>1, <1>2 DEF TablesType, Ends

-----------------------------------------------------------------------------
(* The steps.                                                                *)

LEMMA InitRoster == Ring!Init => RosterInv
<1> SUFFICES ASSUME Ring!Init PROVE RosterInv
  OBVIOUS
<1>1. PICK p \in Players, k \in Keys, t \in Teams, a \in Accounts \cup {None} :
        /\ player = [[x \in Players |-> Ring!NoPlayer] EXCEPT ![p] = Ring!Joined(t, a)]
        /\ key = [[x \in Keys |-> Ring!FreshKey] EXCEPT ![k] = [state |-> "live", owner |-> p,
                                                         dead |-> None]]
  BY DEF Ring!Init
<1>2. player \in [Players -> PlayerRows]
  BY <1>1 DEF Ring!NoPlayer, Ring!Joined, PlayerRows
<1>3. key \in [Keys -> KeyRows] /\ \A j \in Keys : key[j].state = "live" => key[j].owner \in Players
  BY <1>1 DEF Ring!FreshKey, KeyRows, States
<1>4. TablesType
  BY <1>2, <1>3, RosterNumbers DEF Ring!Init, TablesType, Ring!Times
<1>5. MemoryType /\ KnowledgeTimely /\ BatchesTimely /\ Ring!RevokedKeyDies
  BY DEF Ring!Init, MemoryType, KnowledgeTimely, LookupsTimely, CachesTimely, BatchesTimely,
         Ring!RevokedKeyDies
<1> QED
  BY <1>4, <1>5 DEF RosterInv

LEMMA TickKeeps == RosterInv /\ Ring!Tick => RosterInv'
<1> SUFFICES ASSUME RosterInv, Ring!Tick PROVE RosterInv'
  OBVIOUS
<1>1. month \in Int /\ month' = month + 1 /\ month' \in Ring!Times
  BY RosterNumbers DEF Ring!Tick, RosterInv, TablesType, Ring!Times
<1>2. TablesType' /\ MemoryType' /\ Ring!RevokedKeyDies'
  BY <1>1 DEF Ring!Tick, RosterInv, TablesType, MemoryType, Ring!RevokedKeyDies
<1>3. LookupsTimely' /\ BatchesTimely'
  BY <1>1 DEF Ring!Tick, RosterInv, MemoryType, Lookups, Batches, Ring!Times, KnowledgeTimely,
              LookupsTimely, BatchesTimely, Timely
<1>4. CachesTimely'
  <2> SUFFICES ASSUME NEW w \in Processes, NEW k \in Keys, cache[w][k] # None
               PROVE  /\ cache[w][k].until - KeyTtl <= month'
                      /\ Timely(cache[w][k].until - KeyTtl, k, cache[w][k].answer)'
    BY DEF Ring!Tick, CachesTimely
  <2>1. /\ cache[w][k].until - KeyTtl <= month
        /\ cache[w][k].until - KeyTtl \in Int
        /\ Timely(cache[w][k].until - KeyTtl, k, cache[w][k].answer)
    BY RosterNumbers DEF RosterInv, MemoryType, Entries, KnowledgeTimely, CachesTimely
  <2> QED
    BY <1>1, <2>1 DEF Ring!Tick, Timely
<1> QED
  BY <1>2, <1>3, <1>4 DEF RosterInv, KnowledgeTimely

LEMMA StartLookupKeeps ==
    ASSUME RosterInv, NEW w \in Processes, NEW k \in Keys, Ring!StartLookup(w, k)
    PROVE  RosterInv'
<1> DEFINE l == [process |-> w, key |-> k, began |-> month, answer |-> Ring!Answer(k)]
<1>1. l \in Lookups /\ l.began <= month /\ Timely(l.began, l.key, l.answer)
  BY AnswerTimely DEF RosterInv, TablesType, Lookups, Ring!Times
<1>2. lookup' = lookup \cup {l} /\ UNCHANGED <<month, player, opened, key, change, cache, asked, queue>>
  BY DEF Ring!StartLookup
<1>3. TablesType' /\ MemoryType' /\ BatchesTimely' /\ Ring!RevokedKeyDies'
  BY <1>1, <1>2 DEF RosterInv, TablesType, MemoryType, BatchesTimely, Ring!RevokedKeyDies
<1>4. LookupsTimely' /\ CachesTimely'
  BY <1>1, <1>2 DEF RosterInv, KnowledgeTimely, LookupsTimely, CachesTimely, Timely
<1> QED
  BY <1>3, <1>4 DEF RosterInv, KnowledgeTimely

\* The only step that queues a batch: its grant began before KeyTtl had passed.
LEMMA IngestKeeps ==
    ASSUME RosterInv, NEW w \in Processes, NEW k \in Keys, Ring!Ingest(w, k)
    PROVE  RosterInv'
<1>1. PICK g \in Ring!Grants(w, k) :
        /\ g.answer.status = "ok"
        /\ Ring!Learn(w, k, g)
        /\ queue' = queue \cup {[player |-> g.answer.player, key |-> k, began |-> g.began]}
        /\ UNCHANGED <<month, player, opened, key, change, asked>>
  BY DEF Ring!Ingest
<1> DEFINE b == [player |-> g.answer.player, key |-> k, began |-> g.began]
<1>2. /\ b \in Batches /\ b.began <= month
      /\ key[k].dead # None => b.began < key[k].dead + KeyTtl
      /\ player[b.player].off # None => b.began < player[b.player].off + KeyTtl
  BY <1>1, GrantTimely DEF RosterInv, Batches
<1>3. TablesType' /\ Ends
  BY <1>1 DEF RosterInv, TablesType, Ends
<1>4. KnowledgeTimely' /\ MemoryType'
  BY <1>1, <1>2, <1>3, LearnKeeps DEF RosterInv, MemoryType
<1>5. BatchesTimely' /\ Ring!RevokedKeyDies'
  BY <1>1, <1>2 DEF RosterInv, BatchesTimely, Ring!RevokedKeyDies
<1> QED
  BY <1>3, <1>4, <1>5 DEF RosterInv

LEMMA ServeKeeps == RosterInv /\ Ring!Serve => RosterInv'
<1> SUFFICES ASSUME RosterInv, Ring!Serve PROVE RosterInv'
  OBVIOUS
<1>1. CASE Ring!Tick
  BY <1>1, TickKeeps
<1>2. ASSUME NEW w \in Processes, NEW k \in Keys, Ring!StartLookup(w, k) PROVE RosterInv'
  BY <1>2, StartLookupKeeps
<1>3. ASSUME NEW w \in Processes, NEW k \in Keys, Ring!Refuse(w, k) PROVE RosterInv'
  <2>1. PICK g \in Ring!Grants(w, k) :
          Ring!Learn(w, k, g) /\ UNCHANGED <<month, player, opened, key, change, asked, queue>>
    BY <1>3 DEF Ring!Refuse
  <2>2. TablesType' /\ Ends /\ asked' \subseteq Requests /\ change' \subseteq Changes
    BY <2>1 DEF RosterInv, TablesType, MemoryType, Ends
  <2> QED
    BY <2>1, <2>2, LearningStep
<1>4. ASSUME NEW w \in Processes, NEW k \in Keys, Ring!Ingest(w, k) PROVE RosterInv'
  BY <1>4, IngestKeeps
<1>5. ASSUME NEW b \in queue, Ring!ProcessBatch(b) PROVE RosterInv'
  <2>1. TablesType' /\ MemoryType' /\ Ends
    BY <1>5 DEF Ring!ProcessBatch, RosterInv, TablesType, MemoryType, Ends
  <2> QED
    BY <1>5, <2>1, QuietStep DEF Ring!ProcessBatch
<1>6. ASSUME NEW w \in Processes, NEW a \in Accounts, Ring!BeginRequest(w, a) PROVE RosterInv'
  <2>1. PICK p \in Players \cup {None} :
          asked' = asked \cup {[process |-> w, account |-> a, player |-> p]}
    BY <1>6 DEF Ring!BeginRequest, Ring!PlayerOf
  <2>2. UNCHANGED <<month, player, opened, key, change, cache, lookup, queue>>
    BY <1>6 DEF Ring!BeginRequest
  <2>3. TablesType' /\ MemoryType' /\ Ends
    BY <2>1, <2>2 DEF RosterInv, TablesType, MemoryType, Ends, Requests
  <2> QED
    BY <2>2, <2>3, QuietStep
<1>7. ASSUME NEW q \in asked, Ring!EndRequest(q) PROVE RosterInv'
  <2>1. TablesType' /\ MemoryType' /\ Ends
    BY <1>7 DEF Ring!EndRequest, RosterInv, TablesType, MemoryType, Ends
  <2> QED
    BY <1>7, <2>1, QuietStep DEF Ring!EndRequest
<1> QED
  BY <1>1, <1>2, <1>3, <1>4, <1>5, <1>6, <1>7 DEF Ring!Serve

LEMMA UserRouteKeeps == RosterInv /\ Ring!UserRoute => RosterInv'
<1> SUFFICES ASSUME RosterInv, Ring!UserRoute PROVE RosterInv'
  OBVIOUS
<1> USE DEF RosterInv
<1>q. \A q \in asked : q \in Requests
  BY DEF MemoryType
<1>1. ASSUME NEW p \in Players, NEW k \in Keys, NEW t \in Teams, Ring!Join(p, k, t)
      PROVE  RosterInv'
  <2>1. TablesType' /\ Ends
    BY <1>1, CreateKeeps DEF Ring!Join
  <2>2. MemoryType'
    BY <1>1 DEF Ring!Join, MemoryType
  <2> QED
    BY <1>1, <2>1, <2>2, QuietStep DEF Ring!Join
<1>2. ASSUME NEW q \in asked, NEW p \in Players, NEW k \in Keys, NEW t \in Teams,
             Ring!JoinSignedIn(q, p, k, t)
      PROVE  RosterInv'
  <2>1. TablesType' /\ Ends
    BY <1>2, <1>q, CreateKeeps DEF Ring!JoinSignedIn, Requests
  <2>2. MemoryType'
    BY <1>2 DEF Ring!JoinSignedIn, MemoryType
  <2> QED
    BY <1>2, <2>1, <2>2, QuietStep DEF Ring!JoinSignedIn
<1>3. ASSUME NEW q \in asked, Ring!DeleteAccount(q) PROVE RosterInv'
  <2>1. CASE q.player = None
    <3>1. TablesType' /\ MemoryType' /\ Ends
      BY <1>3, <2>1 DEF Ring!DeleteAccount, TablesType, MemoryType, Ends
    <3> QED
      BY <1>3, <2>1, <3>1, QuietStep DEF Ring!DeleteAccount
  <2>2. CASE q.player # None
    <3>1. q.player \in Players /\ opened' \subseteq opened
      BY <1>3, <1>q, <2>2 DEF Requests, Ring!DeleteAccount
    <3>2. TablesType' /\ Ends
      BY <1>3, <2>2, <3>1, TombstonedKeeps DEF Ring!DeleteAccount
    <3>3. /\ cache' \in [Processes -> [Keys -> Entries \cup {None}]]
          /\ \A v \in Processes, k \in Keys : cache'[v][k] \in {None, cache[v][k]}
      BY <1>3, <2>2, InvalidateKeeps DEF Ring!DeleteAccount
    <3>4. MemoryType'
      BY <1>3, <3>3 DEF Ring!DeleteAccount, MemoryType
    <3> QED
      BY <1>3, <3>2, <3>3, <3>4, QuietStep DEF Ring!DeleteAccount
  <2> QED
    BY <2>1, <2>2
<1>4. ASSUME NEW q \in asked, NEW k \in Keys, Ring!LinkKey(q, k) PROVE RosterInv'
  <2>1. PICK g \in Ring!Grants(q.process, k) :
          /\ g.answer.status = "ok"
          /\ Ring!Learn(q.process, k, g)
          /\ player' = [player EXCEPT ![g.answer.player].account = q.account]
          /\ asked' = asked \ {q}
          /\ UNCHANGED <<month, opened, key, change, queue>>
    BY <1>4 DEF Ring!LinkKey
  <2>2. q.process \in Processes /\ q.account \in Accounts
    BY <1>q DEF Requests
  <2>3. g.answer.player \in Players
    BY <2>1, <2>2, GrantTimely
  <2>4. TablesType' /\ Ends
    BY <2>1, <2>2, <2>3 DEF TablesType, Ends, PlayerRows
  <2>5. asked' \subseteq Requests /\ change' \subseteq Changes /\ queue' \subseteq queue
    BY <2>1 DEF MemoryType
  <2> QED
    BY <2>1, <2>2, <2>4, <2>5, LearningStep
<1>5. ASSUME NEW q \in asked, NEW k \in Keys, Ring!RotateKey(q, k) PROVE RosterInv'
  <2>1. q.player \in Players
    BY <1>5, <1>q DEF Ring!RotateKey, Requests
  <2>2. TablesType' /\ Ends
    BY <1>5, <2>1, IssueKeeps DEF Ring!RotateKey, TablesType, Ends
  <2>3. /\ cache' \in [Processes -> [Keys -> Entries \cup {None}]]
        /\ \A v \in Processes, j \in Keys : cache'[v][j] \in {None, cache[v][j]}
    BY <1>5, InvalidateKeeps DEF Ring!RotateKey
  <2>4. MemoryType'
    BY <1>5, <2>3 DEF Ring!RotateKey, MemoryType
  <2> QED
    BY <1>5, <2>2, <2>3, <2>4, QuietStep DEF Ring!RotateKey
<1>6. ASSUME NEW q \in asked, NEW t \in Teams, Ring!SwitchTeamSignedIn(q, t) PROVE RosterInv'
  <2>1. q.player \in Players
    BY <1>6, <1>q DEF Ring!SwitchTeamSignedIn, Requests
  <2>2. TablesType' /\ Ends /\ change' \subseteq Changes
    BY <1>6, <2>1, ChangeTeamKeeps DEF Ring!SwitchTeamSignedIn
  <2>3. MemoryType'
    BY <1>6, <2>2 DEF Ring!SwitchTeamSignedIn, MemoryType
  <2> QED
    BY <1>6, <2>2, <2>3, QuietStep DEF Ring!SwitchTeamSignedIn
<1>7. ASSUME NEW w \in Processes, NEW k \in Keys, NEW t \in Teams, Ring!SwitchTeam(w, k, t)
      PROVE  RosterInv'
  <2>1. PICK g \in Ring!Grants(w, k) :
          /\ g.answer.status = "ok"
          /\ Ring!Learn(w, k, g)
          /\ Ring!ChangeTeam(g.answer.player, t, "player")
          /\ UNCHANGED <<month, opened, key, asked, queue>>
    BY <1>7 DEF Ring!SwitchTeam
  <2>2. g.answer.player \in Players
    BY <2>1, GrantTimely
  <2>3. TablesType' /\ Ends /\ change' \subseteq Changes
    BY <2>1, <2>2, ChangeTeamKeeps
  <2>4. asked' \subseteq Requests /\ queue' \subseteq queue
    BY <2>1 DEF MemoryType
  <2> QED
    BY <2>1, <2>3, <2>4, LearningStep
<1> QED
  BY <1>1, <1>2, <1>3, <1>4, <1>5, <1>6, <1>7 DEF Ring!UserRoute

LEMMA AdminRouteKeeps == RosterInv /\ Ring!AdminRoute => RosterInv'
<1> SUFFICES ASSUME RosterInv, Ring!AdminRoute PROVE RosterInv'
  OBVIOUS
<1> USE DEF RosterInv
<1>1. ASSUME NEW w \in Processes, NEW k \in Keys, Ring!AdminRevoke(w, k) PROVE RosterInv'
  <2>1. TablesType' /\ Ends
    BY <1>1 DEF Ring!AdminRevoke, TablesType, Ends, KeyRows
  <2>2. /\ MemoryType'
        /\ \A v \in Processes, j \in Keys : cache'[v][j] \in {None, cache[v][j]}
    BY <1>1 DEF Ring!AdminRevoke, MemoryType
  <2> QED
    BY <1>1, <2>1, <2>2, QuietStep DEF Ring!AdminRevoke
<1>2. ASSUME NEW w \in Processes, NEW k \in Keys, NEW p \in Players, Ring!AdminReissue(w, p, k)
      PROVE  RosterInv'
  <2>1. TablesType' /\ Ends
    BY <1>2, IssueKeeps DEF Ring!AdminReissue, TablesType, Ends
  <2>2. /\ MemoryType'
        /\ \A v \in Processes, j \in Keys : cache'[v][j] \in {None, cache[v][j]}
    BY <1>2, InvalidateKeeps DEF Ring!AdminReissue, MemoryType
  <2> QED
    BY <1>2, <2>1, <2>2, QuietStep DEF Ring!AdminReissue
<1>3. ASSUME NEW w \in Processes, NEW a \in Accounts, Ring!AdminDeleteAccount(w, a)
      PROVE  RosterInv'
  <2>1. CASE Ring!PlayerOf(a) = {}
    <3>1. TablesType' /\ MemoryType' /\ Ends
      BY <1>3, <2>1 DEF Ring!AdminDeleteAccount, TablesType, MemoryType, Ends
    <3> QED
      BY <1>3, <2>1, <3>1, QuietStep DEF Ring!AdminDeleteAccount
  <2>2. CASE Ring!PlayerOf(a) # {}
    <3>1. PICK p \in Players : Ring!Tombstoned(p) /\ cache' = Ring!Invalidate(w, p)
      BY <1>3, <2>2 DEF Ring!AdminDeleteAccount, Ring!PlayerOf
    <3>2. UNCHANGED <<month, change, lookup, asked, queue>> /\ opened' \subseteq opened
      BY <1>3 DEF Ring!AdminDeleteAccount
    <3>3. TablesType' /\ Ends
      BY <3>1, <3>2, TombstonedKeeps
    <3>4. /\ MemoryType'
          /\ \A v \in Processes, j \in Keys : cache'[v][j] \in {None, cache[v][j]}
      BY <3>1, <3>2, InvalidateKeeps DEF MemoryType
    <3> QED
      BY <3>2, <3>3, <3>4, QuietStep
  <2> QED
    BY <2>1, <2>2
<1>4. ASSUME NEW w \in Processes, NEW p \in Players, NEW off \in {None, month},
             Ring!SetDisabled(w, p, off)
      PROVE  RosterInv'
  <2>1. TablesType' /\ Ends
    BY <1>4 DEF Ring!SetDisabled, TablesType, Ends, PlayerRows
  <2>2. /\ MemoryType'
        /\ \A v \in Processes, j \in Keys : cache'[v][j] \in {None, cache[v][j]}
    BY <1>4, InvalidateKeeps DEF Ring!SetDisabled, MemoryType
  <2> QED
    BY <1>4, <2>1, <2>2, QuietStep DEF Ring!SetDisabled
<1>5. ASSUME NEW w \in Processes, NEW p \in Players, Ring!AdminDeletePlayer(w, p) PROVE RosterInv'
  <2>1. TablesType' /\ Ends
    BY <1>5, TombstonedKeeps DEF Ring!AdminDeletePlayer
  <2>2. /\ MemoryType'
        /\ \A v \in Processes, j \in Keys : cache'[v][j] \in {None, cache[v][j]}
    BY <1>5, InvalidateKeeps DEF Ring!AdminDeletePlayer, MemoryType
  <2> QED
    BY <1>5, <2>1, <2>2, QuietStep DEF Ring!AdminDeletePlayer
<1>6. ASSUME NEW p \in Players, Ring!AdminUnlink(p) PROVE RosterInv'
  <2>1. TablesType' /\ Ends /\ MemoryType'
    BY <1>6, ZenonT(40) DEF Ring!AdminUnlink, TablesType, Ends, PlayerRows, MemoryType
  <2> QED
    BY <1>6, <2>1, QuietStep DEF Ring!AdminUnlink
<1>7. ASSUME NEW p \in Players, NEW k \in Keys, Ring!AdminIssue(p, k) PROVE RosterInv'
  <2>1. TablesType' /\ Ends
    BY <1>7, IssueKeeps DEF Ring!AdminIssue, TablesType, Ends
  <2>2. MemoryType'
    BY <1>7 DEF Ring!AdminIssue, MemoryType
  <2> QED
    BY <1>7, <2>1, <2>2, QuietStep DEF Ring!AdminIssue
<1>8. ASSUME NEW p \in Players, NEW t \in Teams, Ring!AdminSetTeam(p, t) PROVE RosterInv'
  <2>1. TablesType' /\ Ends /\ change' \subseteq Changes
    BY <1>8, ChangeTeamKeeps DEF Ring!AdminSetTeam
  <2>2. MemoryType'
    BY <1>8, <2>1 DEF Ring!AdminSetTeam, MemoryType
  <2> QED
    BY <1>8, <2>1, <2>2, QuietStep DEF Ring!AdminSetTeam
<1> QED
  BY <1>1, <1>2, <1>3, <1>4, <1>5, <1>6, <1>7, <1>8 DEF Ring!AdminRoute

LEMMA RosterStep == RosterInv /\ [Ring!Next]_Ring!vars => RosterInv'
<1> SUFFICES ASSUME RosterInv, [Ring!Next]_Ring!vars PROVE RosterInv'
  OBVIOUS
<1>1. CASE UNCHANGED Ring!vars
  BY <1>1 DEF Ring!vars, RosterInv, TablesType, MemoryType, KnowledgeTimely, LookupsTimely,
              CachesTimely, Timely, BatchesTimely, Ring!RevokedKeyDies
<1> QED
  BY <1>1, ServeKeeps, UserRouteKeeps, AdminRouteKeeps DEF Ring!Next

\* Every table, cache and queue keeps its type, and a live key has an owner.
THEOREM RosterTypeCorrect == Ring!Spec => [](TablesType /\ MemoryType)
<1>1. RosterInv => TablesType /\ MemoryType
  BY DEF RosterInv
<1> QED
  BY <1>1, InitRoster, RosterStep, PTL DEF Ring!Spec

\* A dead key, and a disabled player, get no batch in with a request of KeyTtl or
\* more later: in any number of processes, lookups and requests.
THEOREM RevokedKeysAlwaysDie == Ring!Spec => []RevokedKeyDies
<1>1. RosterInv => RevokedKeyDies
  BY DEF RosterInv, RevokedKeyDies
<1> QED
  BY <1>1, InitRoster, RosterStep, PTL DEF Ring!Spec
-----------------------------------------------------------------------------
(* One switch a month: a change is on record by the time the next one looks. *)

ChangesDated == \A c \in change : c.at <= month

SwitchInv == ChangesDated /\ Ring!OneSwitchAMonth

\* A player's own change, when none of this month is on record: a row of the same
\* month would have been seen, for it lies between the month's start and now.
LEMMA SwitchKeeps ==
    ASSUME RosterInv, SwitchInv, NEW p \in Players, NEW t \in Teams, ~Ring!SwitchUsed(p),
           Ring!ChangeTeam(p, t, "player"), month' = month
    PROVE  SwitchInv'
<1> DEFINE row == [player |-> p, to |-> t, at |-> month, actor |-> "player"]
<1>1. change' = change \cup {row}
  BY DEF Ring!ChangeTeam
<1>2. month \in Ring!Times /\ \A c \in change : c.at \in Ring!Times /\ c.at <= month
  BY DEF RosterInv, TablesType, MemoryType, Changes, SwitchInv, ChangesDated
<1>3. ASSUME NEW c \in change, c.player = p, c.actor = "player"
      PROVE  MonthStart(c.at) # MonthStart(month)
  <2>1. c.at \in Int /\ month \in Int /\ c.at <= month
    BY <1>2 DEF Ring!Times
  <2>2. /\ MonthStart(c.at) <= c.at /\ month < MonthEnd(month) /\ MonthEnd(month) \in Int
        /\ MonthStart(month) \in Int
    BY <1>2, RosterShape DEF Ring!RosterConstants, Ring!MonthsCover, Ring!Times
  <2> QED
    BY <1>3, <2>1, <2>2 DEF Ring!SwitchUsed
<1>4. ChangesDated'
  BY <1>1, <1>2 DEF SwitchInv, ChangesDated, Ring!Times
<1>5. Ring!OneSwitchAMonth'
  BY <1>1, <1>3 DEF SwitchInv, Ring!OneSwitchAMonth
<1> QED
  BY <1>4, <1>5 DEF SwitchInv

\* A row of the operators' is nobody's switch.
LEMMA OperatorKeeps ==
    ASSUME RosterInv, SwitchInv, NEW p \in Players, NEW t \in Teams,
           Ring!ChangeTeam(p, t, "operator"), month' = month
    PROVE  SwitchInv'
<1>1. change' = change \cup {[player |-> p, to |-> t, at |-> month, actor |-> "operator"]}
  BY DEF Ring!ChangeTeam
<1>2. month \in Int
  BY DEF RosterInv, TablesType, Ring!Times
<1> QED
  BY <1>1, <1>2 DEF SwitchInv, ChangesDated, Ring!OneSwitchAMonth

\* Every other step leaves the record alone, and time only moves on.
LEMMA RecordKept ==
    ASSUME RosterInv, SwitchInv, change' = change, month' \in {month, month + 1}
    PROVE  SwitchInv'
<1>1. month \in Int /\ \A c \in change : c.at \in Int
  BY DEF RosterInv, TablesType, MemoryType, Changes, Ring!Times
<1> QED
  BY <1>1 DEF SwitchInv, ChangesDated, Ring!OneSwitchAMonth

LEMMA SwitchStep == RosterInv /\ SwitchInv /\ [Ring!Next]_Ring!vars => SwitchInv'
<1> SUFFICES ASSUME RosterInv, SwitchInv, [Ring!Next]_Ring!vars PROVE SwitchInv'
  OBVIOUS
<1>1. CASE UNCHANGED Ring!vars
  BY <1>1, RecordKept DEF Ring!vars
<1>2. CASE Ring!Serve
  BY <1>2, RecordKept DEF Ring!Serve, Ring!Tick, Ring!StartLookup, Ring!Refuse, Ring!Ingest,
     Ring!ProcessBatch, Ring!BeginRequest, Ring!EndRequest
<1>3. CASE Ring!UserRoute
  <2>1. ASSUME NEW p \in Players, NEW k \in Keys, NEW t \in Teams,
               Ring!Join(p, k, t) \/ \E q \in asked : Ring!JoinSignedIn(q, p, k, t)
        PROVE  SwitchInv'
    BY <2>1, RecordKept DEF Ring!Join, Ring!JoinSignedIn
  <2>2. ASSUME NEW q \in asked,
               Ring!DeleteAccount(q) \/ \E k \in Keys : Ring!LinkKey(q, k) \/ Ring!RotateKey(q, k)
        PROVE  SwitchInv'
    BY <2>2, RecordKept DEF Ring!DeleteAccount, Ring!LinkKey, Ring!RotateKey
  <2>3. ASSUME NEW q \in asked, NEW t \in Teams, Ring!SwitchTeamSignedIn(q, t)
        PROVE  SwitchInv'
    <3>1. q.player \in Players
      BY <2>3 DEF Ring!SwitchTeamSignedIn, RosterInv, MemoryType, Requests
    <3> QED
      BY <2>3, <3>1, SwitchKeeps DEF Ring!SwitchTeamSignedIn
  <2>4. ASSUME NEW w \in Processes, NEW k \in Keys, NEW t \in Teams, Ring!SwitchTeam(w, k, t)
        PROVE  SwitchInv'
    <3>1. PICK g \in Ring!Grants(w, k) :
            /\ g.answer.status = "ok"
            /\ ~Ring!SwitchUsed(g.answer.player)
            /\ Ring!ChangeTeam(g.answer.player, t, "player")
            /\ month' = month
      BY <2>4 DEF Ring!SwitchTeam
    <3>2. g.answer.player \in Players
      BY <3>1, GrantTimely DEF RosterInv
    <3> QED
      BY <3>1, <3>2, SwitchKeeps
  <2> QED
    BY <1>3, <2>1, <2>2, <2>3, <2>4 DEF Ring!UserRoute
<1>4. CASE Ring!AdminRoute
  <2>1. ASSUME NEW p \in Players, NEW t \in Teams, Ring!AdminSetTeam(p, t) PROVE SwitchInv'
    BY <2>1, OperatorKeeps DEF Ring!AdminSetTeam
  <2>2. ASSUME ~\E p \in Players, t \in Teams : Ring!AdminSetTeam(p, t)
        PROVE  change' = change /\ month' = month
    BY <1>4, <2>2 DEF Ring!AdminRoute, Ring!AdminRevoke, Ring!AdminReissue,
       Ring!AdminDeleteAccount, Ring!SetDisabled, Ring!AdminDeletePlayer, Ring!AdminUnlink,
       Ring!AdminIssue
  <2> QED
    BY <2>1, <2>2, RecordKept
<1> QED
  BY <1>1, <1>2, <1>3, <1>4 DEF Ring!Next

\* Whatever mix of keys, sessions and operators changes a player's team, the player
\* changed it at most once in a month.
THEOREM OneSwitchAlways == Ring!Spec => []OneSwitchAMonth
<1>1. Ring!Init => SwitchInv
  BY DEF Ring!Init, SwitchInv, ChangesDated, Ring!OneSwitchAMonth
<1>2. SwitchInv => OneSwitchAMonth
  BY DEF SwitchInv, OneSwitchAMonth
<1> QED
  BY <1>1, <1>2, InitRoster, RosterStep, SwitchStep, PTL DEF Ring!Spec
-----------------------------------------------------------------------------
(* Signing in: the rows of the tables, and what is under way.                *)

Firsts == {"email", "oauth", "password", "new"}
TotpRows == [state : {"none", "pending", "active"}, secret : Nat,
             last : Int \cup {None}, recovery : BOOLEAN]
Flights == [account : Accounts, first : Firsts, who : Persons, secured : Nat,
            second : BOOLEAN, step : {"asks", "opens"}]
Tickets == [kind : {"mail", "pending"}, about : Identities]
             \cup [kind : {"challenge"}, about : Flights]
Resolved == [account : Accounts, who : Persons]
Sessions == [account : Accounts, who : Persons, first : Firsts, secured : Nat,
             second : BOOLEAN]

DoorRows ==
    /\ now \in Int
    /\ account \in [Accounts -> {"new", "live", "gone"}]
    /\ owner \in [Identities -> Accounts \cup {None}]
    /\ password \in [Accounts -> Persons \cup {None}]
    /\ totp \in [Accounts -> TotpRows]

DoorsUnderWay ==
    /\ ticket \subseteq Tickets /\ flight \subseteq Flights
    /\ request \subseteq Resolved /\ session \subseteq Sessions

DoorType == DoorRows /\ DoorsUnderWay

LEMMA SecuredIs ==
    ASSUME DoorType, NEW a \in Accounts
    PROVE  Secured(a) \in Nat /\ Secured(a) <= totp[a].secret /\ totp[a].secret \in Nat
<1>1. totp[a] \in TotpRows
  BY DEF DoorType, DoorRows
<1> QED BY <1>1 DEF Secured, TotpRows

LEMMA PassedIs ==
    ASSUME DoorType, NEW a \in Accounts, NEW first \in Firsts, NEW how, NEW who \in Persons
    PROVE  Passed(a, first, how, who) \in Flights
<1>1. Secured(a) \in Nat
  BY SecuredIs
<1> QED BY <1>1 DEF Passed, Flights

LEMMA ProofsAre ==
    ASSUME DoorType, NEW a \in Accounts, NEW p \in Proofs(a)
    PROVE  p.step \in Int /\ Consumed(a, p) \in TotpRows
           /\ Consumed(a, p).state = totp[a].state /\ Consumed(a, p).secret = totp[a].secret
<1>1. totp[a] \in TotpRows /\ now \in Int
  BY DEF DoorType, DoorRows
<1>2. p.step \in Int
  BY <1>1 DEF Proofs
<1>3. CASE p.kind = "code"
  BY <1>1, <1>2, <1>3 DEF Consumed, TotpRows
<1>4. CASE p.kind # "code"
  BY <1>1, <1>2, <1>4 DEF Consumed, TotpRows
<1> QED BY <1>2, <1>3, <1>4

LEMMA HoldersAre ==
    ASSUME DoorType, NEW x
    PROVE  Holders(x) \subseteq Accounts
BY DEF DoorType, DoorRows, Holders

LEMMA WithoutTotpIs ==
    ASSUME DoorType, NEW a \in Accounts
    PROVE  /\ WithoutTotp(a) \in [Accounts -> TotpRows]
           /\ WithoutTotp(a)[a].state = "none" /\ WithoutTotp(a)[a].secret = totp[a].secret
           /\ \A b \in Accounts \ {a} : WithoutTotp(a)[b] = totp[b]
<1>1. totp \in [Accounts -> TotpRows] /\ totp[a].secret \in Nat
  BY SecuredIs DEF DoorType, DoorRows
<1>2. NoTotp \in TotpRows /\ NoTotp.state = "none"
  BY DEF NoTotp, TotpRows
<1>3. /\ [NoTotp EXCEPT !.secret = totp[a].secret] \in TotpRows
      /\ [NoTotp EXCEPT !.secret = totp[a].secret].state = "none"
      /\ [NoTotp EXCEPT !.secret = totp[a].secret].secret = totp[a].secret
  BY <1>1, <1>2 DEF TotpRows
<1> QED BY <1>1, <1>3 DEF WithoutTotp

\* The accounts of those whose sessions a callback may carry.
LEMMA CurrentIs ==
    ASSUME DoorType, NEW i \in Identities, NEW q \in Current(i)
    PROVE  /\ q = None \/ q \in Resolved
           /\ AccountOf(q) = None \/ AccountOf(q) \in Accounts
<1>1. q = None \/ q \in Resolved
  BY DEF Current, DoorType, DoorsUnderWay
<1> QED BY <1>1 DEF AccountOf, Resolved

LEMMA ResolveKeeps ==
    ASSUME DoorType, NEW i \in Identities, NEW current \in Accounts \cup {None},
           NEW first \in Firsts, NEW left \in SUBSET Tickets, Resolve(i, current, first, left)
    PROVE  /\ owner' \in [Identities -> Accounts \cup {None}]
           /\ ticket' \subseteq Tickets /\ flight' \subseteq Flights
<1>1. /\ owner \in [Identities -> Accounts \cup {None}] /\ Person(i) \in Persons
      /\ flight \subseteq Flights
  BY DoorSets DEF DoorType, DoorRows, DoorsUnderWay
<1>2. CASE owner[i] # None
  <2>1. Passed(owner[i], first, "login", Person(i)) \in Flights
    BY <1>1, <1>2, PassedIs
  <2> QED BY <1>1, <1>2, <2>1 DEF Resolve, Launch
<1>3. CASE owner[i] = None /\ current # None
  BY <1>1, <1>3 DEF Resolve
<1>4. CASE owner[i] = None /\ current = None /\ AutoLinkable(i)
  <2>1. PICK a \in Holders(Address(i)) :
            /\ owner' = [owner EXCEPT ![i] = a]
            /\ Launch(Passed(a, first, "auto_linked", Person(i)))
            /\ ticket' = left
    BY <1>4 DEF Resolve
  <2>2. a \in Accounts
    BY HoldersAre
  <2>3. Passed(a, first, "auto_linked", Person(i)) \in Flights
    BY <1>1, <2>2, PassedIs
  <2> QED BY <1>1, <2>1, <2>2, <2>3 DEF Launch
<1>5. CASE owner[i] = None /\ current = None /\ ~AutoLinkable(i)
  <2>1. [kind |-> "pending", about |-> i] \in Tickets
    BY DEF Tickets
  <2> QED BY <1>1, <1>5, <2>1 DEF Resolve
<1> QED BY <1>2, <1>3, <1>4, <1>5

LEMMA SignInKeepsType ==
    ASSUME DoorType, SignIn
    PROVE  DoorType'
<1> USE DEF DoorType
<1>1. ASSUME NEW i \in Identities, EmailStart(i) PROVE DoorType'
  BY <1>1 DEF EmailStart, Issue, rows, DoorRows, DoorsUnderWay, Tickets
<1>2. ASSUME NEW i \in Identities, NEW q \in Current(i), Callback(i, q) PROVE DoorType'
  <2>1. AccountOf(q) \in Accounts \cup {None}
    BY <1>2, CurrentIs
  <2>2. PICK first \in Firsts, left \in SUBSET Tickets : Resolve(i, AccountOf(q), first, left)
    <3>1. ticket \subseteq Tickets
      BY DEF DoorsUnderWay
    <3> QED BY <1>2, <3>1 DEF Callback, Firsts
  <2>3. /\ owner' \in [Identities -> Accounts \cup {None}]
        /\ ticket' \subseteq Tickets /\ flight' \subseteq Flights
    BY <2>1, <2>2, ResolveKeeps
  <2>4. request' \subseteq request /\ UNCHANGED <<now, account, password, totp, session>>
    BY <1>2 DEF Callback
  <2> QED BY <2>3, <2>4 DEF DoorRows, DoorsUnderWay
<1>3. ASSUME NEW a \in Accounts, PasswordStart(a) PROVE DoorType'
  <2>1. password[a] \in Persons
    BY <1>3 DEF PasswordStart, DoorRows
  <2>2. Passed(a, "password", "login", password[a]) \in Flights
    BY <2>1, PassedIs DEF Firsts
  <2>3. flight' \subseteq Flights
    BY <1>3, <2>2 DEF PasswordStart, Launch, DoorsUnderWay
  <2> QED BY <1>3, <2>3 DEF PasswordStart, rows, DoorRows, DoorsUnderWay
<1>4. ASSUME NEW f \in flight, AskTotp(f) PROVE DoorType'
  <2>1. f \in Flights
    BY DEF DoorsUnderWay
  <2>2. [kind |-> "challenge", about |-> f] \in Tickets /\ [f EXCEPT !.step = "opens"] \in Flights
    BY <2>1 DEF Tickets, Flights
  <2>3. flight' \subseteq Flights /\ ticket' \subseteq Tickets
    BY <1>4, <2>1, <2>2 DEF AskTotp, Issue, DoorsUnderWay
  <2> QED BY <1>4, <2>3 DEF AskTotp, rows, DoorRows, DoorsUnderWay
<1>5. ASSUME NEW f \in flight, OpenSession(f) PROVE DoorType'
  <2>1. [account |-> f.account, who |-> f.who, first |-> f.first,
         secured |-> f.secured, second |-> f.second] \in Sessions
    BY DEF DoorsUnderWay, Flights, Sessions
  <2> QED BY <1>5, <2>1 DEF OpenSession, rows, DoorRows, DoorsUnderWay
<1>6. ASSUME NEW t \in ticket, Lapse(t) PROVE DoorType'
  BY <1>6 DEF Lapse, rows, DoorRows, DoorsUnderWay
<1>7. ASSUME NEW t \in ticket, NEW a \in Accounts, PendingCreate(t, a) PROVE DoorType'
  <2>1. t.about \in Identities
    BY <1>7 DEF PendingCreate, DoorsUnderWay, Tickets
  <2>2. Passed(a, "new", "created", Person(t.about)) \in Flights
    BY <2>1, PassedIs, DoorSets DEF Firsts
  <2> QED BY <1>7, <2>1, <2>2 DEF PendingCreate, Launch, DoorRows, DoorsUnderWay
<1>8. ASSUME NEW t \in ticket, t.kind = "challenge", NEW p \in Proofs(t.about.account),
             TotpVerify(t, p)
      PROVE  DoorType'
  <2>1. t.about \in Flights /\ t.about.account \in Accounts
    BY <1>8 DEF DoorsUnderWay, Tickets, Flights
  <2>2. Consumed(t.about.account, p) \in TotpRows
    BY <1>8, <2>1, ProofsAre
  <2>3. [t.about EXCEPT !.second = TRUE, !.step = "opens"] \in Flights
    BY <2>1 DEF Flights
  <2> QED BY <1>8, <2>1, <2>2, <2>3 DEF TotpVerify, Launch, DoorRows, DoorsUnderWay
<1>9. ASSUME NEW t \in ticket, NEW q \in request, PendingLink(q, t) PROVE DoorType'
  <2>1. t.about \in Identities /\ q.account \in Accounts
    BY <1>9 DEF PendingLink, DoorsUnderWay, Tickets, Resolved
  <2> QED BY <1>9, <2>1 DEF PendingLink, DoorRows, DoorsUnderWay
<1> QED BY <1>1, <1>2, <1>3, <1>4, <1>5, <1>6, <1>7, <1>8, <1>9 DEF SignIn

LEMMA EraseKeepsType ==
    ASSUME DoorType, NEW a \in Accounts, Erase(a), UNCHANGED <<now, flight>>,
           request' \subseteq request
    PROVE  DoorType'
<1>1. WithoutTotp(a) \in [Accounts -> TotpRows]
  BY WithoutTotpIs
<1>2. /\ account' = [account EXCEPT ![a] = "gone"]
      /\ owner' = [i \in Identities |-> IF owner[i] = a THEN None ELSE owner[i]]
      /\ password' = [password EXCEPT ![a] = None]
      /\ totp' \in [Accounts -> TotpRows]
      /\ session' \subseteq session /\ ticket' \subseteq ticket
  BY <1>1 DEF Erase
<1>3. DoorRows'
  BY <1>2 DEF DoorType, DoorRows
<1>4. DoorsUnderWay'
  BY <1>2 DEF DoorType, DoorsUnderWay
<1> QED BY <1>3, <1>4 DEF DoorType

LEMMA RemovalsKeepType ==
    ASSUME DoorType, NEW a \in Accounts, request' \subseteq request,
           RemovePassword(a) \/ \E i \in Identities : RemoveProvider(a, Provider(i))
    PROVE  DoorType'
<1>1. CASE RemovePassword(a)
  BY <1>1 DEF RemovePassword, DoorType, DoorRows, DoorsUnderWay
<1>2. ASSUME NEW i \in Identities, RemoveProvider(a, Provider(i)) PROVE DoorType'
  BY <1>2 DEF RemoveProvider, DoorType, DoorRows, DoorsUnderWay
<1> QED BY <1>1, <1>2

LEMMA ManageKeepsType ==
    ASSUME DoorType, Manage
    PROVE  DoorType'
<1> USE DEF DoorType
<1>1. ASSUME NEW s \in session, Require(s) \/ Logout(s) PROVE DoorType'
  <2>1. [account |-> s.account, who |-> s.who] \in Resolved
    BY DEF DoorsUnderWay, Sessions, Resolved
  <2> QED BY <1>1, <2>1 DEF Require, Logout, rows, DoorRows, DoorsUnderWay
<1>2. ASSUME NEW q \in request, EndRequest(q) \/ LogoutAll(q) PROVE DoorType'
  BY <1>2 DEF EndRequest, LogoutAll, rows, DoorRows, DoorsUnderWay
<1>3. ASSUME NEW q \in request PROVE q.account \in Accounts /\ q.who \in Persons
  BY DEF DoorsUnderWay, Resolved
<1>4. ASSUME NEW q \in request, TotpEnroll(q) PROVE DoorType'
  <2> DEFINE a == q.account
             fresh == [totp[a] EXCEPT !.state = "pending", !.secret = totp[a].secret + 1, !.last = None]
  <2>1. totp[a] \in TotpRows /\ a \in Accounts
    BY <1>3 DEF DoorRows
  <2>2. fresh \in TotpRows
    <3> HIDE DEF a
    <3>1. totp[a].secret + 1 \in Nat
      BY <2>1 DEF TotpRows
    <3> QED BY <2>1, <3>1 DEF TotpRows
  <2>3. totp' = [totp EXCEPT ![a] = fresh]
    BY <1>4 DEF TotpEnroll
  <2> HIDE DEF fresh
  <2> QED BY <1>4, <2>1, <2>2, <2>3 DEF TotpEnroll, DoorRows, DoorsUnderWay
<1>5. ASSUME NEW q \in request, SetPassword(q) PROVE DoorType'
  BY <1>3, <1>5 DEF SetPassword, DoorRows, DoorsUnderWay
<1>6. ASSUME NEW q \in request, DeleteAccount(q) PROVE DoorType'
  <2>1. Erase(q.account) /\ request' \subseteq request /\ UNCHANGED <<now, flight>>
    BY <1>6 DEF DeleteAccount
  <2> QED BY <1>3, <2>1, EraseKeepsType
<1>7. ASSUME NEW q \in request, NEW p \in Proofs(q.account), TotpActivate(q, p)
      PROVE  DoorType'
  <2> DEFINE row == [Consumed(q.account, p) EXCEPT !.state = "active", !.recovery = TRUE]
  <2>1. Consumed(q.account, p) \in TotpRows
    BY <1>3, ProofsAre
  <2>2. row \in TotpRows
    BY <2>1 DEF TotpRows
  <2>3. totp' = [totp EXCEPT ![q.account] = row]
    BY <1>7 DEF TotpActivate
  <2> HIDE DEF row
  <2> QED BY <1>3, <1>7, <2>2, <2>3 DEF TotpActivate, DoorRows, DoorsUnderWay
<1>8. ASSUME NEW q \in request, NEW p \in Proofs(q.account), TotpDisable(q, p)
      PROVE  DoorType'
  <2>1. totp' \in [Accounts -> TotpRows]
    BY <1>3, <1>8, WithoutTotpIs DEF TotpDisable
  <2> QED BY <1>8, <2>1 DEF TotpDisable, DoorRows, DoorsUnderWay
<1>9. ASSUME NEW q \in request, request' = request \ {q},
             RemovePassword(q.account) \/ \E i \in Identities : RemoveProvider(q.account, Provider(i))
      PROVE  DoorType'
  BY <1>3, <1>9, RemovalsKeepType
<1> QED BY <1>1, <1>2, <1>4, <1>5, <1>6, <1>7, <1>8, <1>9 DEF Manage

LEMMA RecoverKeepsType ==
    ASSUME DoorType, Recover
    PROVE  DoorType'
<1>1. ASSUME NEW a \in Accounts, AdminDeleteAccount(a) PROVE DoorType'
  BY <1>1, EraseKeepsType DEF AdminDeleteAccount
<1>2. ASSUME NEW a \in Accounts, AdminDisableTotp(a) PROVE DoorType'
  <2>1. totp' \in [Accounts -> TotpRows]
    BY <1>2, WithoutTotpIs DEF AdminDisableTotp
  <2> QED BY <1>2, <2>1 DEF AdminDisableTotp, DoorType, DoorRows, DoorsUnderWay
<1>3. ASSUME NEW a \in Accounts, request' = request,
             RemovePassword(a) \/ \E i \in Identities : RemoveProvider(a, Provider(i))
      PROVE  DoorType'
  BY <1>3, RemovalsKeepType
<1> QED BY <1>1, <1>2, <1>3 DEF Recover

LEMMA DoorTypeStep == DoorType /\ [Next]_vars => DoorType'
<1> SUFFICES ASSUME DoorType, [Next]_vars PROVE DoorType'
  OBVIOUS
<1>1. CASE Tick
  BY <1>1 DEF Tick, rows, DoorType, DoorRows, DoorsUnderWay
<1>2. CASE UNCHANGED vars
  BY <1>2 DEF vars, DoorType, DoorRows, DoorsUnderWay
<1> QED BY <1>1, <1>2, SignInKeepsType, ManageKeepsType, RecoverKeepsType DEF Next

LEMMA DoorTypeInit == Init => DoorType
<1> SUFFICES ASSUME Init PROVE DoorType
  OBVIOUS
<1>1. PICK a \in Accounts, i \in Identities, on \in BOOLEAN :
          /\ account = [[b \in Accounts |-> "new"] EXCEPT ![a] = "live"]
          /\ owner = [[j \in Identities |-> None] EXCEPT ![i] = a]
          /\ totp = [[b \in Accounts |-> NoTotp] EXCEPT ![a] =
                        IF on THEN [state |-> "active", secret |-> 1, last |-> 0, recovery |-> TRUE]
                        ELSE NoTotp]
  BY DEF Init
<1>2. NoTotp \in TotpRows
      /\ [state |-> "active", secret |-> 1, last |-> 0, recovery |-> TRUE] \in TotpRows
  BY DEF NoTotp, TotpRows
<1>3. DoorRows
  BY <1>1, <1>2 DEF Init, DoorRows
<1>4. DoorsUnderWay
  BY DEF Init, DoorsUnderWay
<1> QED BY <1>3, <1>4 DEF DoorType

\* An account that has an identity or a password has a door, and the other way round.
LEMMA DoorCountIs ==
    ASSUME DoorType, NEW a \in Accounts
    PROVE  /\ IsFiniteSet(IdentitiesOf(a)) /\ Cardinality(IdentitiesOf(a)) \in Nat
           /\ Cardinality(IdentitiesOf(a)) >= 1 <=> IdentitiesOf(a) # {}
           /\ DoorCount(a) = Cardinality(IdentitiesOf(a)) + (IF password[a] = None THEN 0 ELSE 1)
           /\ DoorCount(a) >= 1 <=> IdentitiesOf(a) # {} \/ password[a] # None
<1>1. IsFiniteSet(Identities)
  BY DoorSets
<1>2. IsFiniteSet(IdentitiesOf(a))
  BY <1>1, FS_Subset DEF IdentitiesOf
<1>3. Cardinality(IdentitiesOf(a)) \in Nat
      /\ (Cardinality(IdentitiesOf(a)) = 0 <=> IdentitiesOf(a) = {})
  BY <1>2, FS_CardinalityType, FS_EmptySet
<1>4. DoorCount(a) = Cardinality(IdentitiesOf(a)) + (IF password[a] = None THEN 0 ELSE 1)
  BY DEF DoorCount
<1> QED BY <1>2, <1>3, <1>4

\* What gives an account a door, and what may not take its last one.
Door(a) == IdentitiesOf(a) # {} \/ password[a] # None
Doored == \A a \in Accounts : account[a] = "live" => Door(a)

LEMMA DooredIs == ASSUME DoorType PROVE Doored <=> HasDoor
BY DoorCountIs DEF Doored, Door, HasDoor

LEMMA LinkKeepsDoors ==
    ASSUME DoorType, Doored, NEW i \in Identities, owner[i] = None, NEW a \in Accounts,
           owner' = [owner EXCEPT ![i] = a], password' = password,
           \A b \in Accounts : account'[b] = "live" => b = a \/ account[b] = "live",
           None \notin Accounts
    PROVE  Doored'
<1>1. owner'[i] = a /\ \A j \in Identities : owner[j] # None => owner'[j] = owner[j]
  BY DEF DoorType, DoorRows
<1>2. i \in IdentitiesOf(a)'
  BY <1>1 DEF IdentitiesOf
<1>3. \A b \in Accounts : IdentitiesOf(b) \subseteq IdentitiesOf(b)'
  BY <1>1 DEF IdentitiesOf
<1> QED BY <1>2, <1>3 DEF Doored, Door

LEMMA RemovalsKeepDoors ==
    ASSUME DoorType, Doored, NEW a \in Accounts, account' = account,
           RemovePassword(a) \/ \E i \in Identities : RemoveProvider(a, Provider(i))
    PROVE  Doored'
<1>1. CASE RemovePassword(a)
  <2>1. Cardinality(IdentitiesOf(a)) >= 1
    BY <1>1 DEF RemovePassword, LeavesNoPassword
  <2>2. IdentitiesOf(a) # {}
    BY <2>1, DoorCountIs
  <2>3. owner' = owner /\ \A b \in Accounts \ {a} : password'[b] = password[b]
    BY <1>1 DEF RemovePassword, DoorType, DoorRows
  <2> QED BY <2>2, <2>3 DEF Doored, Door, IdentitiesOf
<1>2. ASSUME NEW k \in Identities, RemoveProvider(a, Provider(k)) PROVE Doored'
  <2> DEFINE gone == {i \in IdentitiesOf(a) : Provider(i) = Provider(k)}
  <2>1. /\ owner' = [i \in Identities |-> IF owner[i] = a /\ Provider(i) = Provider(k)
                                          THEN None ELSE owner[i]]
        /\ password' = password
        /\ DoorCount(a) - Cardinality(gone) >= 1
    BY <1>2 DEF RemoveProvider, Leaves
  <2>2. \A b \in Accounts \ {a} : IdentitiesOf(b)' = IdentitiesOf(b)
    BY <2>1, DoorSets DEF IdentitiesOf
  <2>3. IdentitiesOf(a) \ gone \subseteq IdentitiesOf(a)'
    BY <2>1 DEF IdentitiesOf
  <2>4. password[a] # None \/ gone # IdentitiesOf(a)
    <3> HIDE DEF gone
    <3> QED BY <2>1, DoorCountIs
  <2>5. Door(a)'
    BY <2>1, <2>3, <2>4 DEF Door
  <2> QED BY <2>1, <2>2, <2>5 DEF Doored, Door
<1> QED BY <1>1, <1>2

LEMMA EraseKeepsDoors ==
    ASSUME DoorType, Doored, NEW a \in Accounts, Erase(a)
    PROVE  Doored'
<1>1. /\ account' = [account EXCEPT ![a] = "gone"]
      /\ owner' = [i \in Identities |-> IF owner[i] = a THEN None ELSE owner[i]]
      /\ password' = [password EXCEPT ![a] = None]
  BY DEF Erase
<1>2. account'[a] = "gone" /\ \A b \in Accounts \ {a} : account'[b] = account[b] /\ password'[b] = password[b]
  BY <1>1 DEF DoorType, DoorRows
<1>3. \A b \in Accounts \ {a} : IdentitiesOf(b) \subseteq IdentitiesOf(b)'
  BY <1>1 DEF IdentitiesOf
<1> QED BY <1>2, <1>3 DEF Doored, Door

LEMMA DoorsStep ==
    ASSUME DoorType, Doored, [Next]_vars
    PROVE  Doored'
<1>1. ASSUME UNCHANGED <<account, owner, password>> PROVE Doored'
  BY <1>1 DEF Doored, Door, IdentitiesOf
<1>2. None \notin Accounts /\ None \notin Persons
  BY DoorSets
<1>3. ASSUME NEW i \in Identities, NEW q \in Current(i), Callback(i, q) PROVE Doored'
  <2>1. AccountOf(q) \in Accounts \cup {None} /\ UNCHANGED <<account, password>>
    BY <1>3, CurrentIs DEF Callback
  <2>2. PICK first, left : Resolve(i, AccountOf(q), first, left)
    BY <1>3 DEF Callback
  <2>3. \/ owner' = owner
        \/ owner[i] = None /\ \E a \in Accounts : owner' = [owner EXCEPT ![i] = a]
    BY <2>1, <2>2, HoldersAre DEF Resolve
  <2> QED BY <1>1, <1>2, <2>1, <2>3, LinkKeepsDoors
<1>4. CASE SignIn
  <2>1. ASSUME NEW t \in ticket, NEW a \in Accounts, PendingCreate(t, a) PROVE Doored'
    <3>1. t.about \in Identities
      BY <2>1 DEF PendingCreate, DoorType, DoorsUnderWay, Tickets
    <3>2. /\ owner[t.about] = None /\ owner' = [owner EXCEPT ![t.about] = a]
          /\ password' = password /\ account' = [account EXCEPT ![a] = "live"]
      BY <2>1 DEF PendingCreate
    <3>3. \A b \in Accounts : account'[b] = "live" => b = a \/ account[b] = "live"
      BY <3>2 DEF DoorType, DoorRows
    <3> QED BY <1>2, <3>1, <3>2, <3>3, LinkKeepsDoors
  <2>2. ASSUME NEW t \in ticket, NEW q \in request, PendingLink(q, t) PROVE Doored'
    <3>1. t.about \in Identities /\ q.account \in Accounts
      BY <2>2 DEF PendingLink, DoorType, DoorsUnderWay, Tickets, Resolved
    <3>2. /\ owner[t.about] = None /\ owner' = [owner EXCEPT ![t.about] = q.account]
          /\ password' = password /\ account' = account
      BY <2>2 DEF PendingLink
    <3> QED BY <1>2, <3>1, <3>2, LinkKeepsDoors
  <2> QED BY <1>1, <1>3, <1>4, <2>1, <2>2
          DEF SignIn, EmailStart, PasswordStart, AskTotp, OpenSession, Lapse,
              TotpVerify, rows
<1>5. CASE Manage
  <2>1. ASSUME NEW q \in request PROVE q.account \in Accounts /\ q.who \in Persons
    BY DEF DoorType, DoorsUnderWay, Resolved
  <2>2. ASSUME NEW q \in request, SetPassword(q) PROVE Doored'
    <3>1. /\ password' = [password EXCEPT ![q.account] = q.who] /\ owner' = owner /\ account' = account
      BY <2>2 DEF SetPassword
    <3>2. \A a \in Accounts : password[a] # None => password'[a] # None
      BY <1>2, <2>1, <3>1 DEF DoorType, DoorRows
    <3> QED BY <3>1, <3>2 DEF Doored, Door, IdentitiesOf
  <2>3. ASSUME NEW q \in request, DeleteAccount(q) PROVE Doored'
    BY <2>1, <2>3, EraseKeepsDoors DEF DeleteAccount
  <2>4. ASSUME NEW q \in request,
               RemovePassword(q.account) \/ \E i \in Identities : RemoveProvider(q.account, Provider(i))
        PROVE  Doored'
    <3>1. account' = account
      BY <2>4 DEF RemovePassword, RemoveProvider
    <3> QED BY <2>1, <2>4, <3>1, RemovalsKeepDoors
  <2> QED BY <1>1, <1>5, <2>2, <2>3, <2>4
          DEF Manage, Require, Logout, EndRequest, LogoutAll, TotpEnroll,
              TotpActivate, TotpDisable, rows
<1>6. CASE Recover
  <2>1. ASSUME NEW a \in Accounts,
               RemovePassword(a) \/ \E i \in Identities : RemoveProvider(a, Provider(i))
        PROVE  Doored'
    <3>1. account' = account
      BY <2>1 DEF RemovePassword, RemoveProvider
    <3> QED BY <2>1, <3>1, RemovalsKeepDoors
  <2> QED BY <1>1, <1>6, <2>1, EraseKeepsDoors
          DEF Recover, AdminDeleteAccount, AdminDisableTotp
<1>7. CASE Tick \/ UNCHANGED vars
  BY <1>1, <1>7 DEF Tick, vars, rows
<1> QED BY <1>4, <1>5, <1>6, <1>7 DEF Next

\* However identities are linked, unlinked, shared by address and taken away by
\* operators, and passwords set and cleared, an account keeps a way in.
THEOREM DoorAlwaysThere == Spec => []HasDoor
<1>1. Init => Doored
  <2> SUFFICES ASSUME Init PROVE Doored
    OBVIOUS
  <2>1. PICK a \in Accounts, i \in Identities :
            /\ account = [[b \in Accounts |-> "new"] EXCEPT ![a] = "live"]
            /\ owner = [[j \in Identities |-> None] EXCEPT ![i] = a]
    BY DEF Init
  <2>2. i \in IdentitiesOf(a) /\ \A b \in Accounts \ {a} : account[b] # "live"
    BY <2>1 DEF IdentitiesOf
  <2> QED BY <2>2 DEF Doored, Door
<1>2. DoorType /\ Doored /\ [Next]_vars => Doored'
  BY DoorsStep
<1>3. DoorType /\ Doored => HasDoor
  BY DooredIs
<1>4. DoorType /\ [Next]_vars => DoorType'
  BY DoorTypeStep
<1> QED BY <1>1, <1>2, <1>3, <1>4, DoorTypeInit, PTL DEF Spec

-----------------------------------------------------------------------------
(* The second factor.  x stands for a sign-in that passed its first factor,  *)
(* or the session it became; its secret was the account's active one then.   *)

\* No secret is active that was not the account's last, and one that was active once
\* never waits for its first code again: a new enrolment is a new secret.
SecretPast(x) ==
    /\ x.secured <= totp[x.account].secret
    /\ x.secured # 0 /\ x.secured = totp[x.account].secret => totp[x.account].state # "pending"

\* Without a code it goes on only when that secret is no longer active.
CodeGiven(x) ==
    x.first \in {"password", "email"} /\ x.secured # 0 /\ ~x.second
        => ~(Active(x.account) /\ totp[x.account].secret = x.secured)

SecondInv ==
    /\ \A f \in flight : SecretPast(f) /\ (f.step = "opens" => CodeGiven(f))
    /\ \A t \in ticket : t.kind = "challenge" => SecretPast(t.about)
    /\ \A s \in session : SecretPast(s) /\ CodeGiven(s)

\* Enrolment, activation and removal of a secret.
TotpMoves(a) ==
    \/ totp'[a].secret = totp[a].secret /\ totp'[a].state \in {totp[a].state, "none"}
    \/ totp'[a].secret = totp[a].secret + 1 /\ totp'[a].state = "pending"
    \/ totp'[a].secret = totp[a].secret /\ totp[a].state = "pending"

LEMMA MovesKeep ==
    ASSUME DoorType, NEW x, x.account \in Accounts, x.secured \in Nat, TotpMoves(x.account),
           SecretPast(x)
    PROVE  SecretPast(x)' /\ (CodeGiven(x) => CodeGiven(x)')
<1>1. totp[x.account].secret \in Nat
  BY SecuredIs
<1> QED BY <1>1 DEF SecretPast, CodeGiven, TotpMoves, Active

\* What is under way stays right when nothing is added to it.
LEMMA SecondKept ==
    ASSUME DoorType, SecondInv, \A a \in Accounts : TotpMoves(a),
           flight' \subseteq flight, ticket' \ ticket \subseteq [kind : {"mail", "pending"}, about : Identities],
           session' \subseteq session
    PROVE  SecondInv'
<1>1. \A f \in flight : f.account \in Accounts /\ f.secured \in Nat
  BY DEF DoorType, DoorsUnderWay, Flights
<1>2. \A t \in ticket : t.kind = "challenge" => t.about.account \in Accounts /\ t.about.secured \in Nat
  BY DEF DoorType, DoorsUnderWay, Tickets, Flights
<1>3. \A s \in session : s.account \in Accounts /\ s.secured \in Nat
  BY DEF DoorType, DoorsUnderWay, Sessions
<1>4. \A f \in flight : SecretPast(f)' /\ (f.step = "opens" => CodeGiven(f)')
  BY <1>1, MovesKeep DEF SecondInv
<1>5. \A t \in ticket : t.kind = "challenge" => SecretPast(t.about)'
  BY <1>2, MovesKeep DEF SecondInv
<1>6. \A s \in session : SecretPast(s)' /\ CodeGiven(s)'
  BY <1>3, MovesKeep DEF SecondInv
<1>7. \A t \in ticket' : t.kind = "challenge" => t \in ticket
  OBVIOUS
<1> QED BY <1>4, <1>5, <1>6, <1>7 DEF SecondInv, SecretPast, CodeGiven

\* A sign-in that passed its first factor.
LEMMA PassedHolds ==
    ASSUME DoorType, NEW a \in Accounts, NEW first \in Firsts, NEW how, NEW who \in Persons,
           totp' = totp, NEW f, f = Passed(a, first, how, who)
    PROVE  SecretPast(f)' /\ (f.step = "opens" => CodeGiven(f)')
<1>1. f.account = a /\ f.secured = Secured(a) /\ f.first = first
      /\ (f.step = "opens" => first \notin {"password", "email"})
  BY DEF Passed, Asks
<1>2. totp[a] \in TotpRows
  BY DEF DoorType, DoorRows
<1>3. SecretPast(f)'
  BY <1>1, <1>2, SecuredIs DEF SecretPast, Secured, Active
<1>4. f.step = "opens" => CodeGiven(f)'
  BY <1>1 DEF CodeGiven
<1> QED BY <1>3, <1>4

\* It is all that a first factor adds.
LEMMA LaunchKeeps ==
    ASSUME DoorType, SecondInv, NEW f, SecretPast(f)', f.step = "opens" => CodeGiven(f)',
           \A a \in Accounts : TotpMoves(a), flight' \subseteq flight \cup {f},
           ticket' \ ticket \subseteq [kind : {"mail", "pending"}, about : Identities],
           session' = session
    PROVE  SecondInv'
<1>1. \A g \in flight : g.account \in Accounts /\ g.secured \in Nat
  BY DEF DoorType, DoorsUnderWay, Flights
<1>2. \A t \in ticket : t.kind = "challenge" => t.about.account \in Accounts /\ t.about.secured \in Nat
  BY DEF DoorType, DoorsUnderWay, Tickets, Flights
<1>3. \A s \in session : s.account \in Accounts /\ s.secured \in Nat
  BY DEF DoorType, DoorsUnderWay, Sessions
<1>4. \A g \in flight : SecretPast(g)' /\ (g.step = "opens" => CodeGiven(g)')
  BY <1>1, MovesKeep DEF SecondInv
<1>5. \A t \in ticket : t.kind = "challenge" => SecretPast(t.about)'
  BY <1>2, MovesKeep DEF SecondInv
<1>6. \A s \in session : SecretPast(s)' /\ CodeGiven(s)'
  BY <1>3, MovesKeep DEF SecondInv
<1>7. \A t \in ticket' : t.kind = "challenge" => t \in ticket
  OBVIOUS
<1> QED BY <1>4, <1>5, <1>6, <1>7 DEF SecondInv, SecretPast, CodeGiven

LEMMA SecondSignIn ==
    ASSUME DoorType, SecondInv, SignIn
    PROVE  SecondInv'
<1>1. \A a \in Accounts : totp' = totp => TotpMoves(a)
  BY DEF TotpMoves
<1>2. ASSUME NEW i \in Identities, EmailStart(i) PROVE SecondInv'
  <2>1. [kind |-> "mail", about |-> i] \in [kind : {"mail", "pending"}, about : Identities]
    OBVIOUS
  <2> QED BY <1>1, <1>2, <2>1, SecondKept DEF EmailStart, Issue, rows
<1>3. ASSUME NEW i \in Identities, NEW q \in Current(i), Callback(i, q) PROVE SecondInv'
  <2>1. UNCHANGED <<totp, session>> /\ Person(i) \in Persons
    BY <1>3, DoorSets DEF Callback
  <2>2. PICK first \in Firsts, left \in SUBSET ticket : Resolve(i, AccountOf(q), first, left)
    BY <1>3 DEF Callback, Firsts
  <2>3. ticket' \ ticket \subseteq [kind : {"mail", "pending"}, about : Identities]
    <3>1. [kind |-> "pending", about |-> i] \in [kind : {"mail", "pending"}, about : Identities]
      OBVIOUS
    <3> QED BY <2>2, <3>1 DEF Resolve
  <2>4. \/ flight' = flight
        \/ \E a \in Accounts, how \in {"login", "auto_linked"} :
              Launch(Passed(a, first, how, Person(i)))
    <3>1. owner[i] \in Accounts \cup {None}
      BY DEF DoorType, DoorRows
    <3> QED BY <2>2, <3>1, HoldersAre DEF Resolve
  <2>5. CASE flight' = flight
    BY <1>1, <2>1, <2>3, <2>5, SecondKept
  <2>6. ASSUME NEW a \in Accounts, NEW how, Launch(Passed(a, first, how, Person(i)))
        PROVE  SecondInv'
    <3>1. PICK f : f = Passed(a, first, how, Person(i))
      OBVIOUS
    <3>2. SecretPast(f)' /\ (f.step = "opens" => CodeGiven(f)')
      BY <2>1, <3>1, PassedHolds
    <3>3. flight' = flight \cup {f}
      BY <2>6, <3>1 DEF Launch
    <3> QED BY <1>1, <2>1, <2>3, <3>2, <3>3, LaunchKeeps
  <2> QED BY <2>4, <2>5, <2>6
<1>4. ASSUME NEW a \in Accounts, PasswordStart(a) PROVE SecondInv'
  <2>1. /\ UNCHANGED <<totp, ticket, session>> /\ password[a] \in Persons
        /\ Launch(Passed(a, "password", "login", password[a]))
    BY <1>4 DEF PasswordStart, rows, DoorType, DoorRows
  <2>2. PICK f : f = Passed(a, "password", "login", password[a])
    OBVIOUS
  <2>3. SecretPast(f)' /\ (f.step = "opens" => CodeGiven(f)')
    BY <2>1, <2>2, PassedHolds DEF Firsts
  <2>4. flight' = flight \cup {f}
    BY <2>1, <2>2 DEF Launch
  <2> QED BY <1>1, <2>1, <2>3, <2>4, LaunchKeeps
<1>5. ASSUME NEW f \in flight, AskTotp(f) PROVE SecondInv'
  <2>1. /\ UNCHANGED <<totp, session>> /\ f \in Flights /\ SecretPast(f)
    BY <1>5 DEF AskTotp, rows, SecondInv, DoorType, DoorsUnderWay
  <2>2. CASE Active(f.account)
    <3>1. flight' \subseteq flight /\ ticket' = ticket \cup {[kind |-> "challenge", about |-> f]}
      BY <1>5, <2>2 DEF AskTotp, Issue
    <3>2. [kind |-> "challenge", about |-> f].about = f
      OBVIOUS
    <3> QED BY <2>1, <3>1, <3>2 DEF SecondInv, SecretPast, CodeGiven, Active
  <2>3. CASE ~Active(f.account)
    <3>1. PICK g : g = [f EXCEPT !.step = "opens"]
      OBVIOUS
    <3>2. g.account = f.account /\ g.secured = f.secured
      BY <2>1, <3>1 DEF Flights
    <3>3. SecretPast(g)' /\ CodeGiven(g)'
      BY <2>1, <2>3, <3>2 DEF SecretPast, CodeGiven, Active
    <3>4. flight' \subseteq flight \cup {g} /\ ticket' = ticket
      BY <1>5, <2>3, <3>1 DEF AskTotp
    <3> QED BY <1>1, <2>1, <3>3, <3>4, LaunchKeeps
  <2> QED BY <2>2, <2>3
<1>6. ASSUME NEW f \in flight, OpenSession(f) PROVE SecondInv'
  <2>1. PICK s : s = [account |-> f.account, who |-> f.who, first |-> f.first,
                      secured |-> f.secured, second |-> f.second]
    OBVIOUS
  <2>2. s.account = f.account /\ s.first = f.first /\ s.secured = f.secured /\ s.second = f.second
    BY <2>1
  <2>3. /\ UNCHANGED <<totp, ticket>> /\ session' = session \cup {s} /\ flight' \subseteq flight
        /\ f.step = "opens"
    BY <1>6, <2>1 DEF OpenSession, rows
  <2>4. SecretPast(s) /\ CodeGiven(s)
    BY <2>2, <2>3 DEF SecondInv, SecretPast, CodeGiven
  <2> QED BY <2>3, <2>4 DEF SecondInv, SecretPast, CodeGiven, Active
<1>7. ASSUME NEW t \in ticket, Lapse(t) PROVE SecondInv'
  BY <1>1, <1>7, SecondKept DEF Lapse, rows
<1>8. ASSUME NEW t \in ticket, NEW a \in Accounts, PendingCreate(t, a) PROVE SecondInv'
  <2>1. t.about \in Identities
    BY <1>8 DEF PendingCreate, DoorType, DoorsUnderWay, Tickets
  <2>2. /\ UNCHANGED <<totp, session>> /\ ticket' \subseteq ticket /\ Person(t.about) \in Persons
        /\ Launch(Passed(a, "new", "created", Person(t.about)))
    BY <1>8, <2>1, DoorSets DEF PendingCreate
  <2>3. PICK f : f = Passed(a, "new", "created", Person(t.about))
    OBVIOUS
  <2>4. SecretPast(f)' /\ (f.step = "opens" => CodeGiven(f)')
    BY <2>2, <2>3, PassedHolds DEF Firsts
  <2>5. flight' = flight \cup {f}
    BY <2>2, <2>3 DEF Launch
  <2> QED BY <1>1, <2>2, <2>4, <2>5, LaunchKeeps
<1>9. ASSUME NEW t \in ticket, t.kind = "challenge", NEW p \in Proofs(t.about.account),
             TotpVerify(t, p)
      PROVE  SecondInv'
  <2> DEFINE a == t.about.account
  <2>1. t.about \in Flights /\ a \in Accounts
    BY <1>9 DEF DoorType, DoorsUnderWay, Tickets, Flights
  <2>2. totp' = [totp EXCEPT ![a] = Consumed(a, p)]
        /\ Consumed(a, p).state = totp[a].state /\ Consumed(a, p).secret = totp[a].secret
    BY <1>9, <2>1, ProofsAre DEF TotpVerify
  <2>3. \A b \in Accounts : /\ totp'[b].state = totp[b].state /\ totp'[b].secret = totp[b].secret
                            /\ TotpMoves(b)
    <3> HIDE DEF a
    <3> QED BY <2>1, <2>2 DEF TotpMoves, DoorType, DoorRows
  <2>4. PICK f : f = [t.about EXCEPT !.second = TRUE, !.step = "opens"]
    OBVIOUS
  <2>5. f.account = a /\ f.secured = t.about.secured /\ f.second
    BY <2>1, <2>4 DEF Flights
  <2>6. SecretPast(t.about)
    BY <1>9 DEF SecondInv
  <2>7. SecretPast(f)' /\ CodeGiven(f)'
    BY <2>1, <2>3, <2>5, <2>6 DEF SecretPast, CodeGiven
  <2>8. flight' = flight \cup {f} /\ ticket' \subseteq ticket /\ session' = session
    BY <1>9, <2>4 DEF TotpVerify, Launch
  <2> QED BY <2>3, <2>7, <2>8, LaunchKeeps
<1>10. ASSUME NEW t \in ticket, NEW q \in request, PendingLink(q, t) PROVE SecondInv'
  BY <1>1, <1>10, SecondKept DEF PendingLink
<1> QED BY <1>2, <1>3, <1>4, <1>5, <1>6, <1>7, <1>8, <1>9, <1>10 DEF SignIn

LEMMA SecondManage ==
    ASSUME DoorType, SecondInv, Manage \/ Recover
    PROVE  SecondInv'
<1>1. \A a \in Accounts : totp' = totp => TotpMoves(a)
  BY DEF TotpMoves
<1>2. ASSUME NEW q \in request PROVE q.account \in Accounts
  BY DEF DoorType, DoorsUnderWay, Resolved
<1>3. ASSUME NEW a \in Accounts, totp' = WithoutTotp(a),
             flight' = flight, ticket' \subseteq ticket, session' \subseteq session
      PROVE  SecondInv'
  <2>1. \A b \in Accounts : TotpMoves(b)
    BY <1>3, WithoutTotpIs DEF TotpMoves
  <2> QED BY <1>3, <2>1, SecondKept
<1>4. ASSUME totp' = totp, flight' = flight, ticket' = ticket, session' \subseteq session
      PROVE  SecondInv'
  BY <1>1, <1>4, SecondKept
<1>5. ASSUME NEW s \in session, Require(s) \/ Logout(s) PROVE SecondInv'
  BY <1>4, <1>5 DEF Require, Logout, rows
<1>6. ASSUME NEW q \in request, EndRequest(q) \/ LogoutAll(q) \/ SetPassword(q)
      PROVE  SecondInv'
  <2>1. session' \subseteq session /\ UNCHANGED <<totp, flight, ticket>>
    BY <1>6 DEF EndRequest, LogoutAll, SetPassword, rows
  <2> QED BY <1>4, <2>1
<1>7. ASSUME NEW q \in request, TotpEnroll(q) PROVE SecondInv'
  <2> DEFINE a == q.account
  <2>1. totp' = [totp EXCEPT ![a] = [totp[a] EXCEPT !.state = "pending",
                                                    !.secret = totp[a].secret + 1, !.last = None]]
        /\ UNCHANGED <<flight, ticket, session>>
    BY <1>7 DEF TotpEnroll
  <2>2. a \in Accounts /\ totp \in [Accounts -> TotpRows] /\ totp[a] \in TotpRows
    BY <1>2 DEF DoorType, DoorRows
  <2> HIDE DEF a
  <2>3. totp'[a].state = "pending" /\ totp'[a].secret = totp[a].secret + 1
        /\ \A b \in Accounts \ {a} : totp'[b] = totp[b]
    BY <2>1, <2>2 DEF TotpRows
  <2>4. \A b \in Accounts : TotpMoves(b)
    BY <2>3 DEF TotpMoves
  <2> QED BY <2>1, <2>4, SecondKept
<1>8. ASSUME NEW q \in request, NEW p \in Proofs(q.account), TotpActivate(q, p)
      PROVE  SecondInv'
  <2> DEFINE a == q.account
             row == Consumed(a, p)
  <2>1. a \in Accounts /\ row \in TotpRows /\ row.secret = totp[a].secret
        /\ totp \in [Accounts -> TotpRows]
    BY <1>2, ProofsAre DEF DoorType, DoorRows
  <2>2. totp' = [totp EXCEPT ![a] = [row EXCEPT !.state = "active", !.recovery = TRUE]]
        /\ totp[a].state = "pending" /\ UNCHANGED <<flight, ticket, session>>
    BY <1>8 DEF TotpActivate
  <2> HIDE DEF a, row
  <2>3. totp'[a].secret = totp[a].secret /\ \A b \in Accounts \ {a} : totp'[b] = totp[b]
    BY <2>1, <2>2 DEF TotpRows
  <2>4. \A b \in Accounts : TotpMoves(b)
    BY <2>2, <2>3 DEF TotpMoves
  <2> QED BY <2>2, <2>4, SecondKept
<1>9. ASSUME NEW q \in request, NEW p \in Proofs(q.account), TotpDisable(q, p)
      PROVE  SecondInv'
  BY <1>2, <1>3, <1>9 DEF TotpDisable
<1>10. ASSUME NEW q \in request, DeleteAccount(q) PROVE SecondInv'
  <2>1. totp' = WithoutTotp(q.account) /\ flight' = flight
        /\ ticket' \subseteq ticket /\ session' \subseteq session
    BY <1>10 DEF DeleteAccount, Erase
  <2> QED BY <1>2, <1>3, <2>1
<1>11. ASSUME NEW a, RemovePassword(a) \/ \E i \in Identities : RemoveProvider(a, Provider(i))
       PROVE  SecondInv'
  BY <1>4, <1>11 DEF RemovePassword, RemoveProvider
<1>12. ASSUME NEW a \in Accounts, AdminDeleteAccount(a) PROVE SecondInv'
  <2>1. totp' = WithoutTotp(a) /\ flight' = flight
        /\ ticket' \subseteq ticket /\ session' \subseteq session
    BY <1>12 DEF AdminDeleteAccount, Erase
  <2> QED BY <1>3, <2>1
<1>13. ASSUME NEW a \in Accounts, AdminDisableTotp(a) PROVE SecondInv'
  BY <1>3, <1>13 DEF AdminDisableTotp
<1>14. CASE Manage
  BY <1>5, <1>6, <1>7, <1>8, <1>9, <1>10, <1>11, <1>14 DEF Manage
<1>15. CASE Recover
  BY <1>11, <1>12, <1>13, <1>15 DEF Recover
<1> QED BY <1>14, <1>15

\* A secret that was active when a mailed link or a password was accepted, and still is,
\* was asked for: no order of sign-ins, enrolments, activations, removals and deletions
\* lets such a sign-in through without a code.
THEOREM SecondFactorAlwaysHolds == Spec => []SecondFactorHolds
<1>1. Init => SecondInv
  BY DEF Init, SecondInv
<1>2. DoorType /\ SecondInv /\ [Next]_vars => SecondInv'
  <2> SUFFICES ASSUME DoorType, SecondInv, [Next]_vars PROVE SecondInv'
    OBVIOUS
  <2>1. CASE Tick \/ UNCHANGED vars
    BY <2>1 DEF Tick, vars, rows, SecondInv, SecretPast, CodeGiven, Active
  <2> QED BY <2>1, SecondSignIn, SecondManage DEF Next
<1>3. DoorType /\ SecondInv => SecondFactorHolds
  <2> SUFFICES ASSUME DoorType, SecondInv, NEW s \in session, s.first \in {"password", "email"},
                      s.secured # 0, Secured(s.account) = s.secured
               PROVE  s.second
    BY DEF SecondFactorHolds
  <2>1. CodeGiven(s) /\ s \in Sessions
    BY DEF SecondInv, DoorType, DoorsUnderWay
  <2> QED BY <2>1 DEF CodeGiven, Secured, Sessions
<1>4. DoorType /\ [Next]_vars => DoorType'
  BY DoorTypeStep
<1> QED BY <1>1, <1>2, <1>3, <1>4, DoorTypeInit, PTL DEF Spec
-----------------------------------------------------------------------------
(* Claiming a radio: what every variable holds.                              *)

Scans == [Claim!Radios -> Nat \cup {None}] \cup {None}
Windows == [name : Names \cup {None}, code : Codes \cup {None}, baseline : Scans,
            until : Nat, scanned : Nat]
Calls == [does : {"start", "status", "accept"}, proc : Procs, player : Players, row : Windows,
          radio : Claim!Radios \cup {None}, from : Claim!Places \cup Tasks, scan : Scans, at : Nat]
TaskRows == [is : {"live", "cancelled", "done"}, proc : Procs, player : Players, until : Nat]

MeshType ==
    /\ time \in Nat
    /\ heard \in [Connectors -> [McRadios -> Nat]]
    /\ \A c \in Connectors, r \in McRadios : heard[c][r] <= time
    /\ sent \in [Codes -> SUBSET MtRadios]
ClaimsType ==
    /\ issued \in [Codes -> Players \cup {None}]
    /\ mc \in [Players -> Windows \cup {None}] /\ mt \in [Players -> Windows \cup {None}]
    /\ \A p \in Players : /\ mc[p] # None => mc[p].code = None
                          /\ mt[p] # None => mt[p].code # None
    /\ calls \subseteq Calls
    /\ \A c \in calls : c.does = "start" => c.row.code = None
    /\ DOMAIN bound = Claim!Radios
    /\ proven \in [Players -> SUBSET Claim!Radios]
TasksType ==
    /\ task \in [Tasks -> TaskRows \cup {None}]
    /\ watcher \in [Procs -> [Players -> Tasks \cup {None}]]
    /\ \A w \in Procs, p \in Players :
        LET t == watcher[w][p] IN
        t # None => task[t] # None /\ task[t].proc = w /\ task[t].player = p

\* What a live watcher is registered as.
LiveAreRegistered ==
    \A t \in Tasks : task[t] # None /\ task[t].is = "live"
                        => watcher[task[t].proc][task[t].player] = t

WatchersInv == TasksType /\ LiveAreRegistered

LEMMA CancelledIs ==
    ASSUME Claim!ClaimSets, WatchersInv, NEW w \in Procs, NEW p \in Players
    PROVE  /\ Claim!Cancelled(w, p) \in [Tasks -> TaskRows \cup {None}]
           /\ \A t \in Tasks :
                /\ Claim!Cancelled(w, p)[t] = None <=> task[t] = None
                /\ Claim!Cancelled(w, p)[t].proc = task[t].proc
                /\ Claim!Cancelled(w, p)[t].player = task[t].player
                /\ task[t] # None /\ Claim!Cancelled(w, p)[t].is = "live"
                     => task[t].is = "live" /\ ~(task[t].proc = w /\ task[t].player = p)
<1> DEFINE g == watcher[w][p]
<1>1. g \in Tasks \cup {None} /\ task \in [Tasks -> TaskRows \cup {None}]
  BY DEF WatchersInv, TasksType
<1>2. \A t \in Tasks : task[t] # None /\ task[t].is = "live" /\ task[t].proc = w /\ task[t].player = p
        => g = t /\ t # None
  BY DEF WatchersInv, LiveAreRegistered, Claim!ClaimSets
<1>3. CASE g # None /\ task[g].is = "live"
  <2>1. Claim!Cancelled(w, p) = [task EXCEPT ![g].is = "cancelled"] /\ g \in Tasks
    BY <1>1, <1>3 DEF Claim!Cancelled
  <2>2. task[g] \in TaskRows
    BY <1>1, <1>3, <2>1 DEF WatchersInv, TasksType
  <2>3. Claim!Cancelled(w, p) = [task EXCEPT ![g] = [task[g] EXCEPT !.is = "cancelled"]]
    BY <2>1
  <2>4. DEFINE row == [task[g] EXCEPT !.is = "cancelled"]
  <2>5. row \in TaskRows /\ row.is = "cancelled" /\ row.proc = task[g].proc /\ row.player = task[g].player
    BY <2>2 DEF TaskRows
  <2>6. row # None
    BY <2>5 DEF TaskRows, Claim!ClaimSets
  <2>7. task[g] # None
    BY <2>2 DEF TaskRows, Claim!ClaimSets
  <2> HIDE DEF g, row
  <2> QED BY <1>1, <1>2, <2>1, <2>3, <2>5, <2>6, <2>7 DEF row
<1>4. CASE ~(g # None /\ task[g].is = "live")
  <2>1. Claim!Cancelled(w, p) = task
    BY <1>4 DEF Claim!Cancelled
  <2> QED BY <1>1, <1>2, <1>4, <2>1
<1> QED BY <1>3, <1>4

LEMMA WatchKeeps ==
    ASSUME Claim!ClaimSets, WatchersInv, NEW w \in Procs, NEW p \in Players, NEW until \in Nat,
           Claim!Watch(w, p, until)
    PROVE  WatchersInv'
<1> DEFINE f == Claim!Cancelled(w, p)
           row(t) == [is |-> "live", proc |-> w, player |-> p, until |-> until]
<1>1. PICK t \in Tasks : /\ task[t] = None
                         /\ task' = [f EXCEPT ![t] = row(t)]
                         /\ watcher' = [watcher EXCEPT ![w][p] = t]
  BY DEF Claim!Watch
<1>2. /\ f \in [Tasks -> TaskRows \cup {None}]
      /\ \A u \in Tasks :
            /\ f[u] = None <=> task[u] = None
            /\ f[u].proc = task[u].proc
            /\ f[u].player = task[u].player
            /\ task[u] # None /\ f[u].is = "live"
                 => task[u].is = "live" /\ ~(task[u].proc = w /\ task[u].player = p)
  BY CancelledIs
<1>3. row(t) \in TaskRows /\ row(t) # None /\ row(t).proc = w /\ row(t).player = p
  BY DEF TaskRows, Claim!ClaimSets
<1>4. t # None
  BY DEF Claim!ClaimSets
<1>5. watcher \in [Procs -> [Players -> Tasks \cup {None}]]
  BY DEF WatchersInv, TasksType
<1>6. /\ watcher' \in [Procs -> [Players -> Tasks \cup {None}]]
      /\ watcher'[w][p] = t
      /\ \A w2 \in Procs, p2 \in Players : ~(w2 = w /\ p2 = p) => watcher'[w2][p2] = watcher[w2][p2]
  BY <1>1, <1>5
<1> HIDE DEF f, row
<1>7. /\ task' \in [Tasks -> TaskRows \cup {None}] /\ task'[t] = row(t)
      /\ \A u \in Tasks : u # t => task'[u] = f[u]
  BY <1>1, <1>2, <1>3
<1>8. ASSUME NEW w2 \in Procs, NEW p2 \in Players, watcher'[w2][p2] # None
      PROVE  LET u == watcher'[w2][p2] IN
             task'[u] # None /\ task'[u].proc = w2 /\ task'[u].player = p2
  <2>1. CASE w2 = w /\ p2 = p
    BY <1>3, <1>6, <1>7, <2>1
  <2>2. CASE ~(w2 = w /\ p2 = p)
    <3> DEFINE u == watcher[w2][p2]
    <3>1. watcher'[w2][p2] = u /\ u \in Tasks /\ task[u] # None /\ task[u].proc = w2 /\ task[u].player = p2
      BY <1>5, <1>6, <1>8, <2>2 DEF WatchersInv, TasksType
    <3>2. u # t
      BY <1>1, <3>1
    <3> QED BY <1>2, <1>7, <3>1, <3>2
  <2> QED BY <2>1, <2>2
<1>9. ASSUME NEW u \in Tasks, task'[u] # None, task'[u].is = "live"
      PROVE  watcher'[task'[u].proc][task'[u].player] = u
  <2>1. CASE u = t
    BY <1>3, <1>6, <1>7, <2>1
  <2>2. CASE u # t
    <3>1. task'[u] = f[u] /\ task[u] # None /\ task[u].is = "live"
          /\ ~(task[u].proc = w /\ task[u].player = p)
      BY <1>2, <1>7, <1>9, <2>2
    <3>2. watcher[task[u].proc][task[u].player] = u /\ task[u] \in TaskRows
      BY <3>1 DEF WatchersInv, LiveAreRegistered, TasksType
    <3>3. task[u].proc \in Procs /\ task[u].player \in Players
      BY <3>2 DEF TaskRows
    <3> QED BY <1>2, <1>6, <3>1, <3>2, <3>3
  <2> QED BY <2>1, <2>2
<1> QED BY <1>6, <1>7, <1>8, <1>9 DEF WatchersInv, TasksType, LiveAreRegistered

LEMMA CancelKeeps ==
    ASSUME Claim!ClaimSets, WatchersInv, NEW w \in Procs, NEW p \in Players, Claim!CancelWatch(w, p)
    PROVE  WatchersInv'
<1> DEFINE f == Claim!Cancelled(w, p)
<1>1. task' = f /\ watcher' = watcher
  BY DEF Claim!CancelWatch
<1>2. /\ f \in [Tasks -> TaskRows \cup {None}]
      /\ \A u \in Tasks :
            /\ f[u] = None <=> task[u] = None
            /\ f[u].proc = task[u].proc
            /\ f[u].player = task[u].player
            /\ task[u] # None /\ f[u].is = "live" => task[u].is = "live"
  BY CancelledIs
<1> HIDE DEF f
<1>3. TasksType'
  BY <1>1, <1>2 DEF WatchersInv, TasksType
<1>4. LiveAreRegistered'
  BY <1>1, <1>2 DEF WatchersInv, LiveAreRegistered
<1> QED BY <1>3, <1>4 DEF WatchersInv

\* A watcher ends, or a cancelled one stops.
Ended(t) == task[t] # None /\ task' = [task EXCEPT ![t].is = "done"] /\ UNCHANGED watcher

LEMMA EndKeeps ==
    ASSUME Claim!ClaimSets, WatchersInv, NEW t \in Tasks, Ended(t)
    PROVE  WatchersInv'
<1> DEFINE row == [task[t] EXCEPT !.is = "done"]
<1>1. task \in [Tasks -> TaskRows \cup {None}] /\ task[t] \in TaskRows
  BY DEF WatchersInv, TasksType, Ended
<1>2. row \in TaskRows /\ row.is = "done" /\ row.proc = task[t].proc /\ row.player = task[t].player
  BY <1>1 DEF TaskRows
<1>3. row # None
  BY <1>2 DEF TaskRows, Claim!ClaimSets
<1>4. task' = [task EXCEPT ![t] = row]
  BY DEF Ended
<1> HIDE DEF row
<1>5. /\ task' \in [Tasks -> TaskRows \cup {None}] /\ task'[t] = row
      /\ \A u \in Tasks : u # t => task'[u] = task[u]
  BY <1>1, <1>2, <1>4
<1>6. /\ watcher' = watcher /\ task[t] # None
      /\ \A u \in Tasks : task'[u].proc = task[u].proc /\ task'[u].player = task[u].player
  BY <1>2, <1>5 DEF Ended
<1> QED BY <1>2, <1>3, <1>5, <1>6 DEF WatchersInv, TasksType, LiveAreRegistered

LEMMA CleanupKeeps ==
    ASSUME Claim!ClaimSets, WatchersInv, NEW t \in Tasks, Claim!Cleanup(t)
    PROVE  WatchersInv'
<1> DEFINE w == task[t].proc  p == task[t].player
<1>1. /\ task \in [Tasks -> TaskRows \cup {None}]
      /\ watcher \in [Procs -> [Players -> Tasks \cup {None}]]
      /\ task[t] # None /\ task[t].is = "done" /\ task' = [task EXCEPT ![t] = None]
      /\ watcher' = Claim!Unregistered(t)
  BY DEF WatchersInv, TasksType, Claim!Cleanup
<1>2. w \in Procs /\ p \in Players
  BY <1>1 DEF TaskRows
<1>3. /\ watcher' \in [Procs -> [Players -> Tasks \cup {None}]]
      /\ \A w2 \in Procs, p2 \in Players :
            watcher'[w2][p2] = IF w2 = w /\ p2 = p /\ watcher[w][p] = t THEN None ELSE watcher[w2][p2]
  <2>1. CASE watcher[w][p] = t
    <3>1. watcher' = [watcher EXCEPT ![w][p] = None]
      BY <1>1, <2>1 DEF Claim!Unregistered
    <3> HIDE DEF w, p
    <3> QED BY <1>1, <1>2, <2>1, <3>1
  <2>2. CASE watcher[w][p] # t
    BY <1>1, <2>2 DEF Claim!Unregistered
  <2> QED BY <2>1, <2>2
<1>4. \A u \in Tasks : task'[u] = IF u = t THEN None ELSE task[u]
  BY <1>1
<1>5. task' \in [Tasks -> TaskRows \cup {None}]
  BY <1>1
<1>6. ASSUME NEW w2 \in Procs, NEW p2 \in Players, watcher'[w2][p2] # None
      PROVE  LET u == watcher'[w2][p2] IN
             task'[u] # None /\ task'[u].proc = w2 /\ task'[u].player = p2
  <2> DEFINE u == watcher[w2][p2]
  <2>1. watcher'[w2][p2] = u /\ u \in Tasks /\ task[u] # None /\ task[u].proc = w2 /\ task[u].player = p2
    BY <1>1, <1>3, <1>6 DEF WatchersInv, TasksType
  <2>2. u # t
    BY <1>3, <1>6, <2>1
  <2> QED BY <1>4, <2>1, <2>2
<1>7. ASSUME NEW u \in Tasks, task'[u] # None, task'[u].is = "live"
      PROVE  watcher'[task'[u].proc][task'[u].player] = u
  <2>1. u # t /\ task'[u] = task[u]
    BY <1>4, <1>7
  <2>2. watcher[task[u].proc][task[u].player] = u /\ task[u] \in TaskRows
    BY <1>1, <1>7, <2>1 DEF WatchersInv, LiveAreRegistered
  <2>3. task[u].proc \in Procs /\ task[u].player \in Players
    BY <2>2 DEF TaskRows
  <2> HIDE DEF w, p
  <2> QED BY <1>3, <2>1, <2>2, <2>3
<1> QED BY <1>3, <1>5, <1>6, <1>7 DEF WatchersInv, TasksType, LiveAreRegistered

LEMMA RestartKeeps ==
    ASSUME Claim!ClaimSets, WatchersInv, NEW w \in Procs, Claim!Restart(w)
    PROVE  WatchersInv'
<1>1. /\ task \in [Tasks -> TaskRows \cup {None}]
      /\ watcher \in [Procs -> [Players -> Tasks \cup {None}]]
      /\ task' = [t \in Tasks |-> IF task[t] # None /\ task[t].proc = w THEN None ELSE task[t]]
      /\ watcher' = [watcher EXCEPT ![w] = [p \in Players |-> None]]
  BY DEF WatchersInv, TasksType, Claim!Restart
<1>2. /\ task' \in [Tasks -> TaskRows \cup {None}]
      /\ watcher' \in [Procs -> [Players -> Tasks \cup {None}]]
  BY <1>1
<1>3. \A w2 \in Procs, p2 \in Players :
        watcher'[w2][p2] = IF w2 = w THEN None ELSE watcher[w2][p2]
  BY <1>1
<1>4. ASSUME NEW w2 \in Procs, NEW p2 \in Players, watcher'[w2][p2] # None
      PROVE  LET u == watcher'[w2][p2] IN
             task'[u] # None /\ task'[u].proc = w2 /\ task'[u].player = p2
  <2>1. watcher'[w2][p2] = watcher[w2][p2] /\ w2 # w
    BY <1>3, <1>4
  <2> QED BY <1>1, <1>4, <2>1 DEF WatchersInv, TasksType
<1>5. ASSUME NEW u \in Tasks, task'[u] # None, task'[u].is = "live"
      PROVE  watcher'[task'[u].proc][task'[u].player] = u
  <2>1. task'[u] = task[u] /\ task[u].proc # w /\ task[u] \in TaskRows
    BY <1>1, <1>5
  <2>2. watcher[task[u].proc][task[u].player] = u /\ task[u].proc \in Procs /\ task[u].player \in Players
    BY <1>5, <2>1 DEF WatchersInv, LiveAreRegistered, TaskRows
  <2> QED BY <1>3, <2>1, <2>2
<1> QED BY <1>2, <1>4, <1>5 DEF WatchersInv, TasksType, LiveAreRegistered

\* What one operation does to watchers.
TaskMoves ==
    \/ UNCHANGED <<task, watcher>>
    \/ \E w \in Procs, p \in Players :
         \/ Claim!CancelWatch(w, p)
         \/ \E until \in Nat : Claim!Watch(w, p, until)
    \/ \E t \in Tasks : Ended(t) \/ Claim!Cleanup(t)
    \/ \E w \in Procs : Claim!Restart(w)

LEMMA MovesKeepWatchers ==
    ASSUME Claim!ClaimSets, WatchersInv, TaskMoves
    PROVE  WatchersInv'
<1>1. CASE UNCHANGED <<task, watcher>>
  BY <1>1 DEF WatchersInv, TasksType, LiveAreRegistered
<1>2. ASSUME NEW w \in Procs, NEW p \in Players, Claim!CancelWatch(w, p) PROVE WatchersInv'
  BY <1>2, CancelKeeps
<1>3. ASSUME NEW w \in Procs, NEW p \in Players, NEW until \in Nat, Claim!Watch(w, p, until)
      PROVE WatchersInv'
  BY <1>3, WatchKeeps
<1>4. ASSUME NEW t \in Tasks, Ended(t) PROVE WatchersInv'
  BY <1>4, EndKeeps
<1>5. ASSUME NEW t \in Tasks, Claim!Cleanup(t) PROVE WatchersInv'
  BY <1>5, CleanupKeeps
<1>6. ASSUME NEW w \in Procs, Claim!Restart(w) PROVE WatchersInv'
  BY <1>6, RestartKeeps
<1> QED BY <1>1, <1>2, <1>3, <1>4, <1>5, <1>6 DEF TaskMoves

ClaimType == MeshType /\ ClaimsType /\ WatchersInv

LEMMA RowIs ==
    ASSUME ClaimType, NEW p \in Players, Claim!RowOf(p) # None
    PROVE  Claim!RowOf(p) \in Windows
BY DEF ClaimType, ClaimsType, Claim!RowOf

LEMMA RouteMoves ==
    ASSUME Claim!ClaimSets, ClaimType, NEW w \in Procs, NEW p \in Players, Claim!Route(w, p)
    PROVE  TaskMoves
<1>1. ASSUME NEW from, NEW n, Claim!StartMc(w, p, n, from) PROVE TaskMoves
  BY <1>1 DEF Claim!StartMc, Claim!taskVars, TaskMoves
<1>2. ASSUME NEW from, NEW k, Claim!OpenMt(w, p, k, from) PROVE TaskMoves
  <2>1. time + Window \in Nat
    BY DEF ClaimType, MeshType, Claim!ClaimSets
  <2> QED BY <1>2, <2>1 DEF Claim!OpenMt, Claim!AndWatch, Claim!taskVars, TaskMoves
<1>3. ASSUME NEW from, NEW r, Claim!Accept(w, p, r, from) PROVE TaskMoves
  BY <1>3 DEF Claim!Accept, Claim!taskVars, TaskMoves
<1>4. ASSUME NEW from, Claim!Cancel(w, p, from) \/ Claim!AcceptTooLate(w, p, from) PROVE TaskMoves
  BY <1>4 DEF Claim!Cancel, Claim!AcceptTooLate, Claim!AndCancel, Claim!taskVars, TaskMoves
<1>5. CASE Claim!Expire(p)
  BY <1>5 DEF Claim!Expire, Claim!taskVars, TaskMoves
<1>6. CASE Claim!Status(w, p, "page")
  BY <1>6 DEF Claim!Status, Claim!taskVars, TaskMoves
<1>7. CASE Claim!ClickRefused(w, p)
  BY <1>7 DEF Claim!ClickRefused, TaskMoves
<1> QED BY <1>1, <1>2, <1>3, <1>4, <1>5, <1>6, <1>7 DEF Claim!Route

LEMMA AnswerMoves ==
    ASSUME Claim!ClaimSets, ClaimType, NEW c \in calls, Claim!Answer(c)
    PROVE  TaskMoves
<1>1. c \in Calls
  BY DEF ClaimType, ClaimsType
<1>2. c.proc \in Procs /\ c.player \in Players /\ c.row.until \in Nat
  BY <1>1 DEF Calls, Windows
<1>3. ASSUME NEW cs, Claim!Scan(c, cs) PROVE TaskMoves
  BY <1>3 DEF Claim!Scan, Claim!taskVars, TaskMoves
<1>4. CASE Claim!OpenMc(c)
  BY <1>2, <1>4 DEF Claim!OpenMc, Claim!AndWatch, Claim!taskVars, TaskMoves
<1>5. CASE Claim!StatusScanned(c)
  BY <1>5 DEF Claim!StatusScanned, Claim!taskVars, TaskMoves
<1>6. CASE Claim!Refuse(c)
  BY <1>2, <1>6 DEF Claim!Refuse, Claim!AndCancel, Claim!taskVars, TaskMoves
<1>7. CASE Claim!Bind(c)
  BY <1>2, <1>7 DEF Claim!Bind, Claim!AndCancel, Claim!taskVars, TaskMoves
<1> QED BY <1>3, <1>4, <1>5, <1>6, <1>7 DEF Claim!Answer

LEMMA AllMoves ==
    ASSUME Claim!ClaimSets, ClaimType, [Claim!Next]_Claim!claimVars
    PROVE  TaskMoves
<1>1. CASE UNCHANGED Claim!claimVars
  BY <1>1 DEF Claim!claimVars, Claim!taskVars, TaskMoves
<1>2. CASE Claim!Mesh
  BY <1>2 DEF Claim!Mesh, Claim!Tick, Claim!Advert, Claim!SendCode, Claim!taskVars, TaskMoves
<1>3. ASSUME NEW w \in Procs, Claim!Restart(w) PROVE TaskMoves
  BY <1>3 DEF TaskMoves
<1>4. ASSUME NEW w \in Procs, NEW p \in Claimants, Claim!Route(w, p) PROVE TaskMoves
  BY <1>4, RouteMoves DEF Claim!ClaimSets
<1>5. ASSUME NEW c \in calls, Claim!Answer(c) PROVE TaskMoves
  BY <1>5, AnswerMoves
<1>6. ASSUME NEW t \in Tasks, Claim!Watcher(t) PROVE TaskMoves
  <2>1. CASE Claim!WatchPolls(t)
    BY <2>1 DEF Claim!WatchPolls, Claim!Status, Claim!taskVars, TaskMoves
  <2>2. CASE Claim!WatchEnds(t)
    BY <2>2 DEF Claim!WatchEnds, Ended, TaskMoves
  <2>3. CASE Claim!WatchStops(t)
    BY <2>3 DEF Claim!WatchStops, Ended, TaskMoves
  <2>4. CASE Claim!Cleanup(t)
    BY <2>4 DEF TaskMoves
  <2> QED BY <1>6, <2>1, <2>2, <2>3, <2>4 DEF Claim!Watcher
<1>7. ASSUME NEW p \in Players, NEW r \in Claim!Radios,
             Claim!RemoveNode(p, r) \/ \E keyed \in BOOLEAN : Claim!AddNode(p, r, keyed)
      PROVE  TaskMoves
  BY <1>7 DEF Claim!RemoveNode, Claim!AddNode, Claim!taskVars, TaskMoves
<1> QED BY <1>1, <1>2, <1>3, <1>4, <1>5, <1>6, <1>7 DEF Claim!Next

LEMMA LatestOf ==
    ASSUME NEW S, NEW top \in Nat, S \subseteq 0..top, S # {}
    PROVE  \E m \in S : \A x \in S : x <= m
<1> DEFINE back == {top - x : x \in S}
<1>1. back \subseteq Nat /\ back # {}
  <2>1. \A x \in S : top - x \in Nat
    OBVIOUS
  <2> QED BY <2>1
<1>2. PICK m \in back : \A x \in back : <<x, m>> \notin OpToRel(<, Nat)
  BY <1>1, WFMin, NatLessThanWellFounded
<1> HIDE DEF back
<1>3. PICK n \in S : m = top - n
  BY <1>2 DEF back
<1>4. ASSUME NEW x \in S PROVE x <= n
  <2>1. m \in Nat /\ top - x \in Nat /\ top - x \in back
    <3>1. top - x \in back
      BY DEF back
    <3> QED BY <1>1, <1>2, <3>1
  <2>2. top - x < m => <<top - x, m>> \in OpToRel(<, Nat)
    BY <2>1, Zenon DEF OpToRel
  <2>3. ~(top - x < m)
    BY <1>2, <2>1, <2>2, Zenon
  <2> QED BY <1>3, <2>1, <2>3
<1> QED BY <1>4

LEMMA NewestIs ==
    ASSUME MeshType, NEW cs \in SUBSET Connectors, cs # {}, NEW r \in McRadios
    PROVE  /\ Claim!Newest(cs, r) \in {heard[c][r] : c \in cs}
           /\ \A c \in cs : heard[c][r] <= Claim!Newest(cs, r)
           /\ Claim!Newest(cs, r) \in Nat
<1> DEFINE S == {heard[c][r] : c \in cs}
<1>1. S \subseteq 0..time /\ S # {} /\ time \in Nat
  BY DEF MeshType
<1> HIDE DEF S
<1>2. PICK m \in S : \A x \in S : x <= m
  BY <1>1, LatestOf
<1> USE DEF S
<1>3. \A c \in cs : heard[c][r] <= m
  BY <1>2
<1>4. Claim!Newest(cs, r) \in S /\ \A c \in cs : heard[c][r] <= Claim!Newest(cs, r)
  BY <1>2, <1>3 DEF Claim!Newest
<1> QED BY <1>1, <1>4

LEMMA ScansAre ==
    ASSUME MeshType, NEW cs \in SUBSET Connectors, NEW n, NEW k
    PROVE  Claim!McScan(n, cs) \in [Claim!Radios -> Nat \cup {None}]
           /\ Claim!MtScan(k, cs) \in [Claim!Radios -> Nat \cup {None}]
<1>1. ASSUME NEW r \in McRadios, NEW c \in cs PROVE Claim!Newest(cs, r) \in Nat
  BY NewestIs
<1> QED BY <1>1 DEF Claim!McScan, Claim!MtScan

\* The routes and the answers, each with what it writes in the end.
LEMMA CallTyped ==
    ASSUME NEW does \in {"start", "status", "accept"}, NEW w \in Procs, NEW p \in Players,
           NEW row \in Windows, NEW r \in Claim!Radios \cup {None},
           NEW from \in Claim!Places \cup Tasks, NEW scan \in Scans, time \in Nat
    PROVE  Claim!Call(does, w, p, row, r, from, scan) \in Calls
BY DEF Claim!Call, Calls

LEMMA RowTyped ==
    ASSUME NEW n \in Names \cup {None}, NEW k \in Codes \cup {None}, NEW b \in Scans,
           NEW u \in Nat
    PROVE  Claim!Row(n, k, b, u) \in Windows
BY DEF Claim!Row, Windows

LEMMA RouteTyped ==
    ASSUME Claim!ClaimSets, ClaimType, NEW w \in Procs, NEW p \in Players, Claim!Route(w, p),
           DOMAIN bound' = Claim!Radios, proven' \in [Players -> SUBSET Claim!Radios]
    PROVE  ClaimsType'
<1> USE DEF ClaimType
<1>0. ClaimsType /\ time \in Nat /\ time + Window \in Nat /\ None \in Scans
  BY DEF MeshType, Claim!ClaimSets, Scans
<1>1. ASSUME NEW from \in Claim!Places, NEW n \in Names, Claim!StartMc(w, p, n, from) PROVE ClaimsType'
  <2>1. Claim!Row(n, None, None, time + Window) \in Windows
    BY <1>0, RowTyped
  <2>2. Claim!Call("start", w, p, Claim!Row(n, None, None, time + Window), None, from, None) \in Calls
    BY <1>0, <2>1, CallTyped
  <2>3. Claim!Call("start", w, p, Claim!Row(n, None, None, time + Window), None, from, None).row.code = None
    BY DEF Claim!Call, Claim!Row
  <2> QED BY <1>0, <1>1, <2>2, <2>3 DEF Claim!StartMc, Claim!Begins, ClaimsType
<1>2. ASSUME NEW from \in Claim!Places, NEW k \in Codes, Claim!OpenMt(w, p, k, from) PROVE ClaimsType'
  <2>1. Claim!Row(None, k, None, time + Window) \in Windows
    BY <1>0, RowTyped
  <2>2. Claim!Row(None, k, None, time + Window).code # None
    BY DEF Claim!Row, Claim!ClaimSets
  <2> QED BY <1>0, <1>2, <2>1, <2>2 DEF Claim!OpenMt, ClaimsType
<1>3. ASSUME NEW from \in Claim!Places, NEW r \in Claim!Radios, Claim!Accept(w, p, r, from) PROVE ClaimsType'
  <2>1. Claim!RowOf(p) \in Windows
    BY <1>3, RowIs DEF Claim!Accept
  <2>2. Claim!Call("accept", w, p, Claim!RowOf(p), r, from, None) \in Calls
    BY <1>0, <2>1, CallTyped
  <2>3. Claim!Call("accept", w, p, Claim!RowOf(p), r, from, None).does = "accept"
    BY DEF Claim!Call
  <2> QED BY <1>0, <1>3, <2>2, <2>3 DEF Claim!Accept, Claim!Begins, ClaimsType
<1>4. ASSUME NEW from \in Claim!Places, Claim!Cancel(w, p, from) \/ Claim!AcceptTooLate(w, p, from)
      PROVE  ClaimsType'
  BY <1>0, <1>4 DEF Claim!Cancel, Claim!AcceptTooLate, Claim!Clear, ClaimsType
<1>5. CASE Claim!Expire(p)
  BY <1>0, <1>5 DEF Claim!Expire, ClaimsType
<1>6. CASE Claim!Status(w, p, "page")
  <2>1. Claim!RowOf(p) \in Windows
    BY <1>6, RowIs DEF Claim!Status
  <2>2. Claim!Call("status", w, p, Claim!RowOf(p), None, "page", None) \in Calls
    BY <1>0, <2>1, CallTyped DEF Claim!Places
  <2>3. Claim!Call("status", w, p, Claim!RowOf(p), None, "page", None).does = "status"
    BY DEF Claim!Call
  <2> QED BY <1>0, <1>6, <2>2, <2>3 DEF Claim!Status, Claim!Begins, ClaimsType
<1>7. CASE Claim!ClickRefused(w, p)
  BY <1>0, <1>7 DEF Claim!ClickRefused, ClaimsType
<1> QED BY <1>1, <1>2, <1>3, <1>4, <1>5, <1>6, <1>7 DEF Claim!Route

LEMMA AnswerTyped ==
    ASSUME Claim!ClaimSets, ClaimType, NEW c \in calls, Claim!Answer(c),
           DOMAIN bound' = Claim!Radios, proven' \in [Players -> SUBSET Claim!Radios]
    PROVE  ClaimsType'
<1> USE DEF ClaimType
<1>1. ClaimsType /\ c \in Calls /\ c.player \in Players /\ c.row \in Windows /\ c.at \in Nat
  BY DEF ClaimsType, Calls
<1>2. ASSUME NEW cs \in SUBSET Connectors, Claim!Scan(c, cs) PROVE ClaimsType'
  <2>1. Claim!McScan(c.row.name, cs) \in Scans /\ Claim!MtScan(c.row.code, cs) \in Scans
    BY ScansAre DEF Scans
  <2>2. \A s \in Scans : /\ [c EXCEPT !.scan = s] \in Calls
                         /\ [c EXCEPT !.scan = s].does = c.does
                         /\ [c EXCEPT !.scan = s].row = c.row
    BY <1>1 DEF Calls
  <2> QED BY <1>1, <1>2, <2>1, <2>2, ZenonT(40) DEF Claim!Scan, ClaimsType
<1>3. CASE Claim!OpenMc(c)
  <2>1. c.scan \in Scans
    BY <1>1 DEF Calls
  <2>2. [c.row EXCEPT !.baseline = c.scan] \in Windows
    BY <1>1, <2>1 DEF Windows
  <2>3. [c.row EXCEPT !.baseline = c.scan].code = None
    BY <1>1, <1>3 DEF Claim!OpenMc, ClaimsType, Windows
  <2> DEFINE row == [c.row EXCEPT !.baseline = c.scan]
  <2>4. /\ calls' \subseteq calls /\ issued' = issued
        /\ mc' = [mc EXCEPT ![c.player] = row]
        /\ mt' = [mt EXCEPT ![c.player] = None]
    BY <1>3 DEF Claim!OpenMc
  <2> HIDE DEF row
  <2>5. row \in Windows /\ row.code = None
    BY <2>2, <2>3 DEF row
  <2> QED BY <1>1, <2>4, <2>5 DEF ClaimsType
<1>4. CASE Claim!StatusScanned(c)
  <2>1. \A row \in Windows : [row EXCEPT !.scanned = c.at] \in Windows
                             /\ [row EXCEPT !.scanned = c.at].code = row.code
    BY <1>1 DEF Windows
  <2>2. /\ mc[c.player] # None => [mc[c.player] EXCEPT !.scanned = c.at] \in Windows
      /\ mt[c.player] # None => [mt[c.player] EXCEPT !.scanned = c.at] \in Windows
    BY <1>1, <2>1 DEF ClaimsType
  <2>3. /\ (mc' = Claim!Noted(mc, c) /\ mt' = mt) \/ (mt' = Claim!Noted(mt, c) /\ mc' = mc)
        /\ calls' \subseteq calls /\ issued' = issued
    BY <1>4 DEF Claim!StatusScanned
  <2>4. ASSUME NEW t, t \in [Players -> Windows \cup {None}]
        PROVE  /\ Claim!Noted(t, c) \in [Players -> Windows \cup {None}]
               /\ \A p \in Players : t[p] # None => Claim!Noted(t, c)[p].code = t[p].code
               /\ \A p \in Players : t[p] = None => Claim!Noted(t, c)[p] = None
    <3>1. CASE t[c.player] = None
      BY <2>4, <3>1 DEF Claim!Noted
    <3>2. CASE t[c.player] # None
      <4>1. t[c.player] \in Windows
        BY <1>1, <2>4, <3>2
      <4>2. Claim!Noted(t, c) = [t EXCEPT ![c.player] = [t[c.player] EXCEPT !.scanned = c.at]]
        BY <3>2 DEF Claim!Noted
      <4> QED BY <1>1, <2>1, <2>4, <3>2, <4>1, <4>2
    <3> QED BY <3>1, <3>2
  <2>5. mc \in [Players -> Windows \cup {None}] /\ mt \in [Players -> Windows \cup {None}]
    BY <1>1 DEF ClaimsType
  <2> QED BY <1>1, <2>3, <2>4, <2>5 DEF ClaimsType
<1>5. CASE Claim!Refuse(c)
  BY <1>1, <1>5 DEF Claim!Refuse, ClaimsType
<1>6. CASE Claim!Bind(c)
  BY <1>1, <1>6 DEF Claim!Bind, Claim!Clear, ClaimsType
<1> QED BY <1>2, <1>3, <1>4, <1>5, <1>6 DEF Claim!Answer

\* What a claim that goes on keeps over a step: what was proven, and a radio
\* that is heard, or that sends the player's code, counts.
Kept(p) ==
    /\ proven[p] \subseteq proven'[p]
    /\ \A c \in Connectors, r \in McRadios : heard'[c][r] = heard[c][r] \/ r \in proven'[p]
    /\ \A k \in Codes : issued[k] = p => issued'[k] = p /\ sent'[k] \subseteq sent[k] \cup proven'[p]

Observing ==
    /\ proven' \in [Players -> SUBSET Claim!Radios] /\ DOMAIN bound' = Claim!Radios
    /\ \A p \in Players : Claim!Claiming(p)' => Kept(p)

LEMMA ObserveKeeps ==
    ASSUME ClaimType, NEW more, more \in [Players -> SUBSET Claim!Radios], Claim!Observe(more),
           UNCHANGED <<heard, sent>>, DOMAIN bound' = DOMAIN bound,
           \A k \in Codes, p \in Players : issued[k] = p => issued'[k] = p
    PROVE  Observing
<1>1. proven \in [Players -> SUBSET Claim!Radios] /\ DOMAIN bound = Claim!Radios
  BY DEF ClaimType, ClaimsType
<1>2. \A p \in Players : proven'[p] = IF Claim!Claiming(p)' THEN proven[p] \cup more[p] ELSE {}
  BY DEF Claim!Observe
<1>3. proven' \in [Players -> SUBSET Claim!Radios]
  BY <1>1 DEF Claim!Observe
<1> QED BY <1>1, <1>2, <1>3 DEF Observing, Kept

LEMMA MeshObserved ==
    ASSUME Claim!ClaimSets, ClaimType, Claim!Mesh
    PROVE  Observing /\ MeshType'
<1> USE DEF ClaimType
<1>0. /\ proven \in [Players -> SUBSET Claim!Radios] /\ DOMAIN bound = Claim!Radios /\ MeshType
      /\ sent \in [Codes -> SUBSET MtRadios] /\ heard \in [Connectors -> [McRadios -> Nat]]
      /\ time \in Nat
  BY DEF ClaimsType, MeshType
<1>1. CASE Claim!Tick
  <2>1. /\ time' = time + 1 /\ heard' = heard /\ sent' = sent /\ proven' = proven
        /\ bound' = bound /\ issued' = issued
    BY <1>1 DEF Claim!Tick
  <2>2. MeshType'
    BY <1>0, <2>1 DEF MeshType
  <2> QED BY <1>0, <2>1, <2>2 DEF Observing, Kept
<1>2. ASSUME NEW r \in McRadios, NEW cs \in SUBSET Connectors, Claim!Advert(r, cs)
      PROVE  Observing /\ MeshType'
  <2>1. /\ \A c \in Connectors, q \in McRadios :
              heard'[c][q] = heard[c][q] \/ (heard'[c][q] = time /\ q = r)
        /\ heard' \in [Connectors -> [McRadios -> Nat]]
    <3>1. heard' = [c \in Connectors |-> IF c \in cs THEN [heard[c] EXCEPT ![r] = time] ELSE heard[c]]
      BY <1>2 DEF Claim!Advert
    <3> QED BY <1>0, <3>1
  <2>2. /\ time' = time /\ sent' = sent /\ issued' = issued /\ bound' = bound
        /\ Claim!Observe([p \in Players |-> {r}])
    BY <1>2 DEF Claim!Advert
  <2>3. /\ proven' \in [Players -> SUBSET Claim!Radios]
        /\ \A p \in Players : Claim!Claiming(p)' => proven'[p] = proven[p] \cup {r}
    BY <1>0, <2>2 DEF Claim!Observe, Claim!Radios
  <2>4. MeshType'
    BY <1>0, <2>1, <2>2 DEF MeshType
  <2> QED BY <1>0, <2>1, <2>2, <2>3, <2>4 DEF Observing, Kept
<1>3. ASSUME NEW r \in MtRadios, NEW k \in Codes, Claim!SendCode(r, k)
      PROVE  Observing /\ MeshType'
  <2>1. /\ sent' = [sent EXCEPT ![k] = @ \cup {r}] /\ time' = time /\ heard' = heard
        /\ issued' = issued /\ bound' = bound
        /\ Claim!Observe([p \in Players |-> IF p = issued[k] THEN {r} ELSE {}])
    BY <1>3 DEF Claim!SendCode, Claim!taskVars
  <2>2. /\ sent' \in [Codes -> SUBSET MtRadios]
        /\ \A j \in Codes : sent'[j] = IF j = k THEN sent[k] \cup {r} ELSE sent[j]
    BY <1>0, <2>1
  <2>3. /\ proven' \in [Players -> SUBSET Claim!Radios]
        /\ \A p \in Players : Claim!Claiming(p)' =>
              proven'[p] = proven[p] \cup (IF p = issued[k] THEN {r} ELSE {})
    BY <1>0, <2>1 DEF Claim!Observe, Claim!Radios
  <2>4. MeshType'
    BY <1>0, <2>1, <2>2 DEF MeshType
  <2> QED BY <1>0, <2>1, <2>2, <2>3, <2>4 DEF Observing, Kept
<1> QED BY <1>1, <1>2, <1>3 DEF Claim!Mesh

LEMMA NothingIs == Claim!Nothing \in [Players -> SUBSET Claim!Radios]
BY DEF Claim!Nothing

LEMMA RouteObserved ==
    ASSUME Claim!ClaimSets, ClaimType, NEW w, NEW p \in Players, Claim!Route(w, p)
    PROVE  Observing /\ UNCHANGED Claim!meshVars
<1>1. /\ UNCHANGED Claim!meshVars /\ bound' = bound
      /\ Claim!Observe(Claim!Nothing) \/ (UNCHANGED <<issued, mc, mt, bound, calls, proven>>)
  BY DEF Claim!Route, Claim!StartMc, Claim!OpenMt, Claim!Accept, Claim!Cancel,
     Claim!AcceptTooLate, Claim!Expire, Claim!Status, Claim!ClickRefused
<1>2. issued' = issued \/ \E k \in Codes : issued[k] = None /\ issued' = [issued EXCEPT ![k] = p]
  BY DEF Claim!Route, Claim!StartMc, Claim!OpenMt, Claim!Accept, Claim!Cancel,
     Claim!AcceptTooLate, Claim!Expire, Claim!Status, Claim!ClickRefused
<1>3. \A k \in Codes, q \in Players : issued[k] = q => issued'[k] = q
  BY <1>2 DEF Claim!ClaimSets, ClaimType, ClaimsType
<1>4. heard' = heard /\ sent' = sent
  BY <1>1 DEF Claim!meshVars
<1>5. CASE Claim!Observe(Claim!Nothing)
  BY <1>1, <1>3, <1>4, <1>5, NothingIs, ObserveKeeps
<1>6. CASE UNCHANGED <<issued, mc, mt, bound, calls, proven>>
  BY <1>1, <1>4, <1>6 DEF Observing, Kept, ClaimType, ClaimsType
<1> QED BY <1>1, <1>5, <1>6

LEMMA AnswerObserved ==
    ASSUME Claim!ClaimSets, ClaimType, NEW c \in calls, Claim!Answer(c)
    PROVE  Observing /\ UNCHANGED Claim!meshVars
<1>1. UNCHANGED Claim!meshVars /\ issued' = issued
  BY DEF Claim!Answer, Claim!Scan, Claim!OpenMc, Claim!StatusScanned, Claim!Refuse, Claim!Bind
<1>2. heard' = heard /\ sent' = sent
  BY <1>1 DEF Claim!meshVars
<1>3. ASSUME NEW cs, Claim!Scan(c, cs) PROVE Observing
  <2> DEFINE more == [p \in Players |-> IF c.does = "start" /\ p = c.player /\ cs # Connectors
                                        THEN Claim!Radios ELSE {}]
  <2>1. more \in [Players -> SUBSET Claim!Radios] /\ bound' = bound /\ Claim!Observe(more)
    BY <1>3 DEF Claim!Scan
  <2> HIDE DEF more
  <2> QED BY <1>1, <1>2, <2>1, ObserveKeeps
<1>4. CASE Claim!OpenMc(c) \/ Claim!StatusScanned(c) \/ Claim!Refuse(c)
  <2>1. bound' = bound /\ Claim!Observe(Claim!Nothing)
    BY <1>4 DEF Claim!OpenMc, Claim!StatusScanned, Claim!Refuse
  <2> QED BY <1>1, <1>2, <2>1, NothingIs, ObserveKeeps
<1>5. CASE Claim!Bind(c)
  <2>1. DOMAIN bound' = DOMAIN bound /\ Claim!Observe(Claim!Nothing)
    BY <1>5 DEF Claim!Bind
  <2> QED BY <1>1, <1>2, <2>1, NothingIs, ObserveKeeps
<1> QED BY <1>1, <1>3, <1>4, <1>5 DEF Claim!Answer

LEMMA RestObserved ==
    ASSUME Claim!ClaimSets, ClaimType,
           \/ \E w \in Procs : Claim!Restart(w)
           \/ \E t \in Tasks : Claim!Watcher(t)
           \/ \E p \in Players, r \in Claim!Radios :
                Claim!RemoveNode(p, r) \/ \E keyed \in BOOLEAN : Claim!AddNode(p, r, keyed)
           \/ UNCHANGED Claim!claimVars
    PROVE  Observing /\ UNCHANGED Claim!meshVars
<1>1. /\ UNCHANGED Claim!meshVars /\ DOMAIN bound' = DOMAIN bound /\ issued' = issued
      /\ Claim!Observe(Claim!Nothing) \/ proven' = proven
  BY DEF Claim!Restart, Claim!Watcher, Claim!WatchPolls, Claim!Status, Claim!WatchEnds,
     Claim!WatchStops, Claim!Cleanup, Claim!RemoveNode, Claim!AddNode, Claim!claimVars
<1>2. heard' = heard /\ sent' = sent
  BY <1>1 DEF Claim!meshVars
<1>3. CASE Claim!Observe(Claim!Nothing)
  BY <1>1, <1>2, <1>3, NothingIs, ObserveKeeps
<1>4. CASE proven' = proven
  BY <1>1, <1>2, <1>4 DEF Observing, Kept, ClaimType, ClaimsType
<1> QED BY <1>1, <1>3, <1>4

LEMMA RestTyped ==
    ASSUME Claim!ClaimSets, ClaimType, Observing,
           \/ \E w \in Procs : Claim!Restart(w)
           \/ \E t \in Tasks : Claim!Watcher(t)
           \/ \E p \in Players, r \in Claim!Radios :
                Claim!RemoveNode(p, r) \/ \E keyed \in BOOLEAN : Claim!AddNode(p, r, keyed)
           \/ Claim!Mesh
           \/ UNCHANGED Claim!claimVars
    PROVE  ClaimsType'
<1>1. ClaimsType /\ DOMAIN bound' = Claim!Radios /\ proven' \in [Players -> SUBSET Claim!Radios]
  BY DEF ClaimType, Observing
<1>2. CASE /\ UNCHANGED <<issued, mc, mt>>
           /\ calls' \subseteq calls
  BY <1>1, <1>2 DEF ClaimsType
<1>3. ASSUME NEW t \in Tasks, Claim!WatchPolls(t) PROVE ClaimsType'
  <2> DEFINE w == task[t].proc  p == task[t].player
  <2>1. w \in Procs /\ p \in Players /\ Claim!Status(w, p, t) /\ time \in Nat
    BY <1>3 DEF Claim!WatchPolls, ClaimType, WatchersInv, TasksType, TaskRows, MeshType
  <2>2. Claim!RowOf(p) \in Windows
    BY <2>1, RowIs DEF Claim!Status
  <2>3. Claim!Call("status", w, p, Claim!RowOf(p), None, t, None) \in Calls
    BY <2>1, <2>2, CallTyped DEF Scans
  <2>4. Claim!Call("status", w, p, Claim!RowOf(p), None, t, None).does = "status"
    BY DEF Claim!Call
  <2> HIDE DEF w, p
  <2> QED BY <1>1, <2>1, <2>3, <2>4 DEF Claim!Status, Claim!Begins, ClaimsType
<1>4. (\E t \in Tasks : Claim!WatchPolls(t)) \/ (UNCHANGED <<issued, mc, mt>> /\ calls' \subseteq calls)
  BY DEF Claim!Restart, Claim!Watcher, Claim!WatchEnds, Claim!WatchStops, Claim!Cleanup,
     Claim!RemoveNode, Claim!AddNode, Claim!Mesh, Claim!Tick, Claim!Advert, Claim!SendCode,
     Claim!claimVars, Claim!taskVars, Claim!meshVars
<1> QED BY <1>2, <1>3, <1>4

LEMMA ClaimTypeStep ==
    ASSUME Claim!ClaimSets, ClaimType, [Claim!Next]_Claim!claimVars
    PROVE  ClaimType' /\ Observing
<1>1. WatchersInv'
  BY AllMoves, MovesKeepWatchers DEF ClaimType
<1>2. UNCHANGED Claim!meshVars => MeshType'
  BY DEF Claim!meshVars, MeshType, ClaimType
<1>3. CASE Claim!Mesh
  BY <1>1, <1>3, MeshObserved, RestTyped DEF ClaimType
<1>4. ASSUME NEW w \in Procs, NEW p \in Players, Claim!Route(w, p) PROVE ClaimType' /\ Observing
  <2>1. Observing /\ UNCHANGED Claim!meshVars
    BY <1>4, RouteObserved
  <2> QED BY <1>1, <1>2, <1>4, <2>1, RouteTyped DEF ClaimType, Observing
<1>5. ASSUME NEW c \in calls, Claim!Answer(c) PROVE ClaimType' /\ Observing
  <2>1. Observing /\ UNCHANGED Claim!meshVars
    BY <1>5, AnswerObserved
  <2> QED BY <1>1, <1>2, <1>5, <2>1, AnswerTyped DEF ClaimType, Observing
<1>6. CASE \/ \E w \in Procs : Claim!Restart(w)
           \/ \E t \in Tasks : Claim!Watcher(t)
           \/ \E p \in Players, r \in Claim!Radios :
                Claim!RemoveNode(p, r) \/ \E keyed \in BOOLEAN : Claim!AddNode(p, r, keyed)
           \/ UNCHANGED Claim!claimVars
  <2>1. Observing /\ UNCHANGED Claim!meshVars
    BY <1>6, RestObserved
  <2> QED BY <1>1, <1>2, <1>6, <2>1, RestTyped DEF ClaimType
<1>7. Claim!Next => \/ Claim!Mesh
                    \/ \E w \in Procs, p \in Players : Claim!Route(w, p)
                    \/ \E c \in calls : Claim!Answer(c)
                    \/ \E w \in Procs : Claim!Restart(w)
                    \/ \E t \in Tasks : Claim!Watcher(t)
                    \/ \E p \in Players, r \in Claim!Radios :
                         Claim!RemoveNode(p, r) \/ \E keyed \in BOOLEAN : Claim!AddNode(p, r, keyed)
  BY Zenon DEF Claim!Next, Claim!ClaimSets
<1> QED BY <1>3, <1>4, <1>5, <1>6, <1>7

LEMMA ClaimInit == ASSUME Claim!ClaimSets, Claim!Init PROVE ClaimType
<1>1. MeshType
  BY DEF Claim!Init, MeshType
<1>2. ClaimsType
  BY DEF Claim!Init, Claim!Nothing, ClaimsType
<1>3. WatchersInv
  BY DEF Claim!Init, WatchersInv, TasksType, LiveAreRegistered
<1> QED BY <1>1, <1>2, <1>3 DEF ClaimType

\* One watcher at a time edits a player's message from a process, however many
\* players claim and watchers end at once: cancelling the one that is
\* registered before registering the next (_cancel_claimnode_watch,
\* _register_claimnode_task) leaves no other alive.
THEOREM OneWatcherAlways == Claim!Spec => []OneWatcher
<1>1. Claim!Init => ClaimType
  BY ClaimInit, ClaimShape
<1>2. ClaimType /\ [Claim!Next]_Claim!claimVars => ClaimType'
  BY ClaimTypeStep, ClaimShape
<1>3. ClaimType => OneWatcher
  <2> SUFFICES ASSUME ClaimType, NEW w \in Procs, NEW p \in Players
               PROVE  Claim!Cardinality({t \in Tasks : task[t] # None /\ task[t].is = "live"
                                     /\ task[t].proc = w /\ task[t].player = p}) <= 1
    BY DEF OneWatcher, Claim!OneWatcher
  <2> DEFINE S == {t \in Tasks : task[t] # None /\ task[t].is = "live"
                                     /\ task[t].proc = w /\ task[t].player = p}
  <2>1. S \subseteq {watcher[w][p]}
    BY DEF ClaimType, WatchersInv, LiveAreRegistered
  <2>2. IsFiniteSet({watcher[w][p]}) /\ Cardinality({watcher[w][p]}) = 1
    BY FS_Singleton
  <2> HIDE DEF S
  <2>3. Cardinality(S) <= 1
    BY <2>1, <2>2, FS_Subset
  <2> QED BY <2>3 DEF S, Claim!Cardinality, Cardinality
<1> QED BY <1>1, <1>2, <1>3, PTL DEF Claim!Spec

(* Claiming a radio: what has been heard.                                    *)

Since(b, r) == IF b[r] = None THEN 0 ELSE b[r]

\* Every radio of the name that was heard after the baseline was heard for p.
HeardSince(name, b, p) ==
    \A c \in Connectors, r \in McRadios :
        NameOf(r) = name /\ heard[c][r] > Since(b, r) => r \in proven[p]

CodeSent(k, p) == issued[k] = p /\ sent[k] \subseteq proven[p]

\* What a window, or an accept that read it, lets through was heard for p.
Covered(row, p) ==
    IF row.code = None
    THEN row.baseline \in [Claim!Radios -> Nat \cup {None}] /\ HeardSince(row.name, row.baseline, p)
    ELSE CodeSent(row.code, p)

CallCovered(c) ==
    /\ c.does = "accept" =>
         /\ Covered(c.row, c.player)
         /\ c.scan # None => Claim!Candidates(c.row, c.scan) \subseteq proven[c.player]
    /\ c.does = "start" /\ c.scan # None => HeardSince(c.row.name, c.scan, c.player)

WindowsCovered ==
    \A p \in Players : /\ mc[p] # None => Covered(mc[p], p)
                       /\ mt[p] # None => Covered(mt[p], p)
CodesUnsent == \A k \in Codes : issued[k] = None => sent[k] = {}
ClaimInv == WindowsCovered /\ (\A c \in calls : CallCovered(c)) /\ CodesUnsent

LEMMA HeardStays ==
    ASSUME NEW p \in Players, Kept(p), NEW n, NEW b, HeardSince(n, b, p)
    PROVE  HeardSince(n, b, p)'
BY DEF Kept, HeardSince, Since

LEMMA CoveredStays ==
    ASSUME NEW p \in Players, Kept(p), NEW row \in Windows, Covered(row, p)
    PROVE  Covered(row, p)'
<1>1. CASE row.code = None
  BY <1>1, HeardStays DEF Covered
<1>2. CASE row.code # None
  BY <1>2 DEF Covered, CodeSent, Kept, Windows
<1> QED BY <1>1, <1>2

LEMMA WindowStays ==
    ASSUME Observing, NEW p \in Players, mc'[p] # None \/ mt'[p] # None,
           NEW row \in Windows, Covered(row, p)
    PROVE  Covered(row, p)'
<1>1. Claim!Claiming(p)'
  BY DEF Claim!Claiming
<1> QED BY <1>1, CoveredStays DEF Observing

LEMMA CallStays ==
    ASSUME Observing, NEW c \in Calls, c \in calls', CallCovered(c)
    PROVE  CallCovered(c)'
<1>1. c.player \in Players /\ c.row \in Windows
  BY DEF Calls
<1>2. CASE c.does = "accept"
  <2>1. Claim!Claiming(c.player)'
    BY <1>2 DEF Claim!Claiming
  <2>2. Kept(c.player)
    BY <1>1, <2>1 DEF Observing
  <2>3. Covered(c.row, c.player)'
    BY <1>1, <1>2, <2>2, CoveredStays DEF CallCovered
  <2>4. c.scan # None => Claim!Candidates(c.row, c.scan) \subseteq proven'[c.player]
    BY <1>2, <2>2 DEF CallCovered, Kept
  <2> QED BY <1>2, <2>3, <2>4 DEF CallCovered, Claim!Candidates, Claim!Fresh
<1>3. CASE c.does = "start" /\ c.scan # None
  <2>1. Claim!Claiming(c.player)'
    BY <1>3 DEF Claim!Claiming
  <2>2. Kept(c.player)
    BY <1>1, <2>1 DEF Observing
  <2>3. HeardSince(c.row.name, c.scan, c.player)'
    BY <1>1, <1>3, <2>2, HeardStays DEF CallCovered
  <2> QED BY <1>3, <2>3 DEF CallCovered
<1>4. CASE c.does # "accept" /\ ~(c.does = "start" /\ c.scan # None)
  BY <1>4 DEF CallCovered
<1> QED BY <1>2, <1>3, <1>4

\* Whatever a step leaves open was covered before it, or is covered by it.
Covering ==
    /\ \A p \in Players, row \in Windows :
         row # None /\ (mc'[p] = row \/ mt'[p] = row) => Covered(row, p) \/ Covered(row, p)'
    /\ \A c \in calls' : CallCovered(c) \/ CallCovered(c)'
    /\ CodesUnsent'

LEMMA CoveringKeeps ==
    ASSUME ClaimType, ClaimType', Observing, Covering
    PROVE  ClaimInv'
<1>1. ASSUME NEW p \in Players, mc'[p] # None PROVE Covered(mc[p], p)'
  <2>1. PICK row \in Windows : row = mc'[p]
    BY <1>1 DEF ClaimType, ClaimsType
  <2>2. Covered(row, p)'
    BY <1>1, <2>1, WindowStays DEF Covering
  <2> QED BY <2>1, <2>2 DEF Covered, HeardSince, Since, CodeSent
<1>2. ASSUME NEW p \in Players, mt'[p] # None PROVE Covered(mt[p], p)'
  <2>1. PICK row \in Windows : row = mt'[p]
    BY <1>2 DEF ClaimType, ClaimsType
  <2>2. Covered(row, p)'
    BY <1>2, <2>1, WindowStays DEF Covering
  <2> QED BY <2>1, <2>2 DEF Covered, HeardSince, Since, CodeSent
<1>3. ASSUME NEW c \in calls' PROVE CallCovered(c)'
  <2>1. c \in Calls
    BY DEF ClaimType, ClaimsType
  <2> QED BY <2>1, CallStays DEF Covering
<1> QED BY <1>1, <1>2, <1>3 DEF Covering, ClaimInv, WindowsCovered

LEMMA ReadIsCovered ==
    ASSUME ClaimInv, NEW p \in Players, Claim!RowOf(p) # None
    PROVE  Covered(Claim!RowOf(p), p)
BY DEF ClaimInv, WindowsCovered, Claim!RowOf

LEMMA SameWindowsCover ==
    ASSUME ClaimInv, UNCHANGED <<issued, sent>>,
           \A p \in Players : (mc'[p] = mc[p] \/ mc'[p] = None) /\ (mt'[p] = mt[p] \/ mt'[p] = None),
           \A c \in calls' : CallCovered(c)
    PROVE  Covering
<1>1. CodesUnsent'
  BY DEF ClaimInv, CodesUnsent
<1>2. \A p \in Players, row \in Windows :
        row # None /\ (mc'[p] = row \/ mt'[p] = row) => Covered(row, p)
  BY DEF ClaimInv, WindowsCovered
<1> QED BY <1>1, <1>2 DEF Covering

LEMMA RouteCovers ==
    ASSUME Claim!ClaimSets, ClaimType, ClaimInv, NEW w \in Procs, NEW p \in Players, Claim!Route(w, p)
    PROVE  Covering
<1>0. \A c \in calls : CallCovered(c)
  BY DEF ClaimInv
<1>00. mc \in [Players -> Windows \cup {None}] /\ mt \in [Players -> Windows \cup {None}]
  BY DEF ClaimType, ClaimsType
<1>1. ASSUME NEW from, NEW n, Claim!StartMc(w, p, n, from) PROVE Covering
  <2> DEFINE c == Claim!Call("start", w, p, Claim!Row(n, None, None, time + Window), None, from, None)
  <2>1. CallCovered(c)
    BY DEF CallCovered, Claim!Call
  <2>2. calls' = calls \cup {c} /\ UNCHANGED <<issued, sent, mc, mt>>
    BY <1>1 DEF Claim!StartMc, Claim!Begins, Claim!meshVars
  <2> HIDE DEF c
  <2> QED BY <1>0, <2>1, <2>2, SameWindowsCover
<1>2. ASSUME NEW from, NEW k \in Codes, Claim!OpenMt(w, p, k, from) PROVE Covering
  <2>0. PICK new : new = Claim!Row(None, k, None, time + Window)
    OBVIOUS
  <2>1. /\ issued[k] = None /\ issued' = [issued EXCEPT ![k] = p]
        /\ mt' = [mt EXCEPT ![p] = new] /\ mc' = [mc EXCEPT ![p] = None]
        /\ calls' = calls /\ sent' = sent
        /\ Claim!Observe(Claim!Nothing)
    BY <1>2, <2>0 DEF Claim!OpenMt, Claim!meshVars
  <2>2. new.code = k /\ k # None
    BY <2>0 DEF Claim!Row, Claim!ClaimSets
  <2>3. issued \in [Codes -> Players \cup {None}] /\ sent[k] = {}
    BY <2>1 DEF ClaimType, ClaimsType, ClaimInv, CodesUnsent
  <2>4. issued'[k] = p /\ sent'[k] = {} /\ None \notin Players
    BY <2>1, <2>3 DEF Claim!ClaimSets
  <2>5. Covered(new, p)'
    BY <2>2, <2>4 DEF Covered, CodeSent
  <2>6. \A q \in Players, row \in Windows :
          row # None /\ (mc'[q] = row \/ mt'[q] = row) => Covered(row, q) \/ (row = new /\ q = p)
    BY <1>00, <2>1 DEF ClaimInv, WindowsCovered
  <2>7. CodesUnsent'
    BY <2>1, <2>3, <2>4 DEF ClaimInv, CodesUnsent
  <2>8. \A q \in Players, row \in Windows :
          row # None /\ (mc'[q] = row \/ mt'[q] = row) => Covered(row, q) \/ Covered(row, q)'
    BY <2>5, <2>6
  <2> QED BY <1>0, <2>1, <2>7, <2>8 DEF Covering
<1>3. ASSUME NEW from, NEW r, Claim!Accept(w, p, r, from) PROVE Covering
  <2> DEFINE c == Claim!Call("accept", w, p, Claim!RowOf(p), r, from, None)
  <2>1. Covered(Claim!RowOf(p), p)
    BY <1>3, ReadIsCovered DEF Claim!Accept
  <2>2. CallCovered(c)
    BY <2>1 DEF CallCovered, Claim!Call
  <2>3. calls' = calls \cup {c} /\ UNCHANGED <<issued, sent, mc, mt>>
    BY <1>3 DEF Claim!Accept, Claim!Begins, Claim!meshVars
  <2> HIDE DEF c
  <2> QED BY <1>0, <2>2, <2>3, SameWindowsCover
<1>4. ASSUME NEW from, Claim!Cancel(w, p, from) \/ Claim!AcceptTooLate(w, p, from) PROVE Covering
  <2>1. /\ calls' = calls /\ UNCHANGED <<issued, sent>>
        /\ mc' = [mc EXCEPT ![p] = None] /\ mt' = [mt EXCEPT ![p] = None]
    BY <1>4 DEF Claim!Cancel, Claim!AcceptTooLate, Claim!Clear, Claim!meshVars
  <2>2. \A q \in Players : (mc'[q] = mc[q] \/ mc'[q] = None) /\ (mt'[q] = mt[q] \/ mt'[q] = None)
    BY <1>00, <2>1
  <2> QED BY <1>0, <2>1, <2>2, SameWindowsCover
<1>5. CASE Claim!Expire(p)
  <2>1. /\ calls' = calls /\ UNCHANGED <<issued, sent>>
        /\ mc' = [mc EXCEPT ![p] = None] \/ mc' = mc
        /\ mt' = [mt EXCEPT ![p] = None] \/ mt' = mt
    BY <1>5 DEF Claim!Expire, Claim!meshVars
  <2>2. \A q \in Players : (mc'[q] = mc[q] \/ mc'[q] = None) /\ (mt'[q] = mt[q] \/ mt'[q] = None)
    BY <1>00, <2>1
  <2> QED BY <1>0, <2>1, <2>2, SameWindowsCover
<1>6. CASE Claim!Status(w, p, "page")
  <2> DEFINE c == Claim!Call("status", w, p, Claim!RowOf(p), None, "page", None)
  <2>1. CallCovered(c)
    BY DEF CallCovered, Claim!Call
  <2>2. calls' = calls \cup {c} /\ UNCHANGED <<issued, sent, mc, mt>>
    BY <1>6 DEF Claim!Status, Claim!Begins, Claim!meshVars
  <2> HIDE DEF c
  <2> QED BY <1>0, <2>1, <2>2, SameWindowsCover
<1>7. CASE Claim!ClickRefused(w, p)
  <2>1. UNCHANGED <<issued, sent, mc, mt, calls>>
    BY <1>7 DEF Claim!ClickRefused, Claim!meshVars
  <2> QED BY <1>0, <2>1, SameWindowsCover
<1> QED BY <1>1, <1>2, <1>3, <1>4, <1>5, <1>6, <1>7 DEF Claim!Route

\* A scan finds a candidate only where somebody heard it, or it sent the code.
LEMMA CandidatesAreHeard ==
    ASSUME Claim!ClaimSets, ClaimType, NEW cs \in SUBSET Connectors, NEW row \in Windows,
           NEW p \in Players, Covered(row, p)
    PROVE  Claim!Candidates(row, IF row.code = None THEN Claim!McScan(row.name, cs)
                             ELSE Claim!MtScan(row.code, cs)) \subseteq proven[p]
<1>1. CASE row.code = None
  <2> DEFINE scan == Claim!McScan(row.name, cs)
  <2>1. SUFFICES ASSUME NEW r \in McRadios, scan[r] # None,
                        row.baseline[r] = None \/ scan[r] > row.baseline[r]
                 PROVE  r \in proven[p]
    BY <1>1 DEF Claim!Candidates, Claim!Fresh
  <2>2. scan[r] = IF NameOf(r) = row.name /\ \E c \in cs : heard[c][r] > 0
                  THEN Claim!Newest(cs, r) ELSE None
    BY DEF Claim!McScan, Claim!Radios
  <2>3. NameOf(r) = row.name /\ scan[r] = Claim!Newest(cs, r) /\ \E c \in cs : heard[c][r] > 0
    BY <2>1, <2>2
  <2>4. /\ Claim!Newest(cs, r) \in {heard[c][r] : c \in cs}
        /\ \A c \in cs : heard[c][r] <= Claim!Newest(cs, r)
        /\ Claim!Newest(cs, r) \in Nat
    BY <2>3, NewestIs DEF ClaimType
  <2>5. PICK c \in cs : heard[c][r] = scan[r]
    BY <2>3, <2>4
  <2>6. PICK d \in cs : heard[d][r] > 0
    BY <2>3
  <2>7. heard[c][r] \in Nat /\ heard[d][r] \in Nat /\ heard[d][r] <= heard[c][r]
    BY <2>3, <2>4, <2>5, <2>6 DEF ClaimType, MeshType
  <2>8. heard[c][r] > 0
    BY <2>6, <2>7
  <2> HIDE DEF scan
  <2>9. heard[c][r] > Since(row.baseline, r)
    BY <2>1, <2>5, <2>8 DEF Since
  <2>10. HeardSince(row.name, row.baseline, p)
    BY <1>1 DEF Covered
  <2> QED BY <2>3, <2>9, <2>10 DEF HeardSince
<1>2. CASE row.code # None
  <2>1. SUFFICES ASSUME NEW r \in MtRadios, Claim!MtScan(row.code, cs)[r] # None
                 PROVE  r \in proven[p]
    BY <1>2 DEF Claim!Candidates
  <2>2. r \in sent[row.code]
    BY <2>1 DEF Claim!MtScan, Claim!Radios
  <2> QED BY <1>2, <2>2 DEF Covered, CodeSent
<1> QED BY <1>1, <1>2

\* The baseline of a start that every connector answered is the newest there is.
LEMMA BaselineIsNewest ==
    ASSUME Claim!ClaimSets, ClaimType, NEW n, NEW p
    PROVE  HeardSince(n, Claim!McScan(n, Connectors), p)
<1> DEFINE scan == Claim!McScan(n, Connectors)
<1> SUFFICES ASSUME NEW c \in Connectors, NEW r \in McRadios, NameOf(r) = n,
                    heard[c][r] > Since(scan, r)
             PROVE  FALSE
  BY DEF HeardSince
<1>1. heard[c][r] \in Nat /\ r \in Claim!Radios
  BY DEF ClaimType, MeshType, Claim!Radios
<1>2. /\ \A d \in Connectors : heard[d][r] <= Claim!Newest(Connectors, r)
      /\ Claim!Newest(Connectors, r) \in Nat
  BY NewestIs DEF ClaimType
<1>3. scan[r] = IF \E d \in Connectors : heard[d][r] > 0 THEN Claim!Newest(Connectors, r) ELSE None
  BY <1>1 DEF Claim!McScan
<1> HIDE DEF scan
<1>4. CASE heard[c][r] > 0
  BY <1>1, <1>2, <1>3, <1>4 DEF Since, Claim!ClaimSets
<1>5. CASE ~(heard[c][r] > 0)
  <2>1. Since(scan, r) \in Nat
    BY <1>2, <1>3 DEF Since
  <2> QED BY <1>1, <1>5, <2>1
<1> QED BY <1>4, <1>5

LEMMA AnswerCovers ==
    ASSUME Claim!ClaimSets, ClaimType, ClaimInv, NEW c \in calls, Claim!Answer(c)
    PROVE  Covering
<1>0. /\ \A d \in calls : CallCovered(d)
      /\ c \in Calls /\ c.player \in Players /\ c.row \in Windows
      /\ c.does = "start" => c.row.code = None
  BY DEF ClaimInv, ClaimType, ClaimsType, Calls
<1>00. mc \in [Players -> Windows \cup {None}] /\ mt \in [Players -> Windows \cup {None}]
  BY DEF ClaimType, ClaimsType
<1>1. ASSUME NEW cs \in SUBSET Connectors, Claim!Scan(c, cs) PROVE Covering
  <2>1. PICK scan : scan = IF c.row.code = None THEN Claim!McScan(c.row.name, cs)
                           ELSE Claim!MtScan(c.row.code, cs)
    OBVIOUS
  <2>2. PICK d : d = [c EXCEPT !.scan = scan]
    OBVIOUS
  <2>3. d.does = c.does /\ d.row = c.row /\ d.player = c.player /\ d.scan = scan
    BY <1>0, <2>2 DEF Calls
  <2>4. /\ calls' = (calls \ {c}) \cup {d} /\ UNCHANGED <<issued, sent, mc, mt, heard>>
        /\ Claim!Observe([p \in Players |-> IF c.does = "start" /\ p = c.player /\ cs # Connectors
                                        THEN Claim!Radios ELSE {}])
    BY <1>1, <2>1, <2>2 DEF Claim!Scan, Claim!meshVars
  <2>5. CallCovered(d) \/ CallCovered(d)'
    <3>1. CASE c.does = "accept"
      <4>1. Covered(c.row, c.player)
        BY <1>0, <3>1 DEF CallCovered
      <4>2. Claim!Candidates(c.row, scan) \subseteq proven[c.player]
        BY <1>0, <2>1, <4>1, CandidatesAreHeard
      <4> QED BY <2>3, <3>1, <4>1, <4>2 DEF CallCovered
    <3>2. CASE c.does = "start" /\ cs = Connectors
      <4>1. HeardSince(c.row.name, scan, c.player)
        BY <1>0, <2>1, <3>2, BaselineIsNewest
      <4> QED BY <2>3, <3>2, <4>1 DEF CallCovered
    <3>3. CASE c.does = "start" /\ cs # Connectors /\ scan # None
      <4>1. Claim!Claiming(c.player)'
        BY <2>3, <2>4, <3>3 DEF Claim!Claiming
      <4>2. proven'[c.player] = proven[c.player] \cup Claim!Radios
        BY <1>0, <2>4, <3>3, <4>1 DEF Claim!Observe
      <4>3. HeardSince(c.row.name, scan, c.player)'
        BY <4>2 DEF HeardSince, Claim!Radios
      <4> QED BY <2>3, <3>3, <4>3 DEF CallCovered
    <3>4. CASE c.does = "status" \/ (c.does = "start" /\ scan = None)
      BY <2>3, <3>4 DEF CallCovered
    <3> QED BY <1>0, <3>1, <3>2, <3>3, <3>4 DEF Calls
  <2>6. CodesUnsent'
    BY <2>4 DEF ClaimInv, CodesUnsent
  <2>7. \A p \in Players, row \in Windows :
            row # None /\ (mc'[p] = row \/ mt'[p] = row) => Covered(row, p)
    BY <2>4 DEF ClaimInv, WindowsCovered
  <2>8. \A e \in calls' : CallCovered(e) \/ CallCovered(e)'
    BY <1>0, <2>4, <2>5
  <2> QED BY <2>6, <2>7, <2>8 DEF Covering
<1>2. CASE Claim!OpenMc(c)
  <2>1. PICK new : new = [c.row EXCEPT !.baseline = c.scan]
    OBVIOUS
  <2>2. /\ calls' = calls \ {c} /\ UNCHANGED <<issued, sent>> /\ c.does = "start" /\ c.scan # None
        /\ mc' = [mc EXCEPT ![c.player] = new] /\ mt' = [mt EXCEPT ![c.player] = None]
    BY <1>2, <2>1 DEF Claim!OpenMc, Claim!meshVars
  <2>3. /\ new.code = None /\ new.name = c.row.name /\ new.baseline = c.scan
        /\ c.scan \in [Claim!Radios -> Nat \cup {None}]
    BY <1>0, <2>1, <2>2 DEF Windows, Calls, Scans
  <2>4. Covered(new, c.player)
    BY <1>0, <2>2, <2>3 DEF Covered, CallCovered
  <2>5. \A p \in Players, row \in Windows :
            row # None /\ (mc'[p] = row \/ mt'[p] = row) => Covered(row, p)
    BY <1>0, <1>00, <2>2, <2>4 DEF ClaimInv, WindowsCovered
  <2> QED BY <1>0, <2>2, <2>5 DEF Covering, ClaimInv, CodesUnsent
<1>3. CASE Claim!StatusScanned(c)
  <2>1. \A row \in Windows, p \in Players :
            Covered(row, p) => Covered([row EXCEPT !.scanned = c.at], p)
    <3>1. \A row \in Windows : /\ [row EXCEPT !.scanned = c.at].code = row.code
                               /\ [row EXCEPT !.scanned = c.at].name = row.name
                               /\ [row EXCEPT !.scanned = c.at].baseline = row.baseline
      BY DEF Windows
    <3> QED BY <3>1 DEF Covered
  <2>2. /\ (mc' = Claim!Noted(mc, c) /\ mt' = mt) \/ (mt' = Claim!Noted(mt, c) /\ mc' = mc)
        /\ calls' \subseteq calls /\ issued' = issued /\ sent' = sent
    BY <1>3 DEF Claim!StatusScanned, Claim!meshVars
  <2>3. ASSUME NEW t, t \in [Players -> Windows \cup {None}],
               \A p \in Players : t[p] # None => Covered(t[p], p)
        PROVE  \A p \in Players : Claim!Noted(t, c)[p] # None => Covered(Claim!Noted(t, c)[p], p)
    <3>1. CASE t[c.player] = None
      BY <2>3, <3>1 DEF Claim!Noted
    <3>2. CASE t[c.player] # None
      <4>1. t[c.player] \in Windows
        BY <1>0, <2>3, <3>2
      <4>2. Claim!Noted(t, c) = [t EXCEPT ![c.player] = [t[c.player] EXCEPT !.scanned = c.at]]
        BY <3>2 DEF Claim!Noted
      <4>3. Covered([t[c.player] EXCEPT !.scanned = c.at], c.player)
        BY <1>0, <2>1, <2>3, <3>2, <4>1
      <4> QED BY <1>0, <2>3, <4>2, <4>3
    <3> QED BY <3>1, <3>2
  <2>4. /\ \A p \in Players : mc'[p] # None => Covered(mc'[p], p)
        /\ \A p \in Players : mt'[p] # None => Covered(mt'[p], p)
    BY <1>00, <2>2, <2>3 DEF ClaimInv, WindowsCovered
  <2>5. \A p \in Players, row \in Windows :
            row # None /\ (mc'[p] = row \/ mt'[p] = row) => Covered(row, p)
    BY <2>4
  <2> QED BY <1>0, <2>2, <2>5 DEF Covering, ClaimInv, CodesUnsent
<1>4. CASE Claim!Refuse(c)
  <2>1. calls' = calls \ {c} /\ UNCHANGED <<issued, sent, mc, mt>>
    BY <1>4 DEF Claim!Refuse, Claim!meshVars
  <2> QED BY <1>0, <2>1, SameWindowsCover
<1>5. CASE Claim!Bind(c)
  <2>1. /\ calls' = calls \ {c} /\ UNCHANGED <<issued, sent>>
        /\ mc' = [mc EXCEPT ![c.player] = None] /\ mt' = [mt EXCEPT ![c.player] = None]
    BY <1>5 DEF Claim!Bind, Claim!Clear, Claim!meshVars
  <2>2. \A p \in Players : (mc'[p] = mc[p] \/ mc'[p] = None) /\ (mt'[p] = mt[p] \/ mt'[p] = None)
    BY <1>00, <2>1
  <2> QED BY <1>0, <2>1, <2>2, SameWindowsCover
<1> QED BY <1>1, <1>2, <1>3, <1>4, <1>5 DEF Claim!Answer

LEMMA MeshCovers ==
    ASSUME Claim!ClaimSets, ClaimType, ClaimInv, Claim!Mesh
    PROVE  Covering
<1>1. UNCHANGED <<issued, mc, mt, calls>>
  BY DEF Claim!Mesh, Claim!Tick, Claim!Advert, Claim!SendCode, Claim!taskVars
<1>2. sent' = sent \/ \E r \in MtRadios, k \in Codes : issued[k] # None /\ sent' = [sent EXCEPT ![k] = @ \cup {r}]
  BY DEF Claim!Mesh, Claim!Tick, Claim!Advert, Claim!SendCode
<1>3. CodesUnsent'
  <2>1. \A k \in Codes : issued[k] = None => sent'[k] = sent[k]
    BY <1>2 DEF ClaimType, MeshType
  <2> QED BY <1>1, <2>1 DEF ClaimInv, CodesUnsent
<1>4. \A p \in Players, row \in Windows :
          row # None /\ (mc'[p] = row \/ mt'[p] = row) => Covered(row, p)
  BY <1>1 DEF ClaimInv, WindowsCovered
<1>5. \A c \in calls' : CallCovered(c)
  BY <1>1 DEF ClaimInv
<1> QED BY <1>3, <1>4, <1>5 DEF Covering

LEMMA RestCovers ==
    ASSUME Claim!ClaimSets, ClaimType, ClaimInv,
           \/ \E w \in Procs : Claim!Restart(w)
           \/ \E t \in Tasks : Claim!Watcher(t)
           \/ \E p \in Players, r \in Claim!Radios :
                Claim!RemoveNode(p, r) \/ \E keyed \in BOOLEAN : Claim!AddNode(p, r, keyed)
           \/ UNCHANGED Claim!claimVars
    PROVE  Covering
<1>1. UNCHANGED <<issued, sent, mc, mt>>
  BY DEF Claim!Restart, Claim!Watcher, Claim!WatchPolls, Claim!Status, Claim!WatchEnds,
     Claim!WatchStops, Claim!Cleanup, Claim!RemoveNode, Claim!AddNode, Claim!claimVars,
     Claim!meshVars
<1>2. calls' \subseteq calls \/ \E t \in Tasks : Claim!WatchPolls(t)
  BY DEF Claim!Restart, Claim!Watcher, Claim!WatchEnds, Claim!WatchStops, Claim!Cleanup,
     Claim!RemoveNode, Claim!AddNode, Claim!claimVars
<1>3. \A c \in calls : CallCovered(c)
  BY DEF ClaimInv
<1>4. ASSUME NEW t \in Tasks, Claim!WatchPolls(t) PROVE \A c \in calls' : CallCovered(c)
  <2> DEFINE c == Claim!Call("status", task[t].proc, task[t].player, Claim!RowOf(task[t].player), None, t, None)
  <2>1. CallCovered(c)
    BY DEF CallCovered, Claim!Call
  <2>2. calls' = calls \cup {c}
    BY <1>4 DEF Claim!WatchPolls, Claim!Status, Claim!Begins
  <2> HIDE DEF c
  <2> QED BY <1>3, <2>1, <2>2
<1>5. \A c \in calls' : CallCovered(c)
  BY <1>2, <1>3, <1>4
<1> QED BY <1>1, <1>5, SameWindowsCover

LEMMA ClaimStep ==
    ASSUME Claim!ClaimSets, ClaimType, ClaimInv, [Claim!Next]_Claim!claimVars
    PROVE  ClaimType' /\ ClaimInv'
<1>1. ClaimType' /\ Observing
  BY ClaimTypeStep
<1>2. CASE Claim!Mesh
  BY <1>1, <1>2, MeshCovers, CoveringKeeps
<1>3. ASSUME NEW w \in Procs, NEW p \in Players, Claim!Route(w, p) PROVE ClaimInv'
  BY <1>1, <1>3, RouteCovers, CoveringKeeps
<1>4. ASSUME NEW c \in calls, Claim!Answer(c) PROVE ClaimInv'
  BY <1>1, <1>4, AnswerCovers, CoveringKeeps
<1>5. CASE \/ \E w \in Procs : Claim!Restart(w)
           \/ \E t \in Tasks : Claim!Watcher(t)
           \/ \E p \in Players, r \in Claim!Radios :
                Claim!RemoveNode(p, r) \/ \E keyed \in BOOLEAN : Claim!AddNode(p, r, keyed)
           \/ UNCHANGED Claim!claimVars
  BY <1>1, <1>5, RestCovers, CoveringKeeps
<1>6. Claim!Next => \/ Claim!Mesh
                    \/ \E w \in Procs, p \in Players : Claim!Route(w, p)
                    \/ \E c \in calls : Claim!Answer(c)
                    \/ \E w \in Procs : Claim!Restart(w)
                    \/ \E t \in Tasks : Claim!Watcher(t)
                    \/ \E p \in Players, r \in Claim!Radios :
                         Claim!RemoveNode(p, r) \/ \E keyed \in BOOLEAN : Claim!AddNode(p, r, keyed)
  BY Zenon DEF Claim!Next, Claim!ClaimSets
<1> QED BY <1>1, <1>2, <1>3, <1>4, <1>5, <1>6

\* Only Bind confirms a radio, and only one its accept's scan let through.
LEMMA ConfirmedIsProven ==
    ASSUME Claim!ClaimSets, ClaimType, ClaimInv, Claim!Next, NEW r \in Claim!Radios,
           bound'[r] # None, bound'[r].confirmed, bound'[r] # bound[r]
    PROVE  r \in proven[bound'[r].player]
<1>0. DOMAIN bound = Claim!Radios
  BY DEF ClaimType, ClaimsType
<1>1. CASE \E c \in calls : Claim!Bind(c)
  <2>1. PICK c \in calls : Claim!Bind(c)
    BY <1>1
  <2>2. /\ c.does = "accept" /\ c.scan # None /\ ~Claim!Refused(c)
        /\ \/ bound' = bound
           \/ bound' = [bound EXCEPT ![c.radio] = [player |-> c.player, key |-> c.row.code = None,
                                                   confirmed |-> TRUE]]
    BY <2>1 DEF Claim!Bind
  <2>3. r = c.radio /\ bound'[r].player = c.player
    BY <1>0, <2>2
  <2>4. r \in Claim!Candidates(c.row, c.scan)
    BY <2>2, <2>3 DEF Claim!Refused
  <2> QED BY <2>2, <2>3, <2>4 DEF ClaimInv, CallCovered
<1>2. CASE \E p \in Players, q \in Claim!Radios :
              Claim!RemoveNode(p, q) \/ \E keyed \in BOOLEAN : Claim!AddNode(p, q, keyed)
  BY <1>0, <1>2 DEF Claim!RemoveNode, Claim!AddNode
<1>3. CASE UNCHANGED bound
  BY <1>3
<1>4. ASSUME NEW w, NEW p, Claim!Route(w, p) PROVE UNCHANGED bound
  BY <1>4 DEF Claim!Route, Claim!StartMc, Claim!OpenMt, Claim!Accept, Claim!Cancel,
     Claim!AcceptTooLate, Claim!Expire, Claim!Status, Claim!ClickRefused
<1>5. ASSUME NEW c \in calls, Claim!Answer(c), ~Claim!Bind(c) PROVE UNCHANGED bound
  BY <1>5 DEF Claim!Answer, Claim!Scan, Claim!OpenMc, Claim!StatusScanned, Claim!Refuse
<1>6. Claim!Mesh \/ (\E w \in Procs : Claim!Restart(w)) \/ (\E t \in Tasks : Claim!Watcher(t)) => UNCHANGED bound
  BY DEF Claim!Mesh, Claim!Tick, Claim!Advert, Claim!SendCode, Claim!Restart, Claim!Watcher,
     Claim!WatchPolls, Claim!Status, Claim!WatchEnds, Claim!WatchStops, Claim!Cleanup
<1> QED BY <1>1, <1>2, <1>3, <1>4, <1>5, <1>6 DEF Claim!Next

\* A radio that is confirmed was heard for its player since a claim of the
\* player's that was still under way began, for any number of players, radios,
\* connectors and routes in flight: an accept binds by the window it read
\* before its scan (accept_confirmation), and by then the scan has seen what
\* is newer than that window's baseline, or who sent that window's code.
THEOREM ClaimsAlwaysProven == Claim!Spec => ClaimsAreProven
<1>1. Claim!Init => ClaimType /\ ClaimInv
  <2>1. Claim!Init => ClaimInv
    BY DEF Claim!Init, ClaimInv, WindowsCovered, CodesUnsent
  <2> QED BY <2>1, ClaimInit, ClaimShape
<1>2. (ClaimType /\ ClaimInv) /\ [Claim!Next]_Claim!claimVars => (ClaimType /\ ClaimInv)'
  BY ClaimStep, ClaimShape
<1>3. (ClaimType /\ ClaimInv) /\ [Claim!Next]_Claim!claimVars
        => [\A r \in Claim!Radios : bound'[r] # None /\ bound'[r].confirmed /\ bound'[r] # bound[r]
              => r \in proven[bound'[r].player]]_Claim!claimVars
  BY ConfirmedIsProven, ClaimShape
<1> QED BY <1>1, <1>2, <1>3, PTL DEF Claim!Spec, ClaimsAreProven, Claim!ClaimsAreProven
=============================================================================
