------------------------------- MODULE McPing -------------------------------
(* The ping pipeline of app/mc_ingest.py: the gates of _process_one_ping in  *)
(* their order, inside the transaction of _process_batch_sync, beside the    *)
(* retention of _housekeeping_sync and the radio routes of app/nodes_api.py, *)
(* which run in other processes.                                             *)
(*                                                                           *)
(* McQueue hands a batch to this module; what a ping that passes every gate  *)
(* earns is Territory's.  Here it is only paid, with the repeaters it was    *)
(* paid for.                                                                 *)
(*                                                                           *)
(* A ping's position is its cell, and cells are a distance apart.  A ping    *)
(* with bad coordinates, out of the play area or without a contact key has   *)
(* no effect at all and is no step; so is the by-air mark, which only        *)
(* matters to places.  Switches are as shipped: clamp, speed rejection,      *)
(* wire-tag rejection and cell cap on.  Which ids a radio answers to is      *)
(* fixed: the public keys that POST /api/checkin fills in later are not.     *)
EXTENDS Integers, FiniteSets

CONSTANTS
    Players, Radios, Cells, Tags,
    Ids,          \* the repeater ids that pings name, at any hash width
    Names,        \* <<id, radio>>: 4 hex or more that the radio's ref or key begins with
    Pings,        \* what clients may send: [radio, cell, ts, tag, heard, defer]
    Dist(_, _),   \* distance of two cells
    GlitchSpeed,  \* mc_glitch_speed_mps, distance per tick
    Clamp,        \* mc_clock_clamp_seconds
    Lag,          \* how long a batch may wait in the queue
    Retention,    \* mc_ping_retention_hours
    TagRetention, \* mc_wire_tag_retention_days
    ClaimCap,     \* mc_cell_claim_cap
    ClaimWindow,  \* mc_cell_claim_cap_window_seconds
    NodeTtl,      \* _PLAYER_NODE_TTL
    DirectoryTtl, \* _DIRECTORY_TTL
    BatchSize,    \* bound on the pings of a batch
    MaxBatches,   \* bound on the batches of a behaviour
    MaxAdverts,   \* bound on the changes of the directory
    Horizon,      \* the last tick of the model
    None

ASSUME PingNumbers ==
    /\ {GlitchSpeed, Clamp, Lag, Retention, TagRetention, ClaimCap, ClaimWindow,
        NodeTtl, DirectoryTtl, BatchSize, MaxBatches, MaxAdverts, Horizon} \subseteq Nat
    /\ \A c, d \in Cells : Dist(c, d) \in Nat
ASSUME PingSets ==
    /\ None \notin Players \cup Tags \cup Radios \cup Nat
    /\ Names \subseteq Ids \X Radios

Times == 0..Horizon
PingShapes == [radio : Radios, cell : Cells, ts : Times, tag : Tags \cup {None},
               heard : SUBSET Ids, defer : BOOLEAN]
ASSUME PingsAreShaped == Pings \subseteq PingShapes

\* The ids the directory is asked about: those that may be a player's radio.
Ambiguous == {i \in Ids : \E r \in Radios : <<i, r>> \in Names}

VARIABLES
    now,
    node,     \* player_node: radio -> its player; and, an observer, since when
    tag,      \* mc_wire_tag: the tags on file, with player and receipt time
    seen,     \* player_cell_ping
    fix,      \* player_last_fix: player -> [cell, ts] or None
    claim,    \* player_cell_claim
    obs,      \* repeater_observation: the repeaters evidenced in a cell
    paid,     \* observer: the pings that reached scoring
    directory,\* mc_directory_cache: id -> a repeater on it answers to the id; and, an
              \* observer, when the last one went
    cache,    \* _player_node_cache: [at, radios], or None
    known,    \* _directory_cache: [at, ids], or None
    tx,       \* the open batch, with the tables as it found them, or None
    batches,  \* batches so far
    adverts   \* changes of the directory so far

tables == <<node, tag, seen, fix, claim, obs, paid>>
caches == <<cache, known>>
listing == <<directory, adverts>>
vars == <<now, tables, caches, listing, tx, batches>>

Unbound == [owner |-> None, since |-> 0]

-----------------------------------------------------------------------------
(* The gates.                                                                *)

\* _clamp_scoring_clock.
ClampScoringClock(ts, received) ==
    IF ts < received - Clamp THEN received - Clamp
    ELSE IF ts > received + Clamp THEN received + Clamp ELSE ts

\* The speed gate: implied by the last fix, if that is older.
TooFast(player, cell, t) ==
    /\ fix[player] # None
    /\ t > fix[player].ts
    /\ Dist(fix[player].cell, cell) > GlitchSpeed * (t - fix[player].ts)

\* Binding: this is the registration of a radio.
BoundNode(radio, player) ==
    IF node[radio].owner = None
      THEN [node EXCEPT ![radio] = [owner |-> player, since |-> now]]
      ELSE node

WrongOwner(radio, player) == node[radio].owner \notin {None, player}

\* check_wire_tag: the tag is another player's.
TagConflict(t, player) == \E row \in tag : row.tag = t /\ row.player # player

\* check_wire_tag: INSERT OR IGNORE on the tag.
TagRecorded(t, player, received) ==
    IF t = None \/ \E row \in tag : row.tag = t THEN tag
    ELSE tag \cup {[tag |-> t, player |-> player, at |-> received]}

\* first_seen_at of a tag that is on file.
FirstSeen(t, rows) == IF t = None THEN None ELSE (CHOOSE row \in rows : row.tag = t).at

\* Mutation: the key of the history is the clamped time.
DuplicateByReceipt(player, cell, ts) ==
    \E row \in seen : row.player = player /\ row.cell = cell /\ row.at = tx.received

\* INSERT OR IGNORE on (player_id, protocol, cell_id, ts), ts as the client sent it.
Duplicate(player, cell, ts) ==
    \E row \in seen : row.player = player /\ row.cell = cell /\ row.ts = ts

\* The last fix moves forward only.
FixAfter(player, cell, t) ==
    IF fix[player] = None \/ t >= fix[player].ts
      THEN [fix EXCEPT ![player] = [cell |-> cell, ts |-> t]]
      ELSE fix

-----------------------------------------------------------------------------
(* Whose radio is a repeater.                                                *)

\* Mutation: a list once read is served for ever.
FreshForever(c) == c # None

\* The cached list of registered radios is still served.
Fresh(c) == c # None /\ now - c.at < NodeTtl

\* _player_nodes after a binding has, or has not, cleared the cache: read again
\* in the batch's own transaction when the list is gone or old, and not looked
\* at when nothing was heard.
CacheAfter(heard, nodes) ==
    LET cleared == IF nodes # node THEN None ELSE cache IN
    IF heard = {} \/ Fresh(cleared) THEN cleared
    ELSE [at |-> now, radios |-> {r \in Radios : nodes[r].owner # None}]

\* is_player_node_id.
NamesRadio(id, list) == \E r \in list.radios : <<id, r>> \in Names

Listed == {i \in Ambiguous : directory[i].on}

\* _directory_repeater_keys: looked at only once an id names a listed radio; a
\* directory that cannot be read is kept as an empty one.
KnownAfter(heard, list) ==
    IF \/ \A i \in heard : ~NamesRadio(i, list)
       \/ known # None /\ now - known.at < DirectoryTtl
      THEN {known}
      ELSE {[at |-> now, ids |-> read] : read \in {Listed, {}}}

\* drop_player_node_repeaters: what names a radio is no repeater, unless a
\* repeater of the directory answers to the id as well.
KeptRepeaters(heard, list, dir) ==
    {i \in heard : NamesRadio(i, list) => i \in dir.ids}

-----------------------------------------------------------------------------
(* The cell-claim cap.                                                       *)

AlreadyClaimed(player, cell) ==
    \E row \in claim : row.player = player /\ row.cell = cell

RecentClaims(player, received) ==
    Cardinality({row \in claim : row.player = player /\ row.at >= received - ClaimWindow})

CapExceeded(player, cell, received) ==
    ~AlreadyClaimed(player, cell) /\ RecentClaims(player, received) >= ClaimCap

ClaimAfter(player, cell, received) ==
    IF AlreadyClaimed(player, cell) THEN claim
    ELSE claim \cup {[player |-> player, cell |-> cell, at |-> received]}

-----------------------------------------------------------------------------
(* One batch: _process_batch_sync.                                           *)

Init ==
    /\ now = 0
    /\ node = [r \in Radios |-> Unbound]
    /\ fix = [p \in Players |-> None]
    /\ tag = {} /\ seen = {} /\ claim = {} /\ obs = {} /\ paid = {}
    /\ directory = [i \in Ambiguous |-> [on |-> FALSE, gone |-> None]]
    /\ cache = None /\ known = None /\ tx = None /\ batches = 0 /\ adverts = 0

Tick ==
    /\ tx = None /\ now < Horizon
    /\ now' = now + 1
    /\ UNCHANGED <<tables, caches, listing, tx, batches>>

Tables == [node |-> node, tag |-> tag, seen |-> seen, fix |-> fix, claim |-> claim,
           obs |-> obs, paid |-> paid]

\* BEGIN IMMEDIATE for a batch that was received at some time in the past.
BeginBatch(player, received) ==
    /\ tx = None /\ batches < MaxBatches
    /\ received \in {t \in Times : now - Lag <= t /\ t <= now}
    /\ batches' = batches + 1
    /\ tx' = [player |-> player, received |-> received, left |-> BatchSize, saved |-> Tables]
    /\ UNCHANGED <<now, tables, caches, listing>>

\* The next ping of the open batch is m, and passes speed gate and binding.
NextPing(m) ==
    /\ tx # None /\ tx.left > 0
    /\ tx' = [tx EXCEPT !.left = @ - 1]
    /\ ~TooFast(tx.player, m.cell, ClampScoringClock(m.ts, tx.received))
    /\ ~WrongOwner(m.radio, tx.player)
    /\ UNCHANGED <<now, listing, batches>>

\* A binding clears the cached list, whatever becomes of the ping.
BindOnly(m) ==
    /\ node' = BoundNode(m.radio, tx.player)
    /\ cache' = CacheAfter({}, node')
    /\ known' = known

\* A well-formed tag that is on file for another player: the ping is dropped.
RejectTag(m) ==
    /\ NextPing(m)
    /\ TagConflict(m.tag, tx.player)
    /\ BindOnly(m)
    /\ UNCHANGED <<tag, seen, fix, claim, obs, paid>>

\* A ping on record: only its binding and its tag may be new.
RejectDuplicate(m) ==
    /\ NextPing(m)
    /\ ~TagConflict(m.tag, tx.player)
    /\ Duplicate(tx.player, m.cell, m.ts)
    /\ BindOnly(m)
    /\ tag' = TagRecorded(m.tag, tx.player, tx.received)
    /\ UNCHANGED <<seen, fix, claim, obs, paid>>

\* What an accepted ping leaves behind before its score is considered.
Record(m) ==
    /\ NextPing(m)
    /\ ~TagConflict(m.tag, tx.player)
    /\ ~Duplicate(tx.player, m.cell, m.ts)
    /\ node' = BoundNode(m.radio, tx.player)
    /\ tag' = TagRecorded(m.tag, tx.player, tx.received)
    /\ seen' = seen \cup {[player |-> tx.player, cell |-> m.cell, ts |-> m.ts,
                           at |-> tx.received]}
    /\ fix' = FixAfter(tx.player, m.cell, ClampScoringClock(m.ts, tx.received))
    /\ cache' = CacheAfter(m.heard, node')
    /\ known' \in KnownAfter(m.heard, cache')
    /\ obs' = obs \cup {[cell |-> m.cell, repeater |-> i] :
                            i \in KeptRepeaters(m.heard, cache', known')}

CanScore(m) == KeptRepeaters(m.heard, cache', known') # {} \/ m.defer

\* Accepted, and nothing was heard that counts.
AcceptUnscored(m) ==
    /\ Record(m)
    /\ ~CanScore(m)
    /\ UNCHANGED <<claim, paid>>

\* Accepted, and the cell would be one new cell too many.
AcceptCapped(m) ==
    /\ Record(m)
    /\ CanScore(m)
    /\ CapExceeded(tx.player, m.cell, tx.received)
    /\ UNCHANGED <<claim, paid>>

\* Accepted and handed to apply_paint, the claim slot taken first.  An exception
\* in there is swallowed: the slot is gone, and the ping was paid or not, as far
\* as the paint had come.
AcceptScored(m) ==
    /\ Record(m)
    /\ CanScore(m)
    /\ ~CapExceeded(tx.player, m.cell, tx.received)
    /\ claim' = ClaimAfter(tx.player, m.cell, tx.received)
    /\ \/ paid' = paid \cup {[player |-> tx.player, cell |-> m.cell, ts |-> m.ts,
                              tag |-> m.tag, first |-> FirstSeen(m.tag, tag'),
                              at |-> tx.received, when |-> now,
                              credited |-> KeptRepeaters(m.heard, cache', known')]}
       \/ paid' = paid

Commit ==
    /\ tx # None
    /\ tx' = None
    /\ UNCHANGED <<now, tables, caches, listing, batches>>

\* Any exception of the batch; the process memory does not roll back.
RollBack ==
    /\ tx # None
    /\ node' = tx.saved.node /\ tag' = tx.saved.tag /\ seen' = tx.saved.seen
    /\ fix' = tx.saved.fix /\ claim' = tx.saved.claim
    /\ obs' = tx.saved.obs /\ paid' = tx.saved.paid
    /\ tx' = None
    /\ UNCHANGED <<now, caches, listing, batches>>

-----------------------------------------------------------------------------
(* Beside the batches.                                                       *)

\* Mutation: the history is pruned as soon as the next tick.
HousekeepEager ==
    /\ tx = None
    /\ seen' = {row \in seen : row.at >= now}
    /\ tag' = {row \in tag : row.at >= now}
    /\ UNCHANGED <<now, node, fix, claim, obs, paid, caches, listing, tx, batches>>

\* _housekeeping_sync, with the two retentions.
Housekeep ==
    /\ tx = None
    /\ seen' = {row \in seen : row.at >= now - Retention}
    /\ tag' = {row \in tag : row.at >= now - TagRetention}
    /\ UNCHANGED <<now, node, fix, claim, obs, paid, caches, listing, tx, batches>>

\* add_node_for_player and admin_node_add, in a web process: the worker's cached
\* list hears nothing of it.
AddNode(radio, player) ==
    /\ tx = None
    /\ node[radio].owner = None
    /\ node' = BoundNode(radio, player)
    /\ UNCHANGED <<now, tag, seen, fix, claim, obs, paid, caches, listing, tx, batches>>

\* remove_node_for_player and admin_node_remove.
RemoveNode(radio, player) ==
    /\ tx = None
    /\ node[radio].owner = player
    /\ node' = [node EXCEPT ![radio] = Unbound]
    /\ UNCHANGED <<now, tag, seen, fix, claim, obs, paid, caches, listing, tx, batches>>

\* _refresh_mc_directory_if_stale stores a connector's new directory, in which
\* repeaters came and went.
Advertise(i) ==
    /\ tx = None /\ adverts < MaxAdverts
    /\ adverts' = adverts + 1
    /\ directory' = [directory EXCEPT ![i] = [on |-> ~@.on, gone |-> IF @.on THEN now ELSE @.gone]]
    /\ UNCHANGED <<now, tables, caches, tx, batches>>

Next ==
    \/ Tick
    \/ \E p \in Players, t \in Times : BeginBatch(p, t)
    \/ \E m \in Pings : \/ RejectTag(m)
                        \/ RejectDuplicate(m)
                        \/ AcceptUnscored(m)
                        \/ AcceptCapped(m)
                        \/ AcceptScored(m)
    \/ Commit
    \/ RollBack
    \/ Housekeep
    \/ \E r \in Radios, p \in Players : AddNode(r, p) \/ RemoveNode(r, p)
    \/ \E i \in Ambiguous : Advertise(i)

Spec == Init /\ [][Next]_vars

-----------------------------------------------------------------------------
(* Properties.                                                               *)

SamePing(a, b) == a.player = b.player /\ a.cell = b.cell /\ a.ts = b.ts

\* A ping is scored once for as long as player_cell_ping keeps it: whoever posts
\* an old session again is only paid again after its rows were pruned.
PaidOnceWhileKept ==
    \A a, b \in paid : SamePing(a, b) /\ a # b =>
        \/ a.when > b.at + Retention
        \/ b.when > a.at + Retention

\* check_wire_tag: two players are never both paid for transmissions of one tag
\* until it has been forgotten, TagRetention after the tag was first seen.
TagPaysOnePlayer ==
    \A a, b \in paid : a.tag # None /\ a.tag = b.tag /\ a.player # b.player =>
        \/ a.when > b.first + TagRetention
        \/ b.when > a.first + TagRetention

\* The directory lists the id, or did less than DirectoryTtl ago.
ListedLately(i) ==
    \/ directory[i].on
    \/ directory[i].gone # None /\ now - directory[i].gone < DirectoryTtl

\* "An id ... of a registered mc player_node is that player's own radio echoing
\* back, never a real repeater", "still credited when it also prefix-matches" a
\* repeater of the directory: an id that names a radio registered for NodeTtl, in
\* whichever process, is credited only if the directory listed it within
\* DirectoryTtl -- through two caches, rollbacks and bindings of other processes.
RadiosAreNotCredited ==
    [][\A a \in paid' \ paid : \A i \in a.credited, r \in Radios :
          <<i, r>> \in Names => \/ node[r].owner = None
                               \/ now - node[r].since < NodeTtl
                               \/ ListedLately(i)]_vars

\* The history row is "this ping's permanent historical record", and resubmitting a
\* session is harmless because player_cell_ping "already prevents the underlying
\* ping from being double-scored" (check_wire_tag).
ResubmitIsHarmless ==
    \A a, b \in paid : SamePing(a, b) => a = b
=============================================================================
