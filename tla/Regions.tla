------------------------------ MODULE Regions ------------------------------
(* Which squares lie in which region (app/regions.py).  The worker's loop     *)
(* maps squares nobody has tested (map_new_cells); a remap recomputes regions *)
(* whose boundary was replaced (remap_regions), in another process.  Both     *)
(* read and compute outside any transaction and check, when they write, that  *)
(* the boundaries are the ones they read.                                     *)
EXTENDS Integers, FiniteSets, FiniteSetsExt

CONSTANTS Codes,        \* the regions' codes
          Squares, Batch,
          Shapes,       \* the sets of squares a boundary may hold
          StableFor,    \* REGION_SET_STABLE_S
          MaxTime,      \* bounds the clock
          TxnRows,      \* _TXN_ROWS
          None

VARIABLES
    clock,
    region,     \* the region table: a stamp (fetched_at) and a shape, or None
    tiles,      \* squares somebody holds or was credited for
    mapped,     \* region_cell_mapped
    member,     \* region_cell
    pending,    \* regions replaced and not remapped since, for MembershipIsCurrent
    shapes,     \* the worker's cache: a version of each region, or None
    mapping,    \* the worker's batch
    remap       \* the remap that runs

regionVars == <<clock, region, tiles, mapped, member, pending, shapes, mapping, remap>>

Stored == {c \in Codes : region[c] # None}
Idle == [at |-> "idle"]

Init ==
    /\ clock = 1
    /\ region = [c \in Codes |-> None]
    /\ tiles = {} /\ mapped = {} /\ member = {} /\ pending = {}
    /\ shapes = [c \in Codes |-> None]
    /\ mapping = Idle /\ remap = Idle

\* A square is captured, or a check-in heard in it.
Play(q) ==
    /\ q \notin tiles /\ tiles' = tiles \cup {q}
    /\ UNCHANGED <<clock, region, mapped, member, pending, shapes, mapping, remap>>

Tick ==
    /\ clock < MaxTime /\ clock' = clock + 1
    /\ UNCHANGED <<region, tiles, mapped, member, pending, shapes, mapping, remap>>

\* The operator's loader replaces a region, once a second at most.
Store(c, shape) ==
    /\ region[c] # None => region[c].stamp < clock
    /\ region' = [region EXCEPT ![c] = [stamp |-> clock, shape |-> shape]]
    /\ pending' = pending \cup {c}
    /\ UNCHANGED <<clock, tiles, mapped, member, shapes, mapping, remap>>

(* map_new_cells.                                                             *)

\* Only the newest stamp.
NewestStamp == MapThenFoldSet(LAMBDA x, y : IF x > y THEN x ELSE y, 0,
                              LAMBDA c : region[c].stamp, LAMBDA s : CHOOSE c \in s : TRUE, Stored)

\* _region_signature: how many, the newest, the sum.
Signature ==
    <<Cardinality(Stored), NewestStamp, MapThenSumSet(LAMBDA c : region[c].stamp, Stored)>>

\* _lazy_index drops what is not of the version stored.
KeptShapes ==
    [c \in Codes |-> IF shapes[c] # None /\ c \in Stored /\ shapes[c].stamp = region[c].stamp
                     THEN shapes[c] ELSE None]

\* A batch of untested squares, the signature and every region's stamp.  The
\* loop waits for the regions to be still before its first batch, not between.
StartBatch(qs) ==
    /\ \/ mapping.at = "idle" /\ clock - NewestStamp >= StableFor
       \/ mapping.at = "again"
    /\ Stored # {} /\ qs \subseteq tiles \ mapped /\ qs # {}
    /\ Cardinality(qs) = IF Cardinality(tiles \ mapped) < Batch
                         THEN Cardinality(tiles \ mapped) ELSE Batch
    /\ mapping' = [at |-> "testing", squares |-> qs, sig |-> Signature,
                   stamps |-> [c \in Stored |-> region[c].stamp], left |-> Stored, inside |-> {}]
    /\ shapes' = KeptShapes
    /\ UNCHANGED <<clock, region, tiles, mapped, member, pending, remap>>

\* One region's shape, from the cache or read in a connection of its own; a
\* version other than the one that was seen counts as no shape (_load_shape).
Test(c) ==
    /\ mapping.at = "testing" /\ c \in mapping.left
    /\ LET loaded == IF shapes[c] # None THEN shapes[c]
                     ELSE IF region[c] # None /\ region[c].stamp = mapping.stamps[c]
                          THEN region[c] ELSE None
           hits == IF loaded = None THEN {} ELSE mapping.squares \cap loaded.shape
       IN
        /\ shapes' = [shapes EXCEPT ![c] = loaded]
        /\ mapping' = [mapping EXCEPT !.left = @ \ {c},
                                      !.inside = @ \cup ({c} \X hits)]
    /\ UNCHANGED <<clock, region, tiles, mapped, member, pending, remap>>

\* The transaction: nothing is written when the signature moved.  After that,
\* or a full batch, there is another.
WriteBatch ==
    /\ mapping.at = "testing" /\ mapping.left = {}
    /\ \/ /\ Signature = mapping.sig
          /\ mapped' = mapped \cup mapping.squares
          /\ member' = member \cup mapping.inside
          /\ mapping' = [at |-> IF Cardinality(mapping.squares) = Batch THEN "again" ELSE "idle"]
       \/ /\ Signature # mapping.sig
          /\ mapping' = [at |-> "again"]
          /\ UNCHANGED <<mapped, member>>
    /\ UNCHANGED <<clock, region, tiles, pending, shapes, remap>>

\* Nothing is left to map, the worker stops, or its write found the database
\* busy too often.
Abandon ==
    /\ mapping.at # "idle" /\ mapping' = Idle
    /\ shapes' \in {shapes, [c \in Codes |-> None]}
    /\ UNCHANGED <<clock, region, tiles, mapped, member, pending, remap>>

(* remap_regions.                                                             *)

\* The stamps of the regions asked for and the squares mapped so far.
StartRemap(cs) ==
    /\ remap.at = "idle" /\ cs # {} /\ cs \subseteq Stored
    /\ remap' = [at |-> "next", stamps |-> [c \in cs |-> region[c].stamp],
                 left |-> cs, snapshot |-> mapped]
    /\ UNCHANGED <<clock, region, tiles, mapped, member, pending, shapes, mapping>>

\* One region: its shape as it was seen, its rows as they are now.
Compare(c) ==
    /\ remap.at = "next" /\ c \in remap.left
    /\ LET shape == IF region[c].stamp = remap.stamps[c] THEN region[c].shape ELSE {}
           new == remap.snapshot \cap shape
           old == {q \in remap.snapshot : <<c, q>> \in member}
       IN remap' = [at |-> "writing", code |-> c, add |-> new \ old, drop |-> old \ new,
                    stamps |-> remap.stamps, left |-> remap.left \ {c},
                    snapshot |-> remap.snapshot]
    /\ UNCHANGED <<clock, region, tiles, mapped, member, pending, shapes, mapping>>

\* _write_chunk: the region is still the one that was compared.
StillThat(c) == region[c].stamp = remap.stamps[c]

\* The next chunk of at most _TXN_ROWS rows, additions first.
WriteChunk(add, drop) ==
    /\ remap.at = "writing" /\ add \subseteq remap.add /\ drop \subseteq remap.drop
    /\ Cardinality(add \cup drop) \in 1..TxnRows
    /\ drop # {} => add = remap.add
    /\ StillThat(remap.code)
    /\ member' = (member \cup ({remap.code} \X add)) \ ({remap.code} \X drop)
    /\ remap' = [remap EXCEPT !.add = @ \ add, !.drop = @ \ drop]
    /\ UNCHANGED <<clock, region, tiles, mapped, pending, shapes, mapping>>

\* The region's difference is written, or the region is a newer remap's.
EndRegion ==
    /\ remap.at = "writing"
    /\ \/ remap.add = {} /\ remap.drop = {}
       \/ ~StillThat(remap.code)
    /\ pending' = IF region[remap.code].stamp = remap.stamps[remap.code]
                  THEN pending \ {remap.code} ELSE pending
    /\ remap' = IF remap.left = {} THEN Idle
                ELSE [at |-> "next", stamps |-> remap.stamps, left |-> remap.left,
                      snapshot |-> remap.snapshot]
    /\ UNCHANGED <<clock, region, tiles, mapped, member, shapes, mapping>>

\* The process that remaps stops.
StopRemap ==
    /\ remap.at # "idle" /\ remap' = Idle
    /\ UNCHANGED <<clock, region, tiles, mapped, member, pending, shapes, mapping>>

Next ==
    \/ Tick \/ WriteBatch \/ Abandon \/ EndRegion \/ StopRemap
    \/ \E q \in Squares : Play(q)
    \/ \E c \in Codes : Test(c) \/ Compare(c) \/ \E shape \in Shapes : Store(c, shape)
    \/ \E qs \in SUBSET Squares :
        StartBatch(qs) \/ \E ds \in SUBSET Squares : WriteChunk(qs, ds)
    \/ \E cs \in SUBSET Codes : StartRemap(cs)

Spec == Init /\ [][Next]_regionVars

\* Over the squares that were mapped, a region has the members its boundary
\* gives it, once a remap that began after its last replacement is through,
\* whatever was mapped, cached, written in chunks or given up meanwhile.
MembershipIsCurrent ==
    \A c \in Stored \ pending :
        {q \in mapped : <<c, q>> \in member} = mapped \cap region[c].shape
=============================================================================
