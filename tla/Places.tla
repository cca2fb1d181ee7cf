------------------------------- MODULE Places -------------------------------
(* Places Worth Going: the seed load of app/places_seed.py, the weekly draw  *)
(* of app/place_rotation.py and the credits of app/place_scoring.py.         *)
(*                                                                           *)
(* A process that runs the background tasks loads the seed file when it      *)
(* starts, if the file is not the one the database says it holds; a load     *)
(* commits in batches and says so only at its end.  There should be one such *)
(* process, but the setting's default makes every process one.  A week's     *)
(* draw is made by whoever first needs it: a scoring transaction, or a       *)
(* reader that writes it in a transaction of its own.  A time unit is a      *)
(* week.                                                                     *)
(*                                                                           *)
(* Left out: how a place is classified and which cells it has (a visit       *)
(* reaches any places that are loaded), regions other than one, and visits   *)
(* that score nothing.                                                       *)
EXTENDS Integers, FiniteSets, Sequences, SequencesExt

CONSTANTS
    Players, Boards,
    Places,         \* 1..n
    Files,          \* the seed files, in the order operators install them
    Procs,          \* the processes on the database
    Loaders,        \* those with run_background_tasks
    Near,           \* pairs of places closer than MIN_SPACING_MILES
    Quota,          \* region_quota
    Cap,            \* WEEKLY_CAP_POINTS
    BatchPlaces,    \* _COMMIT_BATCH_PLACES
    Rollback,       \* may an older file be installed again
    MaxVisits, MaxStops, MaxFiles,   \* bounds
    Horizon,        \* the last week of the model
    None

\* What the file says of a place, and what the table does.
SeedRows == [points : Nat, rotates : BOOLEAN]
PlaceRows == [points : Nat, rotates : BOOLEAN, active : BOOLEAN]

ASSUME PlaceNumbers ==
    /\ {Quota, Cap, BatchPlaces, MaxVisits, MaxStops, MaxFiles, Horizon} \subseteq Nat
    /\ BatchPlaces > 0
ASSUME LoadersAreProcs == Loaders \subseteq Procs
ASSUME FilesRatePlaces ==
    /\ Len(Files) > 0
    /\ \A k \in 1..Len(Files) : Files[k] \in [Places -> SeedRows \cup {None}]
ASSUME NoneIsNothing == None \notin Nat \cup SeedRows \cup PlaceRows
ASSUME NoneIsNoLoad == \A k \in 1..Len(Files), rows \in SUBSET Places : [file |-> k, left |-> rows] # None

Weeks == 0..Horizon

VARIABLES
    now,
    disk,      \* the installed file, an index into Files
    up,        \* the processes that run
    load,      \* per process: the file and the places still to load, or None
    place,     \* per place: points, rotates, active; or None
    stored,    \* the fingerprint in cursor, or None
    draw,      \* place_week
    reader,    \* a reader's week and draw before its transaction, or None
    acts,      \* place_activation; and did the place rotate
    spent      \* visits, stops and files so far

vars == <<now, disk, up, load, place, stored, draw, reader, acts, spent>>

Init ==
    /\ now = 0
    /\ disk = 1
    /\ up = {} /\ load = [q \in Procs |-> None]
    /\ place = [p \in Places |-> None]
    /\ stored = None
    /\ draw = [w \in Weeks |-> {}]
    /\ reader = None
    /\ acts = {}
    /\ spent = [visits |-> 0, stops |-> 0, files |-> 0]

-----------------------------------------------------------------------------
(* The seed.                                                                 *)

Kept(file) == {p \in Places : file[p] # None}

\* The fingerprint in the database after a commit of this load, the last one or not.
\* Mutation: any commit records it.
RecordedAtOnce(k, last) == k

Recorded(k, last) == IF last THEN k ELSE stored

\* Start a process: init_db, whose background load does nothing if the database holds
\* the file.
Start(q) ==
    /\ q \notin up
    /\ up' = up \cup {q}
    /\ load' = [load EXCEPT ![q] =
                  IF \/ q \notin Loaders
                     \/ stored = disk /\ \E p \in Places : place[p] # None
                  THEN None
                  ELSE [file |-> disk, left |-> Kept(Files[disk])]]
    /\ UNCHANGED <<now, disk, place, stored, draw, reader, acts, spent>>

\* One commit of load_places_seed: a full batch, or the rest of the file with the
\* places that left it retired and the fingerprint recorded.
LoadBatch(q) ==
    LET job == load[q]
        file == Files[job.file]
        last == Cardinality(job.left) < BatchPlaces
    IN  /\ job # None
        /\ \E batch \in SUBSET job.left :
             /\ IF last THEN batch = job.left ELSE Cardinality(batch) = BatchPlaces
             /\ place' = [p \in Places |->
                  IF p \in batch THEN [points |-> file[p].points, rotates |-> file[p].rotates, active |-> TRUE]
                  ELSE IF last /\ place[p] # None /\ p \notin Kept(file) THEN [place[p] EXCEPT !.active = FALSE]
                  ELSE place[p]]
             /\ load' = [load EXCEPT ![q] = IF last THEN None ELSE [file |-> job.file, left |-> job.left \ batch]]
        /\ stored' = Recorded(job.file, last)
        /\ UNCHANGED <<now, disk, up, draw, reader, acts, spent>>

\* The load raises: what it committed stays.
LoadFails(q) ==
    /\ load[q] # None
    /\ load' = [load EXCEPT ![q] = None]
    /\ UNCHANGED <<now, disk, up, place, stored, draw, reader, acts, spent>>

\* A process stops, or crashes.
Stop(q) ==
    /\ q \in up
    /\ spent.stops < MaxStops
    /\ spent' = [spent EXCEPT !.stops = @ + 1]
    /\ up' = up \ {q}
    /\ load' = [load EXCEPT ![q] = None]
    /\ reader' = None
    /\ UNCHANGED <<now, disk, place, stored, draw, acts>>

\* Another file is installed, while nothing runs.
InstallFile ==
    /\ up = {}
    /\ spent.files < MaxFiles
    /\ spent' = [spent EXCEPT !.files = @ + 1]
    /\ disk' \in (IF Rollback THEN 1..Len(Files) ELSE disk+1..Len(Files)) \ {disk}
    /\ UNCHANGED <<now, up, load, place, stored, draw, reader, acts>>

-----------------------------------------------------------------------------
(* The draw.                                                                 *)

Active(p) == place[p] # None /\ place[p].active

Spaced(p, chosen) == \A c \in chosen : {p, c} \notin Near

\* _compute_week: the week's shuffle, last week's places at the end, as many as the
\* quota allows and no two of them near each other.
ComputeWeek(w, dr) ==
    LET before == IF w = 0 THEN {} ELSE dr[w - 1]
        rank(p) == (IF p \in before THEN 100 ELSE 0) + ((p + w) % Cardinality(Places))
        order == SetToSortSeq({p \in Places : Active(p) /\ place[p].rotates},
                              LAMBDA p, c : rank(p) < rank(c))
    IN  FoldLeft(LAMBDA chosen, p : IF Cardinality(chosen) < Quota /\ Spaced(p, chosen)
                                    THEN chosen \cup {p} ELSE chosen, {}, order)

\* Mutation: a later writer's draw replaces the stored one.
StoreReplacing(dr, w, chosen) == [dr EXCEPT ![w] = chosen]

\* INSERT OR IGNORE of every place chosen.
Store(dr, w, chosen) == [dr EXCEPT ![w] = @ \cup chosen]

\* ensure_week_resolved inside a transaction.
Ensured(dr, w) == IF dr[w] = {} THEN Store(dr, w, ComputeWeek(w, dr)) ELSE dr

\* ensure_week_resolved from a reader: it finds no draw and computes one.
ReaderComputes(w) ==
    /\ up # {} /\ reader = None
    /\ draw[w] = {}
    /\ reader' = [week |-> w, chosen |-> ComputeWeek(w, draw)]
    /\ UNCHANGED <<now, disk, up, load, place, stored, draw, acts, spent>>

\* And writes it in its own transaction.
ReaderStores ==
    /\ reader # None
    /\ draw' = Store(draw, reader.week, reader.chosen)
    /\ reader' = None
    /\ UNCHANGED <<now, disk, up, load, place, stored, acts, spent>>

-----------------------------------------------------------------------------
(* Credits.                                                                  *)

PointsOf(rows) == FoldLeft(LAMBDA sum, a : sum + a.points, 0, SetToSeq(rows))

RowsOf(p, w) == {a \in acts : a.player = p /\ a.week = w}

Already(p, w, b) == PointsOf(RowsOf(p, w))

Least(a, b) == IF a < b THEN a ELSE b

\* credit_places, of a ping of week w that reaches these places, in the transaction
\* that scores it: the best live place, once a week, up to the cap.
Visit(p, b, w, reached) ==
    LET drawn == Ensured(draw, w)
        live == {c \in reached : Active(c) /\ (place[c].rotates => c \in drawn[w])}
        remaining == Cap - Already(p, w, b)
        Best(c) == \A d \in live : \/ place[d].points < place[c].points
                                 \/ (place[d].points = place[c].points /\ c <= d)
        credited == {c \in live : Best(c) /\ remaining > 0 /\ \A a \in RowsOf(p, w) : a.place # c}
    IN  /\ up # {}
        /\ spent.visits < MaxVisits
        /\ spent' = [spent EXCEPT !.visits = @ + 1]
        /\ draw' = drawn
        /\ acts' = acts \cup
                     {[place |-> c, player |-> p, board |-> b, week |-> w,
                       points |-> Least(place[c].points, remaining),
                       rotated |-> place[c].rotates] : c \in credited}
        /\ UNCHANGED <<now, disk, up, load, place, stored, reader>>

Tick ==
    /\ now < Horizon
    /\ now' = now + 1
    /\ UNCHANGED <<disk, up, load, place, stored, draw, reader, acts, spent>>

Loaded == {c \in Places : place[c] # None}

Next ==
    \/ \E q \in Procs : Start(q) \/ LoadBatch(q) \/ LoadFails(q) \/ Stop(q)
    \/ InstallFile
    \/ \E w \in 0..now : ReaderComputes(w)
    \/ ReaderStores
    \/ \E p \in Players, b \in Boards, w \in 0..now, reached \in SUBSET Loaded \ {{}} : Visit(p, b, w, reached)
    \/ Tick

Spec == Init /\ [][Next]_vars

-----------------------------------------------------------------------------
(* Properties.                                                               *)

\* A rotating place that earned someone points in a week stays in that week's draw,
\* whoever else resolves the week.
CreditedStaysDrawn == \A a \in acts : a.rotated => a.place \in draw[a.week]

Holds(p, file) == Active(p) /\ place[p].points = file[p].points /\ place[p].rotates = file[p].rotates

\* "A load that dies halfway leaves the places it had already committed.  The next
\* startup reloads from scratch (the fingerprint only records a COMPLETED load), so
\* this is self-healing" (load_places_seed): when the database says it holds the
\* installed file, it does, and holds no other place.
SelfHealing ==
    stored = disk =>
        \A p \in Places : IF p \in Kept(Files[disk]) THEN Holds(p, Files[disk]) ELSE ~Active(p)

\* "Every later call (this week, any player, any process) sees the same stored result"
\* (ensure_week_resolved).
DrawIsFinal == [][\A w \in Weeks : draw[w] # {} => draw'[w] = draw[w]]_vars
=============================================================================
