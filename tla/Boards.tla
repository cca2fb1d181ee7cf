------------------------------- MODULE Boards -------------------------------
(***************************************************************************)
(* How a board answer is served: each web process keeps serialized answers *)
(* for board_cache_seconds, reads the rows the worker publishes in         *)
(* board_cache, and builds inline when there is no row to trust            *)
(* (app/mc_api.py); /get-nodes is served in two shapes, with and without   *)
(* team attribution (app/api.py).  Time is a tick; every entry carries its *)
(* own age, so the clock needs no bound.  Keys that are not built together *)
(* share only the publisher's time, so a behaviour follows one family.     *)
(***************************************************************************)
EXTENDS Naturals, FiniteSets

CONSTANTS
    Procs,          \* the web processes, each with a _BOARD_CACHE of its own
    Reach,          \* bound: the processes asked for a family's keys
    Clients,
    Keys,           \* the cache keys
    Boards,         \* what the tables behind the boards can hold
    Shapes,         \* the shapes a payload is cut to
    Shape,          \* [Keys -> Shapes]
    Families,       \* sets of keys built from one base
    Published,      \* the keys the worker publishes
    SharedTtl,      \* shared_ttl of the keys that have one: a function of them
    Ttl,            \* board_cache_seconds
    BuildTime,      \* bound: ticks an inline build can take
    PublishTime,    \* bound: ticks from the publisher's read to its write
    FaultLimit,     \* bound: publishes and row writes that fail
    None

Shared == DOMAIN SharedTtl

VARIABLES
    family,     \* the keys this behaviour follows
    board,      \* what a build would read now
    row,        \* board_cache, by key
    cache,      \* _BOARD_CACHE of each process, by key
    request,    \* what each process is building inline, or None
    publisher,  \* the publish cycle under way, or None
    session,    \* is the client signed in?
    asked,      \* the key of the client's last answered request
    shown,      \* the body the client holds
    tag,        \* and the ETag that came with it
    faults

vars == <<family, board, row, cache, request, publisher, session, asked, shown, tag, faults>>
clientVars == <<session, asked, shown, tag>>

----------------------------------------------------------------------------
(* Entries *)

\* The payload of a key: one build of the board, cut to the key's shape.
Payload(k, b) == [shape |-> Shape[k], board |-> b]

\* A digest of the base and not of the body cut from it.
DigestOfBase(body) == body.board

\* The ETag: a digest of the plaintext body, as good as the body itself.
Digest(body) == body

\* An entry just built from b; lag counts the ticks since b was read.
Entry(k, b, lag) ==
    [body |-> Payload(k, b), etag |-> Digest(Payload(k, b)), age |-> 0,
     lag |-> IF k \in Shared THEN lag ELSE 0]

\* A tick later.  Ages matter up to what they are compared with, lags for
\* the keys whose rows expire.
Older(k, e) ==
    IF k \in Shared
    THEN [e EXCEPT !.age = IF @ > SharedTtl[k] THEN @ ELSE @ + 1,
                   !.lag = IF e.age > SharedTtl[k] THEN @ ELSE @ + 1]
    ELSE e

\* An entry of a process expires with board_cache_seconds.
CacheOlder(k, e) ==
    IF e = None \/ e.age + 1 >= Ttl THEN None
    ELSE [e EXCEPT !.age = @ + 1, !.lag = IF k \in Shared THEN @ + 1 ELSE @]

\* _read_board_cache_row: a row nothing refreshes is trusted only while young;
\* the entry it makes starts a TTL of its own.
TrustedAtAnyAge(k) == row[k] # None
Trusted(k) == row[k] # None /\ (k \in Shared => row[k].age <= SharedTtl[k])
FromRow(k) == [row[k] EXCEPT !.age = 0]

----------------------------------------------------------------------------
Init ==
    /\ family \in Families
    /\ board \in Boards
    /\ row = [k \in family |-> None]
    /\ cache = [p \in Procs |-> [k \in family |-> None]]
    /\ request = [p \in Procs |-> None]
    /\ publisher = None
    /\ session = [c \in Clients |-> FALSE]
    /\ asked = [c \in Clients |-> None]
    /\ shown = [c \in Clients |-> None]
    /\ tag = [c \in Clients |-> None]
    /\ faults = 0

\* The game goes on: paints, captures, check-ins, a season roll.
Change ==
    /\ \E b \in Boards \ {board} : board' = b
    /\ UNCHANGED <<family, row, cache, request, publisher, faults, clientVars>>

\* A tick.  Nothing takes longer than its bound.
Tick ==
    /\ \A p \in Procs : request[p] # None => request[p].lag < BuildTime
    /\ publisher # None => publisher.lag < PublishTime
    /\ row' = [k \in family |-> IF row[k] = None THEN None ELSE Older(k, row[k])]
    /\ cache' = [p \in Procs |-> [k \in family |-> CacheOlder(k, cache[p][k])]]
    /\ request' = [p \in Procs |-> IF request[p] = None THEN None
                                   ELSE [request[p] EXCEPT !.lag = @ + 1]]
    /\ publisher' = IF publisher = None THEN None ELSE [publisher EXCEPT !.lag = @ + 1]
    /\ UNCHANGED <<family, board, faults, clientVars>>

\* The player signs in or out between two requests; only /get-nodes cares.
ToggleSession(c) ==
    /\ \E k \in family : Shape[k] = "authed"
    /\ session' = [session EXCEPT ![c] = ~@]
    /\ UNCHANGED <<family, board, row, cache, request, publisher, asked, shown, tag, faults>>

----------------------------------------------------------------------------
(* A request, in a process that is not busy building *)

\* answer: 304 and no body to a client that holds the ETag, else the body.
Answer(c, k, e) ==
    /\ asked' = [asked EXCEPT ![c] = k]
    /\ shown' = [shown EXCEPT ![c] = IF tag[c] = e.etag THEN @ ELSE e.body]
    /\ tag' = [tag EXCEPT ![c] = e.etag]
    /\ UNCHANGED session

\* get_nodes picks the key by the presence of a session; the region and the
\* group answers have one shape for all.
MayAsk(c, k) == Shape[k] = "authed" => session[c]
AsksFor(c, k) == MayAsk(c, k) /\ (Shape[k] = "public" => ~session[c])

\* Tier 1: the process's own entry.
Hit(p, c, k) ==
    /\ request[p] = None /\ AsksFor(c, k)
    /\ cache[p][k] # None
    /\ Answer(c, k, cache[p][k])
    /\ UNCHANGED <<family, board, row, cache, request, publisher, faults>>

\* Tier 2: the shared row, copied into the process.
ReadRow(p, c, k) ==
    /\ request[p] = None /\ AsksFor(c, k)
    /\ cache[p][k] = None /\ Trusted(k)
    /\ cache' = [cache EXCEPT ![p][k] = FromRow(k)]
    /\ Answer(c, k, FromRow(k))
    /\ UNCHANGED <<family, board, row, request, publisher, faults>>

\* Tier 3: no entry and no row.  The build reads the tables...
StartBuild(p, c, k) ==
    /\ request[p] = None /\ AsksFor(c, k)
    /\ cache[p][k] = None /\ ~Trusted(k)
    /\ request' = [request EXCEPT ![p] = [client |-> c, key |-> k, board |-> board, lag |-> 0]]
    /\ UNCHANGED <<family, board, row, cache, publisher, faults, clientVars>>

\* ... and is kept from when the request began; a shared key's row is
\* stamped with the time of its write, or not written at all.
FinishBuild(p) ==
    /\ request[p] # None
    /\ LET q == request[p]
           e == Entry(q.key, q.board, q.lag)
       IN  /\ cache' = [cache EXCEPT ![p][q.key] = IF q.lag >= Ttl THEN None
                                                   ELSE [e EXCEPT !.age = q.lag]]
           /\ Answer(q.client, q.key, e)
           /\ \/ /\ q.key \in Shared
                 /\ row' = [row EXCEPT ![q.key] = e]
                 /\ UNCHANGED faults
              \/ /\ q.key \in Shared => faults < FaultLimit
                 /\ faults' = IF q.key \in Shared THEN faults + 1 ELSE faults
                 /\ UNCHANGED row
    /\ request' = [request EXCEPT ![p] = None]
    /\ UNCHANGED <<family, board, publisher>>

\* A process restarts: its memory is empty.
Restart(p) ==
    /\ cache' = [cache EXCEPT ![p] = [k \in family |-> None]]
    /\ request' = [request EXCEPT ![p] = None]
    /\ UNCHANGED <<family, board, row, publisher, faults, clientVars>>

----------------------------------------------------------------------------
(* The worker's publisher *)

\* One base is built for all the keys of a registration.
BuildBase ==
    /\ publisher = None /\ family \subseteq Published
    /\ publisher' = [left |-> family, board |-> board, lag |-> 0, same |-> None]
    /\ UNCHANGED <<family, board, row, cache, request, faults, clientVars>>

KeyDone(k) ==
    LET left == publisher.left \ {k}
    IN  publisher' = IF left = {} THEN None
                     ELSE [publisher EXCEPT !.left = left, !.same = None]

AlreadyPublished(k) == row[k] # None
Unchanged(k) ==
    row[k] # None /\ row[k].etag = Digest(Payload(k, publisher.board))

\* The stored ETag is the payload's: a key nobody trusts by age is left alone,
\* the others are stamped again, in a transaction still to come.
SkipUnchanged(k) ==
    /\ publisher # None /\ k \in publisher.left
    /\ publisher.same = None /\ Unchanged(k)
    /\ IF k \in Shared THEN publisher' = [publisher EXCEPT !.same = k] ELSE KeyDone(k)
    /\ UNCHANGED <<family, board, row, cache, request, faults, clientVars>>

Touch(k) ==
    /\ publisher # None /\ publisher.same = k
    /\ row' = [row EXCEPT ![k].age = 0,
                          ![k].lag = IF Unchanged(k) THEN publisher.lag ELSE @]
    /\ KeyDone(k)
    /\ UNCHANGED <<family, board, cache, request, faults, clientVars>>

\* A new payload replaces the row.
Publish(k) ==
    /\ publisher # None /\ k \in publisher.left
    /\ publisher.same = None /\ ~Unchanged(k)
    /\ row' = [row EXCEPT ![k] = Entry(k, publisher.board, publisher.lag)]
    /\ KeyDone(k)
    /\ UNCHANGED <<family, board, cache, request, faults, clientVars>>

\* A key that fails costs itself this cycle, and no other.
PublishFails(k) ==
    /\ publisher # None /\ k \in publisher.left
    /\ publisher.same \in {None, k}
    /\ faults < FaultLimit
    /\ faults' = faults + 1
    /\ KeyDone(k)
    /\ UNCHANGED <<family, board, row, cache, request, clientVars>>

----------------------------------------------------------------------------
PublisherStep ==
    \/ BuildBase
    \/ \E k \in family : SkipUnchanged(k) \/ Touch(k) \/ Publish(k)

Next ==
    \/ Change \/ Tick
    \/ \E c \in Clients : ToggleSession(c)
    \/ \E p \in Reach[family], c \in Clients, k \in family :
          Hit(p, c, k) \/ ReadRow(p, c, k) \/ StartBuild(p, c, k)
    \/ \E p \in Reach[family] : FinishBuild(p) \/ Restart(p)
    \/ PublisherStep
    \/ \E k \in family : PublishFails(k)

\* The worker's loop goes round; a build ends;
\* time passes.
Fairness ==
    /\ WF_vars(Tick)
    /\ \A p \in Procs : WF_vars(FinishBuild(p))
    /\ WF_vars(PublisherStep)

Spec == Init /\ [][Next]_vars /\ Fairness

----------------------------------------------------------------------------
(* Properties *)

\* What a client sees after an answer is the payload cut for the key it was
\* answered under, also when the answer was a 304 and the client's own copy
\* came from another key: a signed-out client is not left looking at
\* attributed radios because an ETag matched (comment at _BOARD_CACHE).
ShownForAudience ==
    \A c \in Clients : asked[c] # None => shown[c].shape = Shape[asked[c]]

\* A regional answer is never older than its build, the age a shared row is
\* trusted for and the process's own TTL together, whichever of the other
\* processes and the publisher wrote, rewrote or re-stamped the row
\* (REGION_SHARED_TTL_S; the publisher's touch).
RegionalIsFresh ==
    \A p \in Procs, k \in Shared \cap family :
        cache[p][k] # None =>
            cache[p][k].lag <= BuildTime + PublishTime + SharedTtl[k] + Ttl - 1

Current(e, k) == e # None /\ e.body = Payload(k, board)

\* Once the board stops changing, every published row comes to hold it, and
\* no process goes on answering with an older one.
ReadersCatchUp ==
    <>[][board' = board]_board =>
        <>[](\A k \in Published \cap family :
                /\ Current(row[k], k)
                /\ \A p \in Procs : cache[p][k] # None => Current(cache[p][k], k))
=============================================================================
