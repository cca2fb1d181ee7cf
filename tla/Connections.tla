---------------------------- MODULE Connections -----------------------------
(***************************************************************************)
(* Nets and observation sources, the two tables of connectors, as the      *)
(* admin routes of the web processes edit and convert them                 *)
(* (app/admin_ops.py), and the broker connections the MQTT subscriber of   *)
(* the worker keeps in line with them (app/mqtt_subscriber.py).            *)
(*                                                                         *)
(* A row is its identity, the broker it names and what shapes the          *)
(* connection: credentials and topic filter; "on" is enabled and of an     *)
(* MQTT kind.  Left out: labels' wording, schedules and communities, the   *)
(* poll-status columns, and the message buffer, whose reader is CheckIn.   *)
(***************************************************************************)
EXTENDS Naturals, FiniteSets

CONSTANTS
    Procs,       \* web processes
    Urls,        \* broker addresses
    Malformed,   \* those that pass the prefix check and do not parse
    Filters,     \* topic filters
    Creds,
    MaxRows,     \* bound on the rows ever inserted
    MaxEdits,    \* bound on the admin writes
    FaultLimit,  \* bound: dropped connections, failed status writes, restarts
    None

VARIABLES
    rows,      \* checkin_net and observation_source
    lastId,    \* AUTOINCREMENT; one count for both tables
    request,   \* what each web process validated and has yet to commit
    nets,      \* the nets the reconciler has read this cycle, or None
    client,    \* _brokers: the connection to each broker, or None
    live,      \* observer: connectors created, and not deleted by an admin
    edits, faults

vars == <<rows, lastId, request, nets, client, live, edits, faults>>

Row(id, table, name, url, filter, cred, on) ==
    [id |-> id, table |-> table, name |-> name, url |-> url,
     filter |-> filter, cred |-> cred, on |-> on]

Other(table) == IF table = "net" THEN "source" ELSE "net"

Init ==
    /\ rows = {} /\ lastId = 0 /\ live = {}
    /\ request = [p \in Procs |-> None]
    /\ nets = None
    /\ client = [u \in Urls |-> None]
    /\ edits = 0 /\ faults = 0

-----------------------------------------------------------------------------
(* The admin routes.  A row is read and the form validated before BEGIN      *)
(* IMMEDIATE: the other processes may commit in between.                     *)

Edit == edits < MaxEdits /\ edits' = edits + 1

Create(p) ==
    /\ request[p] = None /\ Edit
    /\ lastId < MaxRows /\ lastId' = lastId + 1
    /\ \E t \in {"net", "source"}, u \in Urls, f \in Filters, c \in Creds :
          rows' = rows \cup {Row(lastId', t, lastId', u, f, c, TRUE)}
    /\ live' = live \cup {lastId'}
    /\ UNCHANGED <<request, nets, client, faults>>

\* A blank password keeps the one just read.
OpenUpdate(p, r) ==
    /\ request[p] = None /\ Edit
    /\ \E u \in Urls, f \in Filters, c \in Creds \cup {r.cred}, on \in BOOLEAN :
          request' = [request EXCEPT ![p] =
              [op |-> "update", row |-> Row(r.id, r.table, r.name, u, f, c, on)]]
    /\ UNCHANGED <<rows, lastId, nets, client, live, faults>>

OpenConvert(p, r) ==
    /\ request[p] = None /\ Edit
    /\ request' = [request EXCEPT ![p] = [op |-> "convert", row |-> r]]
    /\ UNCHANGED <<rows, lastId, nets, client, live, faults>>

Without(id) == {r \in rows : r.id # id}
Exists(id) == \E r \in rows : r.id = id

\* An UPDATE of no row is a 404.
CommitUpdate(p) ==
    /\ request[p] # None /\ request[p].op = "update"
    /\ LET r == request[p].row
       IN  rows' = IF Exists(r.id) THEN Without(r.id) \cup {r} ELSE rows
    /\ request' = [request EXCEPT ![p] = None]
    /\ UNCHANGED <<lastId, nets, client, live, edits, faults>>

\* The old row is gone and the new one never comes.
ConvertedToNothing(r) == Without(r.id)

\* The row read goes, if it is still there; one like it enters the other table.
Converted(r) ==
    Without(r.id) \cup
        {Row(lastId + 1, Other(r.table), r.name, r.url, r.filter, r.cred, r.on)}

CommitConvert(p) ==
    /\ request[p] # None /\ request[p].op = "convert"
    /\ lastId < MaxRows /\ lastId' = lastId + 1
    /\ rows' = Converted(request[p].row)
    /\ request' = [request EXCEPT ![p] = None]
    /\ UNCHANGED <<nets, client, live, edits, faults>>

\* A commit that fails rolls both halves back.
CommitFails(p) ==
    /\ request[p] # None
    /\ request' = [request EXCEPT ![p] = None]
    /\ UNCHANGED <<rows, lastId, nets, client, live, edits, faults>>

\* The row is looked up inside the transaction, its label compared.
Delete(p, r) ==
    /\ request[p] = None /\ Edit
    /\ rows' = Without(r.id)
    /\ live' = live \ {r.name}
    /\ UNCHANGED <<lastId, request, nets, client, faults>>

-----------------------------------------------------------------------------
(* The subscriber *)

Enabled(table) == {r \in rows : r.table = table /\ r.on}

\* The order of the two SELECTs: nets, then sources, each by id.
Before(r, s) ==
    \/ r.table = "net" /\ s.table = "source"
    \/ r.table = s.table /\ r.id < s.id
First(group) == CHOOSE r \in group : \A s \in group \ {r} : Before(r, s)

Union(group) == {r.filter : r \in group}

\* What a connection is compared by, were it only its first row.
PrimaryPrint(group) == [cred |-> First(group).cred, filter |-> First(group).filter]

\* fingerprint: the first row's credentials and every row's filter.
Fingerprint(group) == [cred |-> First(group).cred, filters |-> Union(group)]

On(url, read) == {r \in read : r.url = url}

\* A malformed address raises where its connection would be built: the urls
\* that come after it wait for another cycle.
Reached(url, read) ==
    \A m \in Malformed : On(m, read) # {} =>
        url # m /\ Before(First(On(url, read)), First(On(m, read)))

Opened(group) == [rows |-> group, filters |-> {}, state |-> "connecting"]

Refreshed(url, read) ==
    LET group == On(url, read)
        c == client[url]
    IN  IF group = {} THEN None
        ELSE IF ~Reached(url, read) THEN c
        ELSE IF c # None /\ Fingerprint(c.rows) = Fingerprint(group)
             THEN [c EXCEPT !.rows = group]
        ELSE Opened(group)

\* _reconcile_once reads one table and then the other, in no transaction.
ReadNets ==
    /\ nets = None
    /\ nets' = Enabled("net")
    /\ UNCHANGED <<rows, lastId, request, client, live, edits, faults>>

ReadSources ==
    /\ nets # None
    /\ nets' = None
    /\ client' = [u \in Urls |-> Refreshed(u, nets \cup Enabled("source"))]
    /\ UNCHANGED <<rows, lastId, request, live, edits, faults>>

-----------------------------------------------------------------------------
(* Callbacks on the threads of the MQTT library, which reconnects by itself *)

OnConnect(u) ==
    /\ client[u] # None /\ client[u].state = "connecting"
    /\ client' = [client EXCEPT ![u].state = "up", ![u].filters = Union(client[u].rows)]
    /\ UNCHANGED <<rows, lastId, request, nets, live, edits, faults>>

Fault == faults < FaultLimit /\ faults' = faults + 1

\* A refused connection, a lost one: the status is written, the library retries.
OnDisconnect(u) ==
    /\ client[u] # None /\ client[u].state = "up" /\ Fault
    /\ client' = [client EXCEPT ![u].state = "connecting", ![u].filters = {}]
    /\ UNCHANGED <<rows, lastId, request, nets, live, edits>>

\* _record_status cannot begin its transaction, and its ROLLBACK raises: the
\* exception ends the library's thread.
StatusWriteFails(u) ==
    /\ client[u] # None /\ client[u].state # "dead" /\ Fault
    /\ client' = [client EXCEPT ![u].state = "dead", ![u].filters = {}]
    /\ UNCHANGED <<rows, lastId, request, nets, live, edits>>

\* The worker restarts.
Restart ==
    /\ Fault
    /\ client' = [u \in Urls |-> None] /\ nets' = None
    /\ UNCHANGED <<rows, lastId, request, live, edits>>

-----------------------------------------------------------------------------
Reconcile == ReadNets \/ ReadSources

Next ==
    \/ \E p \in Procs :
          \/ Create(p) \/ CommitUpdate(p) \/ CommitConvert(p) \/ CommitFails(p)
          \/ \E r \in rows : OpenUpdate(p, r) \/ OpenConvert(p, r) \/ Delete(p, r)
    \/ Reconcile
    \/ \E u \in Urls : OnConnect(u) \/ OnDisconnect(u) \/ StatusWriteFails(u)
    \/ Restart

\* The reconciler's loop goes round, and a reachable broker answers.
Fairness == WF_vars(Reconcile) /\ \A u \in Urls : WF_vars(OnConnect(u))

Spec == Init /\ [][Next]_vars /\ Fairness

-----------------------------------------------------------------------------
(* Properties *)

\* A connector exists, in one table or the other, until an admin deletes it,
\* whichever processes convert and edit it at the same time.
ConversionLosesNothing == live \subseteq {r.name : r \in rows}

Wanted(u) == On(u, Enabled("net") \cup Enabled("source"))
Serves(u) ==
    IF Wanted(u) = {} THEN client[u] = None
    ELSE /\ client[u] # None
         /\ \/ client[u].state = "dead"
            \/ /\ client[u].state = "up" /\ client[u].rows = Wanted(u)
               /\ client[u].filters = Union(Wanted(u))

\* Edits take effect without a restart: once they stop, every broker comes to
\* serve exactly the enabled rows that name it, unless an enabled row's address
\* cannot be parsed or the broker's own thread has died.
EditsTakeEffect ==
    <>[]((\A m \in Malformed : Wanted(m) = {}) => \A u \in Urls : Serves(u))
=============================================================================
