------------------------------ MODULE Startup -------------------------------
(***************************************************************************)
(* Every process of the two roles runs init_db before it serves            *)
(* (app/db.py, app/main.py): the schema patches, three migrations that     *)
(* look at the shape of a table before they change it, and, in the worker  *)
(* alone, the seeds.  Connections run in autocommit: each statement stands *)
(* by itself unless the code opens a transaction, and the processes boot   *)
(* side by side.  A statement that fails ends the process; its container   *)
(* starts another.                                                         *)
(***************************************************************************)
EXTENDS Naturals, FiniteSets

CONSTANTS
    Web, Worker,   \* the processes of the web role, and the one worker
    Sessions,      \* account_session rows of before the migration
    Events,        \* freqmapper_verification rows of before the migration
    Kind,          \* [Events -> {"verified_tx", "passive_rx", "other"}]
    Indexes,       \* the indexes of mc_tile_capture_log
    MaxCaptures,   \* bound on the rows of that log
    CrashLimit,    \* bound on the crashes
    None

Processes == Web \cup {Worker}

VARIABLES
    session,   \* account_session: its columns, and what each row's text is
    events,    \* freqmapper_verification: its key column, and its rows
    log,       \* mc_tile_capture_log: does it insist on an actor, rows, indexes
    nets, config, salt,  \* checkin_net, a config singleton, the cursor row
    at,        \* where each process is in its boot
    held,      \* what it has read and will use
    hash,      \* the salt each process hashes with
    captured,  \* observer: the captures logged
    crashes

tables == <<session, events, log, nets, config, salt>>
vars == <<tables, at, held, hash, captured, crashes>>

Off(p) == at[p] = "off"

Init ==
    /\ session \in {[cols |-> {"user_agent", "ip"}, text |-> [s \in Sessions |-> "raw"]],
                    [cols |-> {"device_label"}, text |-> [s \in Sessions |-> "label"]]}
    /\ events \in {[key |-> "event_id", rows |-> Events, prefixed |-> Events],
                   [key |-> "verification_id", rows |-> Events, prefixed |-> {}]}
    /\ \E strict \in BOOLEAN : log = [strict |-> strict, rows |-> {1}, indexes |-> Indexes]
    /\ nets = {} /\ config = "default" /\ salt = None
    /\ at = [p \in Processes |-> "off"]
    /\ held = [p \in Processes |-> None]
    /\ hash = [p \in Processes |-> None]
    /\ captured = {1} /\ crashes = 0

-----------------------------------------------------------------------------
(* Stepping through a boot *)

Goes(p, from, to) == at[p] = from /\ at' = [at EXCEPT ![p] = to]
Fails(p) == at' = [at EXCEPT ![p] = "off"] /\ held' = [held EXCEPT ![p] = None]
Rest == UNCHANGED <<salt, hash, captured, crashes>>

\* init_db: the schema and the patches, each of which may already be there.
Boot(p) ==
    /\ Goes(p, "off", "session")
    /\ UNCHANGED <<tables, held>> /\ Rest

\* A statement that names a column the table does not have.
NoSuchColumn(p, from, present) ==
    /\ at[p] = from /\ ~present
    /\ Fails(p)
    /\ UNCHANGED tables /\ Rest

-----------------------------------------------------------------------------
(* _migrate_session_privacy, in no transaction *)

MigratesAlways == TRUE
HasIp == "ip" \in session.cols

SessionGate(p) ==
    /\ Goes(p, "session", IF HasIp THEN "read agents" ELSE "events")
    /\ UNCHANGED <<tables, held>> /\ Rest

ReadAgents(p) ==
    /\ "user_agent" \in session.cols
    /\ Goes(p, "read agents", "label")
    /\ held' = [held EXCEPT ![p] = session.text]
    /\ UNCHANGED tables /\ Rest

\* The parser knows a browser by its User-Agent, not by its own label for it.
Labelled(text) == IF text = "raw" THEN "label" ELSE "unknown"

\* The rows are rewritten one by one, from what was read.
LabelOne(p, s) ==
    /\ at[p] = "label" /\ held[p][s] # None
    /\ "user_agent" \in session.cols
    /\ session' = [session EXCEPT !.text[s] = Labelled(held[p][s])]
    /\ held' = [held EXCEPT ![p][s] = None]
    /\ UNCHANGED <<events, log, nets, config, at>> /\ Rest

AllLabelled(p) == at[p] = "label" /\ \A s \in Sessions : held[p][s] = None

RenameAgent(p) ==
    /\ AllLabelled(p)
    /\ "user_agent" \in session.cols
    /\ Goes(p, "label", "drop ip")
    /\ session' = [session EXCEPT !.cols = (@ \ {"user_agent"}) \cup {"device_label"}]
    /\ held' = [held EXCEPT ![p] = None]
    /\ UNCHANGED <<events, log, nets, config>> /\ Rest

DropIp(p) ==
    /\ HasIp
    /\ Goes(p, "drop ip", "events")
    /\ session' = [session EXCEPT !.cols = @ \ {"ip"}]
    /\ UNCHANGED <<events, log, nets, config, held>> /\ Rest

-----------------------------------------------------------------------------
(* _migrate_freqmapper_verification_verification_id, in no transaction *)

EventsGate(p) ==
    /\ Goes(p, "events", IF events.key = "event_id" THEN "drop passive" ELSE "log")
    /\ UNCHANGED <<tables, held>> /\ Rest

HasEventId == events.key = "event_id"
Of(kind) == {e \in events.rows : Kind[e] = kind}

\* passive_rx: rows are told by their prefix, and go: nothing was painted for them.
PassiveRows == Of("passive_rx") \cap events.prefixed

DropPassive(p) ==
    /\ HasEventId /\ Goes(p, "drop passive", "strip")
    /\ events' = [events EXCEPT !.rows = @ \ PassiveRows]
    /\ UNCHANGED <<session, log, nets, config, held>> /\ Rest

StripPrefixes(p) ==
    /\ HasEventId /\ Goes(p, "strip", "rename event")
    /\ events' = [events EXCEPT !.prefixed = @ \ Of("verified_tx")]
    /\ UNCHANGED <<session, log, nets, config, held>> /\ Rest

RenameEvent(p) ==
    /\ HasEventId /\ Goes(p, "rename event", "log")
    /\ events' = [events EXCEPT !.key = "verification_id"]
    /\ UNCHANGED <<session, log, nets, config, held>> /\ Rest

-----------------------------------------------------------------------------
(* _migrate_mc_tile_capture_log_nullable_actor, rebuilt in one transaction *)

\* Only the worker seeds (settings.run_background_tasks).
AfterLog(p) == IF p = Worker THEN "seed nets" ELSE "up"

LogGate(p) ==
    /\ Goes(p, "log", IF log.strict THEN "count" ELSE AfterLog(p))
    /\ UNCHANGED <<tables, held>> /\ Rest

\* The rows are counted and the indexes listed before BEGIN IMMEDIATE.
CountLog(p) ==
    /\ Goes(p, "count", "rebuild")
    /\ held' = [held EXCEPT ![p] = [count |-> Cardinality(log.rows), indexes |-> log.indexes]]
    /\ UNCHANGED tables /\ Rest

\* The table comes back with its primary key's index alone.
RebuiltBare(p) == [strict |-> FALSE, rows |-> log.rows, indexes |-> {}]

Rebuilt(p) == [strict |-> FALSE, rows |-> log.rows, indexes |-> held[p].indexes]

RebuildLog(p) ==
    /\ at[p] = "rebuild"
    /\ LET new == Rebuilt(p)
       IN  IF Cardinality(log.rows) = held[p].count
           THEN /\ log' = new
                /\ at' = [at EXCEPT ![p] = AfterLog(p)]
                /\ held' = [held EXCEPT ![p] = None]
           ELSE /\ Fails(p) /\ UNCHANGED log
    /\ UNCHANGED <<session, events, nets, config>> /\ Rest

-----------------------------------------------------------------------------
(* The worker's seeds: each looks, and writes if it found nothing *)

\* seed_nets_from_env: a row is inserted per net, in no transaction.
SeedNets ==
    /\ Goes(Worker, "seed nets", IF nets = {} THEN "seed mc" ELSE "seed config")
    /\ UNCHANGED <<tables, held>> /\ Rest

SeedOne(from, to, net) ==
    /\ Goes(Worker, from, to)
    /\ nets' = nets \cup {net}
    /\ UNCHANGED <<session, events, log, config, held>> /\ Rest

FoundUntouched == config = "default"

SeedConfig ==
    /\ Goes(Worker, "seed config", IF FoundUntouched THEN "fill config" ELSE "up")
    /\ UNCHANGED <<tables, held>> /\ Rest

FillConfig ==
    /\ Goes(Worker, "fill config", "up")
    /\ config' = "settings"
    /\ UNCHANGED <<session, events, log, nets, held>> /\ Rest

-----------------------------------------------------------------------------
(* Processes that are up *)

\* An admin saves the config in a web process.
EditConfig(p) ==
    /\ p \in Web /\ at[p] = "up"
    /\ config' = "admin"
    /\ UNCHANGED <<session, events, log, nets, salt, at, held, hash, captured, crashes>>

\* A capture by the worker.
Capture ==
    /\ at[Worker] = "up" /\ Cardinality(captured) < MaxCaptures
    /\ captured' = captured \cup {Cardinality(captured) + 1}
    /\ log' = [log EXCEPT !.rows = @ \cup {Cardinality(captured) + 1}]
    /\ UNCHANGED <<session, events, nets, config, salt, at, held, hash, crashes>>

\* get_or_create_persistent_salt: read, insert unless there is one, read back.
AskSalt(p) ==
    /\ at[p] = "up" /\ hash[p] = None
    /\ IF salt # None
       THEN hash' = [hash EXCEPT ![p] = salt] /\ UNCHANGED at
       ELSE at' = [at EXCEPT ![p] = "insert salt"] /\ UNCHANGED hash
    /\ UNCHANGED <<tables, held, captured, crashes>>

InsertSalt(p) ==
    /\ Goes(p, "insert salt", "read salt")
    /\ salt' = IF salt = None THEN p ELSE salt
    /\ UNCHANGED <<session, events, log, nets, config, held, hash, captured, crashes>>

ReadBack(p) == salt

ReadSalt(p) ==
    /\ Goes(p, "read salt", "up")
    /\ hash' = [hash EXCEPT ![p] = ReadBack(p)]
    /\ UNCHANGED <<tables, held, captured, crashes>>

\* A process is killed wherever it is.
Crash(p) ==
    /\ ~Off(p) /\ crashes < CrashLimit
    /\ crashes' = crashes + 1
    /\ Fails(p)
    /\ hash' = [hash EXCEPT ![p] = None]
    /\ UNCHANGED <<tables, captured>>

-----------------------------------------------------------------------------
Migrate(p) ==
    \/ Boot(p)
    \/ SessionGate(p) \/ ReadAgents(p) \/ (\E s \in Sessions : LabelOne(p, s))
    \/ RenameAgent(p) \/ DropIp(p)
    \/ EventsGate(p) \/ DropPassive(p) \/ StripPrefixes(p) \/ RenameEvent(p)
    \/ LogGate(p) \/ CountLog(p) \/ RebuildLog(p)
    \/ \E from \in {"read agents", "label"} :
          NoSuchColumn(p, from, "user_agent" \in session.cols)
    \/ NoSuchColumn(p, "drop ip", HasIp)
    \/ \E from \in {"drop passive", "strip", "rename event"} :
          NoSuchColumn(p, from, HasEventId)

Seed ==
    \/ SeedNets \/ SeedOne("seed mc", "seed mt", "mc")
    \/ SeedOne("seed mt", "seed config", "mt")
    \/ SeedConfig \/ FillConfig

Next ==
    \/ \E p \in Processes :
          \/ Migrate(p)
          \/ EditConfig(p) \/ AskSalt(p) \/ InsertSalt(p) \/ ReadSalt(p) \/ Crash(p)
    \/ Seed \/ Capture

\* A process keeps executing, and its container is started again when it ends.
Fairness == /\ \A p \in Processes : WF_vars(Migrate(p))
            /\ WF_vars(Seed)

Spec == Init /\ [][Next]_vars /\ Fairness

-----------------------------------------------------------------------------
(* Properties *)

\* No capture and no index is lost to a rebuild, whichever processes rebuild at
\* once, capture meanwhile or crash ("never dropped until ... row-counted
\* equal"; a mismatch "restores the pre-migration table exactly").
CaptureLogSurvives == log.rows = captured /\ log.indexes = Indexes

\* All processes hash with one salt, however many ask for the first one at once.
OneSalt == \A p \in Processes : hash[p] \in {None, salt}

\* The table no statement of a boot gets past: renamed, and its ip not dropped.
Wedged == session.cols = {"device_label", "ip"}

\* Every process comes up in the end, however their migrations collide, unless
\* a crash fell between the rename and the drop.
EveryoneComesUp ==
    <>[](\A p \in Processes : at[p] \in {"up", "insert salt", "read salt"}) \/ <>[]Wedged
=============================================================================
