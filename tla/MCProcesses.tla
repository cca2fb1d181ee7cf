----------------------------- MODULE MCProcesses -----------------------------
(* The boot of every process, the places a worker loads when it is up, and    *)
(* the broker connections of one.  A boot fills in no place, and no connector *)
(* but its seed, which Connections starts without: a behaviour follows one.   *)
EXTENDS Places, TLC

CONSTANTS Followed,
          Web, Worker, Sessions, Events, Kind, Indexes, MaxCaptures, CrashLimit,
          Admins, Urls, Malformed, Filters, Creds, MaxRows, MaxEdits, FaultLimit

VARIABLES follows,
          session, events, log, nets, config, salt, at, held, hash, captured, crashes,
          rows, lastId, request, read, client, live, edits, troubles

bootVars == <<session, events, log, nets, config, salt, at, held, hash, captured, crashes>>
brokerVars == <<rows, lastId, request, read, client, live, edits, troubles>>

Boots == INSTANCE Startup
Broker == INSTANCE Connections WITH Procs <- Admins, nets <- read, faults <- troubles

CONSTANTS v1, q1, o1
MCKind == v1 :> "verified_tx" @@ q1 :> "passive_rx" @@ o1 :> "other"

\* Three places of which two are neighbours, and two seed files: a summit that always
\* counts and two landmarks that rotate; the second file drops a landmark and rates the
\* other.
ThreePlaces == 1..3
Neighbours == {{2, 3}}
Rated(points, rotates) == [points |-> points, rotates |-> rotates]
TwoFiles ==
    << 1 :> Rated(3, FALSE) @@ 2 :> Rated(2, TRUE) @@ 3 :> Rated(1, TRUE),
       1 :> Rated(3, FALSE) @@ 2 :> None @@ 3 :> Rated(2, TRUE) >>

\* A database that needs no migration, where the behaviour is not about booting.
Migrated ==
    session.cols = {"device_label"} /\ events.key = "verification_id" /\ ~log.strict

MCInit ==
    /\ Init /\ Boots!Init /\ Broker!Init
    /\ follows \in Followed
    /\ follows # "Startup" => Migrated

MCNext ==
    /\ \/ follows = "Startup" /\ Boots!Next /\ UNCHANGED <<vars, brokerVars>>
       \/ follows = "Places" /\ Next /\ UNCHANGED <<bootVars, brokerVars>>
       \/ follows = "Connections" /\ Broker!Next /\ UNCHANGED <<vars, bootVars>>
    /\ UNCHANGED follows

\* The fairness of the component that is followed.
MCFairness ==
    /\ \A p \in Boots!Processes : WF_bootVars(follows = "Startup" /\ Boots!Migrate(p))
    /\ WF_bootVars(follows = "Startup" /\ Boots!Seed)
    /\ WF_brokerVars(follows = "Connections" /\ Broker!Reconcile)
    /\ \A u \in Urls : WF_brokerVars(follows = "Connections" /\ Broker!OnConnect(u))

MCSpec == MCInit /\ [][MCNext]_<<follows, vars, bootVars, brokerVars>> /\ MCFairness

\* The properties of Startup: no capture and no index is lost, processes agree on the
\* salt, and every process comes up in the end.
CaptureLogSurvives == Boots!CaptureLogSurvives
OneSalt == Boots!OneSalt
BootsComeUp == follows = "Startup" => Boots!EveryoneComesUp

\* The properties of Connections: a connector exists until an admin deletes it,
\* and edits take effect without a restart.
ConversionLosesNothing == Broker!ConversionLosesNothing
EditsTakeEffect == Broker!EditsTakeEffect
=============================================================================
