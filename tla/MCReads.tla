------------------------------- MODULE MCReads -------------------------------
(* The connection pool every query borrows from, and the boards most queries  *)
(* are for: the two shapes of /get-nodes, published from one base, a group's  *)
(* standings, published too, and a region's, which only requests build.       *)
(* Boards takes a query as one step, whichever connection runs it: a          *)
(* behaviour follows one of them.                                             *)
EXTENDS Pool

CONSTANTS public, authed, group, region, Procs, Alone, Clients, Boards,
          GroupTtl, RegionTtl, Ttl, BuildTime, PublishTime, FaultLimit

\* None is no key and no entry; the cache is on (a Ttl of 0 turns it off).
Bodies == [shape : {"public", "authed", "standings"}, board : Boards]

ASSUME BoardShape ==
    /\ None \notin {public, authed, group, region}
    /\ None \notin [body : Bodies, etag : Bodies, age : Nat, lag : Nat]
    /\ Alone \subseteq Procs
    /\ {GroupTtl, RegionTtl, BuildTime, PublishTime, FaultLimit} \subseteq Nat
    /\ Ttl \in Nat \ {0}

VARIABLES follows, family, board, row, cache, request, publisher, session,
          asked, shown, tag, troubles

boardVars == <<family, board, row, cache, request, publisher, session,
               asked, shown, tag, troubles>>

MCFamilies == {{public, authed}, {group}, {region}}

\* Processes meet in the rows they share alone: one is enough where only the
\* publisher writes them.
RA == INSTANCE Boards WITH
        faults <- troubles,
        Reach <- [f \in MCFamilies |-> IF public \in f THEN Alone ELSE Procs],
        Keys <- {public, authed, group, region},
        Shapes <- {"public", "authed", "standings"},
        Shape <- [k \in {public, authed, group, region} |->
                    CASE k = public -> "public" [] k = authed -> "authed" [] OTHER -> "standings"],
        Families <- MCFamilies,
        Published <- {public, authed, group},
        SharedTtl <- [k \in {group, region} |-> IF k = group THEN GroupTtl ELSE RegionTtl]

MCInit ==
    /\ Init /\ RA!Init
    /\ \/ follows = "Pool" /\ family = {region} /\ board = CHOOSE b \in Boards : TRUE
       \/ follows = "Boards"

MCNext ==
    /\ \/ follows = "Pool" /\ Next /\ UNCHANGED boardVars
       \/ follows = "Boards" /\ RA!Next /\ UNCHANGED vars
    /\ UNCHANGED follows

\* The fairness of the component that is followed.
MCFairness ==
    /\ \A c \in Callers :
        /\ WF_vars(follows = "Pool" /\ Acquire(c))
        /\ WF_vars(follows = "Pool" /\ (Enter(c) \/ EnterFails(c) \/ ToThread(c) \/ Exit(c) \/ ThreadEnds(c)))
        /\ WF_vars(follows = "Pool" /\ pc[c] = "thread" /\ (Connect(c) \/ Close(c)))
    /\ WF_boardVars(follows = "Boards" /\ RA!Tick)
    /\ \A p \in Procs : WF_boardVars(follows = "Boards" /\ RA!FinishBuild(p))
    /\ WF_boardVars(follows = "Boards" /\ RA!PublisherStep)

MCSpec == MCInit /\ [][MCNext]_<<follows, vars, boardVars>> /\ MCFairness

\* The properties of Boards: an answer is in the shape of its key, a regional
\* one is no older than it may be, and published rows and caches catch up with
\* the board.
ShownForAudience == RA!ShownForAudience
RegionalIsFresh == RA!RegionalIsFresh
ReadersCatchUp == follows = "Boards" => RA!ReadersCatchUp
=============================================================================
