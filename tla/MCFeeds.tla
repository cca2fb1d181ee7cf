------------------------------- MODULE MCFeeds -------------------------------
(* The two feeds of the Meshtastic board, FreqMapper and meshview, and the    *)
(* regions the board is cut by.  None reads what another keeps (a square is   *)
(* mapped to regions whoever painted it), so their steps commute: a behaviour *)
(* follows one of them.                                                       *)
EXTENDS FreqMapper, FiniteSets

CONSTANTS Players, Cells, Stamps, MaxSpeed, Window, PageSize, Depth,
          MaxPackets, MaxHands, FaultLimit,
          Codes, Squares, Batch, Shapes, StableFor, MaxTime, TxnRows,
          RegionCodes, Slugs, GroupIds, Askers, DailyLimit, Day, MaxRequests

VARIABLES follows, packets, holder, paints, processed, pings, lastFix, accepted,
          up, cycle, hands, faults,
          clock, region, tiles, mapped, member, pending, shapes, mapping, remap,
          hour, groups, lastId, asked

mtVars == <<packets, holder, paints, processed, pings, lastFix, accepted,
            up, cycle, hands, faults>>
regionVars == <<clock, region, tiles, mapped, member, pending, shapes, mapping, remap>>
groupVars == <<hour, groups, lastId, asked>>

MT == INSTANCE Meshtastic
RE == INSTANCE Regions
RG == INSTANCE RegionGroups WITH Horizon <- DailyLimit + Day

\* A packet's place and time, and what a player without a fix has instead.
ASSUME FixShape == /\ Stamps \subseteq Int /\ {Window, PageSize, Depth} \subseteq Nat
                   /\ None \notin [cell : Cells, ts : Int]

\* The regions are a table of rows that are not None.
ASSUME RegionShape == IsFiniteSet(Codes) /\ None \notin [stamp : Int, shape : Shapes]

MCInit ==
    /\ Init /\ MT!Init /\ RE!Init /\ RG!Init
    /\ follows \in {"FreqMapper", "Meshtastic", "Regions", "RegionGroups"}
    /\ follows # "FreqMapper" => feed = <<>>
    /\ follows # "Meshtastic" => holder = [r \in Radios |-> CHOOSE p \in Players : TRUE]
MCNext ==
    /\ \/ follows = "FreqMapper" /\ Next /\ UNCHANGED <<mtVars, regionVars, groupVars>>
       \/ follows = "Meshtastic" /\ MT!Next /\ UNCHANGED <<vars, regionVars, groupVars>>
       \/ follows = "Regions" /\ RE!Next /\ UNCHANGED <<vars, mtVars, groupVars>>
       \/ follows = "RegionGroups" /\ RG!Next /\ UNCHANGED <<vars, mtVars, regionVars>>
    /\ UNCHANGED follows
MCSpec == MCInit /\ [][MCNext]_<<follows, vars, mtVars, regionVars, groupVars>>

\* The property of Meshtastic: the last fix is the newest accepted ping of its
\* player.
LastFixIsNewest == MT!LastFixIsNewest

\* The properties of Regions and RegionGroups: over the mapped squares a region
\* has the members its boundary gives it once a remap is through, and no group
\* comes to hold itself.
MembershipIsCurrent == RE!MembershipIsCurrent
NoGroupHoldsItself == RG!NoGroupHoldsItself
=============================================================================
