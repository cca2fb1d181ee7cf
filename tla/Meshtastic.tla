----------------------------- MODULE Meshtastic -----------------------------
(***************************************************************************)
(* The meshview feed of the Meshtastic board (app/ingest.py): a backfill   *)
(* at startup and a poll of the newest packets, both of which handle the   *)
(* packets of a page concurrently.  A task waits for the receptions of its *)
(* packet between its first look and its transaction.                      *)
(*                                                                         *)
(* Left out: what a paint earns (Territory), the roster of node names and  *)
(* the passive key list, which no scoring reads.                           *)
(***************************************************************************)
EXTENDS Integers, FiniteSets, Sequences

CONSTANTS
    Players,
    Radios,
    Cells,         \* places on a line
    Stamps,        \* the times a packet can carry
    MaxSpeed,      \* mt_max_speed_mps, in cells per time
    Window,        \* the newest packets a poll asks for
    PageSize,      \* the packets of a backfill page
    Depth,         \* how many packets backfill_hours hold
    MaxPackets,    \* bound on the packets received
    MaxHands,      \* bound: radios changing hands, switches of the paint source
    FaultLimit,    \* bound: crashes and failed requests
    None

VARIABLES
    packets,       \* what meshview has received, oldest first
    holder,     \* player_node: the active player a radio belongs to, or None
    paints,     \* does mt_paint_source let this module paint?
    processed,  \* processed_packet
    pings,      \* player_cell_ping
    lastFix,    \* player_last_fix
    accepted,   \* observer: the packets accepted, with the player credited
    up,         \* has the loop started?
    cycle,      \* the poll or backfill under way, or None
    hands,
    faults

world == <<packets, holder, paints>>
tables == <<processed, pings, lastFix, accepted>>
vars == <<world, tables, up, cycle, hands, faults>>

Packet(r, c, t) == [radio |-> r, cell |-> c, ts |-> t]

\* No coordinates worth a cell: bad, out of the play area, or too imprecise.
Unusable(r) == [radio |-> r, cell |-> None, ts |-> 0]

\* What a cycle remembers: the registered players it read, the tasks of its
\* page that have yet to look and those that wait for receptions, and for a
\* backfill where its next page ends and where it stops.
Cycle(kind, before, cutoff) ==
    [kind |-> kind, roster |-> holder, new |-> {}, asked |-> {},
     before |-> before, cutoff |-> cutoff]

Between == cycle # None /\ cycle.new = {} /\ cycle.asked = {}

Init ==
    /\ packets = <<>>
    /\ holder \in [Radios -> Players]
    /\ paints = TRUE
    /\ processed = {} /\ pings = {} /\ accepted = {}
    /\ lastFix = [p \in Players |-> None]
    /\ up = FALSE /\ cycle = None
    /\ hands = 0 /\ faults = 0

-----------------------------------------------------------------------------
(* The world *)

\* A packet reaches meshview: late, early, or a repetition of an earlier one.
Receive ==
    /\ Len(packets) < MaxPackets
    /\ \E r \in Radios :
          \/ packets' = Append(packets, Unusable(r))
          \/ \E c \in Cells, t \in Stamps : packets' = Append(packets, Packet(r, c, t))
    /\ UNCHANGED <<holder, paints, tables, up, cycle, hands, faults>>

\* A radio is removed, added, or its player disabled.
ChangeHands(r) ==
    /\ hands < MaxHands /\ hands' = hands + 1
    /\ \E h \in (Players \cup {None}) \ {holder[r]} : holder' = [holder EXCEPT ![r] = h]
    /\ UNCHANGED <<packets, paints, tables, up, cycle, faults>>

\* admin_paint_update: mt_paint_source becomes, or stops being, freqmapper.
SwitchSource ==
    /\ hands < MaxHands /\ hands' = hands + 1
    /\ paints' = ~paints
    /\ UNCHANGED <<packets, holder, tables, up, cycle, faults>>

-----------------------------------------------------------------------------
(* The cycles *)

Top(a, b) == IF a > b THEN a ELSE b

\* run_forever, _backfill: registered players and the cutoff are read first.
Start ==
    /\ ~up /\ up' = TRUE
    /\ cycle' = IF paints THEN Cycle("backfill", Len(packets) + 1, Top(0, Len(packets) - Depth) + 1)
                ELSE None
    /\ UNCHANGED <<world, tables, hands, faults>>

\* The next older page, as far as it lies in the window.
BackfillPage ==
    /\ Between /\ cycle.kind = "backfill"
    /\ cycle.before > cycle.cutoff
    /\ LET first == Top(1, cycle.before - PageSize)
       IN  cycle' = [cycle EXCEPT !.new = Top(first, cycle.cutoff)..(cycle.before - 1),
                                  !.before = first]
    /\ UNCHANGED <<world, tables, up, hands, faults>>

\* _poll_once, _poll_positions: the players, and then the request.
StartPoll ==
    /\ up /\ cycle = None /\ paints
    /\ cycle' = Cycle("waiting", 0, 0)
    /\ UNCHANGED <<world, tables, up, hands, faults>>

\* With the switch on freqmapper a cycle fetches no positions.
SkipPoll == up /\ cycle = None /\ ~paints /\ UNCHANGED vars

\* The newest packets, handled or not.
Newest == Top(1, Len(packets) - Window + 1)..Len(packets)

Fetch ==
    /\ Between /\ cycle.kind = "waiting"
    /\ cycle' = [cycle EXCEPT !.kind = "poll", !.new = Newest]
    /\ UNCHANGED <<world, tables, up, hands, faults>>

\* The gather is complete; the backfill has walked past its window.
EndCycle ==
    /\ Between
    /\ \/ cycle.kind = "poll"
       \/ cycle.kind = "backfill" /\ cycle.before <= cycle.cutoff
    /\ cycle' = None
    /\ UNCHANGED <<world, tables, up, hands, faults>>

-----------------------------------------------------------------------------
(* One packet: _process_one_packet *)

Waits(i) == cycle # None /\ i \in cycle.new
Done(i) == cycle' = [cycle EXCEPT !.new = @ \ {i}, !.asked = @ \ {i}]

Player(i) == cycle.roster[packets[i].radio]

\* Already handled, unregistered or unusable: marked, and nothing more.
Dismiss(i) ==
    /\ Waits(i)
    /\ i \in processed \/ Player(i) = None \/ packets[i].cell = None
    /\ processed' = processed \cup {i}
    /\ Done(i)
    /\ UNCHANGED <<world, pings, lastFix, accepted, up, hands, faults>>

\* The others ask who heard the packet; a failing request counts as nobody.
AskReceptions(i) ==
    /\ Waits(i)
    /\ i \notin processed /\ Player(i) # None /\ packets[i].cell # None
    /\ cycle' = [cycle EXCEPT !.new = @ \ {i}, !.asked = @ \cup {i}]
    /\ UNCHANGED <<world, tables, up, hands, faults>>

Ping(i) == [player |-> Player(i), cell |-> packets[i].cell, ts |-> packets[i].ts]

\* player_cell_ping's primary key: the same packet, or one just like it.
SeenPing(i) == Ping(i) \in pings

Apart(a, b) == IF a > b THEN a - b ELSE b - a

\* The speed gate measures forward in time only.
Implausible(fix, c, t) ==
    fix # None /\ t > fix.ts /\ Apart(c, fix.cell) > MaxSpeed * (t - fix.ts)

\* The fix follows the packet last handled.
FixAnyhow(fix, c, t) == [cell |-> c, ts |-> t]

\* player_last_fix never goes back.
FixAfter(fix, c, t) ==
    IF fix = None \/ t >= fix.ts THEN [cell |-> c, ts |-> t] ELSE fix

\* The transaction of one packet.
Score(i) ==
    /\ cycle # None /\ i \in cycle.asked
    /\ Done(i)
    /\ processed' = processed \cup {i}
    /\ LET p == Player(i)  c == packets[i].cell  t == packets[i].ts
       IN  IF i \in processed \/ SeenPing(i) THEN UNCHANGED <<pings, lastFix, accepted>>
           ELSE /\ pings' = pings \cup {Ping(i)}
                /\ IF Implausible(lastFix[p], c, t) THEN UNCHANGED <<lastFix, accepted>>
                   ELSE /\ lastFix' = [lastFix EXCEPT ![p] = FixAfter(@, c, t)]
                        /\ accepted' = accepted \cup {[packet |-> i, ping |-> Ping(i)]}
    /\ UNCHANGED <<world, up, hands, faults>>

\* Anything that raises before the commit leaves the packet to a later page.
TaskFails(i) ==
    /\ cycle # None /\ i \in cycle.new \cup cycle.asked
    /\ faults < FaultLimit /\ faults' = faults + 1
    /\ Done(i)
    /\ UNCHANGED <<world, tables, up, hands>>

\* A request for packets fails: the poll waits for the next, the backfill ends.
RequestFails ==
    /\ Between /\ cycle.kind # "poll"
    /\ faults < FaultLimit /\ faults' = faults + 1
    /\ cycle' = None
    /\ UNCHANGED <<world, tables, up, hands>>

Crash ==
    /\ up /\ up' = FALSE
    /\ faults < FaultLimit /\ faults' = faults + 1
    /\ cycle' = None
    /\ UNCHANGED <<world, tables, hands>>

-----------------------------------------------------------------------------
Next ==
    \/ Receive \/ SwitchSource
    \/ \E r \in Radios : ChangeHands(r)
    \/ Start \/ BackfillPage \/ StartPoll \/ SkipPoll \/ Fetch \/ EndCycle
    \/ \E i \in 1..MaxPackets :
          Dismiss(i) \/ AskReceptions(i) \/ Score(i) \/ TaskFails(i)
    \/ RequestFails \/ Crash

Spec == Init /\ [][Next]_vars

-----------------------------------------------------------------------------
(* Properties *)

\* However the tasks of a page finish, the last fix of a player is the newest
\* ping accepted from them, never one that came before it: the speed gate
\* measures from there ("monotonic on ts").
LastFixIsNewest ==
    \A p \in Players :
        LET own == {a.ping : a \in {b \in accepted : b.ping.player = p}}
        IN  IF lastFix[p] = None THEN own = {}
            ELSE /\ [player |-> p, cell |-> lastFix[p].cell, ts |-> lastFix[p].ts] \in own
                 /\ \A g \in own : g.ts <= lastFix[p].ts

=============================================================================
