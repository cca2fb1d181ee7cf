------------------------------ MODULE MCCredits ------------------------------
(* What players are paid for: pings, and messages to nets.  The two read      *)
(* nothing of each other: a behaviour follows one.                            *)
EXTENDS McPing, Sequences, TLC

CONSTANTS Followed,
          Nodes, Brokers, Feeds, McFeeds, Order, Nets, Weekday, Week, Window, BufferKept, SeenKept,
          SeasonDays, MaxSent, MaxChanges

VARIABLES follows, season, sent, buffer, settled, bound, awards, poll, form, changes

netVars == <<season, sent, buffer, settled, bound, awards, poll, form, changes>>

Net == INSTANCE CheckIn WITH seen <- settled

ASSUME CheckInShape == Net!CheckInConstants

\* Where pings are followed, nobody has registered a radio with the nets.
MCInit ==
    /\ Init /\ Net!Init
    /\ follows \in Followed
    /\ follows = "check-ins" \/ \A n \in Nodes : bound[n] = None

MCNext ==
    /\ \/ follows = "pings" /\ Next /\ UNCHANGED netVars
       \/ follows = "check-ins" /\ Net!Next /\ UNCHANGED <<tables, caches, listing, tx, batches>>
    /\ UNCHANGED follows

MCSpec == MCInit /\ [][MCNext]_<<follows, vars, netVars>>

\* The properties of CheckIn.
BufferedPaysOneSeason == Net!BufferedPaysOneSeason
StreakIsAttended == Net!StreakIsAttended

-----------------------------------------------------------------------------
(* Two players, a radio each, two cells too far apart for one tick.           *)

CONSTANTS r1, r2, c1, c2, t1,
          tower, hash   \* a repeater's id, and one that r2 answers to as well

Far(c, d) == IF c = d THEN 0 ELSE 3

Ping(r, c, t, g, h, d) ==
    [radio |-> r, cell |-> c, ts |-> t, tag |-> g, heard |-> h, defer |-> d]

EitherId == {tower, hash}
HashOfR2 == {<<hash, r2>>}

\* Tagged pings of either radio, a plain ping of the other cell, a ping that
\* hears the other radio, and a DEFER.
Shapes == {Ping(r1, c1, 0, t1, {tower}, FALSE), Ping(r1, c1, 1, t1, {tower}, FALSE),
           Ping(r2, c1, 1, t1, {tower}, FALSE),
           Ping(r1, c2, 1, None, {}, TRUE),
           Ping(r1, c1, 0, None, {hash}, FALSE)}

\* A ping of the first radio in every tick that hears what may be the second, and
\* one of the second.
Echoes == {Ping(r1, c1, t, None, {hash}, FALSE) : t \in Times}
              \cup {Ping(r2, c1, 0, None, {tower}, FALSE)}

Interchangeable == Permutations(Players)

\* No gate and no property reads the evidence of coverage.
WithoutEvidence == <<now, node, tag, seen, fix, claim, paid, caches, listing, batches,
                     IF tx = None THEN None ELSE [tx EXCEPT !.saved.obs = {}]>>

-----------------------------------------------------------------------------
(* A feed and a broker, visited in that order, and two nets on the two days   *)
(* of a week.                                                                 *)

CONSTANTS mqtt, feed

FeedFirst == <<feed, mqtt>>
TwoNets == {1, 2}
OneDayEach == 1 :> 0 @@ 2 :> 1
=============================================================================
