------------------------------ MODULE CheckIn ------------------------------
(* Net check-ins: the poller of app/checkin.py, the message buffer of        *)
(* app/mqtt_subscriber.py and the operators' award of app/admin_ops.py.      *)
(*                                                                           *)
(* A poll reads the season and the registered radios, then visits every      *)
(* connector: it waits for the messages, then settles them in one            *)
(* transaction.  A broker's messages stand in mqtt_message_buffer for a      *)
(* while; a feed (meshview, CoreScope, Beacon) hands out its newest ones,    *)
(* however old they are.  The time unit is a day, and a net takes place on   *)
(* its weekday.                                                              *)
(*                                                                           *)
(* Left out: messages that carry no usable time or sender, which are settled *)
(* at once; a net's hours, zone and start date; edits to nets; the log of    *)
(* unresolved senders; the directories behind a MeshCore sender's name.      *)
EXTENDS Integers, FiniteSets, Sequences, Functions

CONSTANTS
    Nodes, Players,
    Brokers, Feeds,   \* the connectors, by what they keep
    McFeeds,          \* the feeds of MeshCore (CoreScope, Beacon); meshview is another
    Order,            \* the connectors as a poll visits them, a sequence
    Nets,             \* checkin_net rows, 1..n in the order of their ids
    Weekday,          \* [Nets -> 0..Week-1]
    Week,             \* days in a week
    Window,           \* messages a feed hands out (limit=100)
    BufferKept,       \* mqtt_buffer_retention_hours
    SeenKept,         \* checkin_seen_retention_hours
    SeasonDays,       \* the season's length
    MaxSent,          \* bound on messages
    MaxChanges,       \* bound on registrations and operators' awards
    Horizon,          \* the last day of the model
    None

CheckInNumbers ==
    {Week, Window, BufferKept, SeenKept, SeasonDays, MaxSent, MaxChanges, Horizon} \subseteq Nat
WeekHasDays == Week > 0 /\ Weekday \in [Nets -> 0..Week-1]
NetsAreNumbered == IsFiniteSet(Nets) /\ Nets = 1..Cardinality(Nets)

\* A message can be buffered after the poll that settles it has read the clock, and a
\* buffer row outstays its time until the next prune: a day each, at most.
SeenOutlivesBuffer == SeenKept > BufferKept + 1
ConnectorsAreOfOneKind == Brokers \cap Feeds = {} /\ McFeeds \subseteq Feeds
PollVisitsAll == Range(Order) = Brokers \cup Feeds /\ IsInjective(Order)

\* What is assumed of the constants, by the module that instantiates this one.
CheckInConstants ==
    /\ CheckInNumbers /\ WeekHasDays /\ NetsAreNumbered /\ SeenOutlivesBuffer
    /\ ConnectorsAreOfOneKind /\ PollVisitsAll

Connectors == Brokers \cup Feeds

VARIABLES
    now,
    season,    \* the active season: its number and its last moment
    sent,      \* every message posted: connector, node, day, the nets it names
    buffer,    \* mqtt_message_buffer: message, when it was received
    seen,      \* checkin_seen_message: message, when; and the player it was settled for
    bound,     \* player_node of the players that are not disabled
    awards,    \* mc_checkin_award
    poll,      \* the poll under way, or None
    form,      \* an operator's award between its reads and its transaction, or None
    changes    \* registrations and forms so far

vars == <<now, season, sent, buffer, seen, bound, awards, poll, form, changes>>

Init ==
    /\ now = 0
    /\ season = [no |-> 1, ends |-> SeasonDays]
    /\ sent = <<>>
    /\ buffer = {} /\ seen = {} /\ awards = {}
    /\ bound \in [Nodes -> Players \cup {None}]
    /\ poll = None /\ form = None
    /\ changes = 0

-----------------------------------------------------------------------------
(* Nets and streaks.                                                         *)

\* net_date_for_net: the date a message of that day counts for, or None.
NetDate(net, day) == IF day % Week = Weekday[net] THEN day ELSE None

\* Mutation: the dates of every net of the protocol, as before 2026-09-10.
OccurrencesOfAny(aw, net, date) == {a.date : a \in {b \in aw : b.date < date}}

\* The dates before this one on which the net is known to have taken place; an award
\* without a net has no history.
Occurrences(aw, net, date) ==
    {a.date : a \in {b \in aw : net # None /\ b.net = net /\ b.date < date}}

Attended(aw, p, net, date) == Occurrences({a \in aw : a.player = p}, net, date)

\* checkin_streak.
Streak(aw, p, net, date) ==
    LET past == Occurrences(aw, net, date)
        kept == Attended(aw, p, net, date)
    IN  1 + Cardinality({d \in past : \A e \in past : e >= d => e \in kept})

\* _award_checkin, or INSERT OR IGNORE of admin_checkin_award: the key is the
\* season, the player and the date.
Insert(aw, a) ==
    IF \E b \in aw : b.season = a.season /\ b.player = a.player /\ b.date = a.date
    THEN aw ELSE aw \cup {a}

Award(aw, s, p, net, date, m) ==
    Insert(aw, [season |-> s, player |-> p, date |-> date, net |-> net,
                streak |-> Streak(aw, p, net, date), msg |-> m])

-----------------------------------------------------------------------------
(* Messages.                                                                 *)

\* A player posts, on a connector, a message that names some nets; a broker's
\* subscriber buffers it, once (_insert_buffer_row).
Post(n, c, nets) ==
    /\ Len(sent) < MaxSent
    /\ sent' = Append(sent, [node |-> n, conn |-> c, day |-> now, nets |-> nets])
    /\ buffer' = IF c \in Brokers THEN buffer \cup {[msg |-> Len(sent) + 1, at |-> now]} ELSE buffer
    /\ UNCHANGED <<now, season, seen, bound, awards, poll, form, changes>>

\* _prune_buffer.
PruneBuffer ==
    /\ buffer' = {b \in buffer : b.at >= now - BufferKept}
    /\ buffer' # buffer
    /\ UNCHANGED <<now, season, sent, seen, bound, awards, poll, form, changes>>

\* Mutation: the seen rows go with the buffer rows of that age.
SeenAfterWithBuffer(rows) == {r \in rows : r.at > now - BufferKept}

SeenAfter(rows) == {r \in rows : r.at >= now - SeenKept}

\* _prune_seen_messages, between two polls.
PruneSeen ==
    /\ poll = None
    /\ seen' = SeenAfter(seen)
    /\ seen' # seen
    /\ UNCHANGED <<now, season, sent, buffer, bound, awards, poll, form, changes>>

\* The newest messages of a feed, or what the buffer holds of a broker's.
Handed(c) ==
    LET mine == {i \in 1..Len(sent) : sent[i].conn = c}
    IN  IF c \in Feeds THEN {i \in mine : Cardinality({j \in mine : j >= i}) <= Window}
        ELSE {i \in mine : \E b \in buffer : b.msg = i}

-----------------------------------------------------------------------------
(* The poll.                                                                 *)

Closed == now >= season.ends

Rolled == IF Closed THEN [no |-> season.no + 1, ends |-> now + SeasonDays] ELSE season

\* maybe_roll_season, from whatever else runs it.
RollSeason ==
    /\ Closed
    /\ season' = Rolled
    /\ UNCHANGED <<now, sent, buffer, seen, bound, awards, poll, form, changes>>

\* The first transaction of _poll_mc and _poll_mt.
StartPoll ==
    /\ poll = None
    /\ season' = Rolled
    /\ poll' = [at |-> now, season |-> season'.no, known |-> bound, left |-> Order, hand |-> None]
    /\ UNCHANGED <<now, sent, buffer, seen, bound, awards, form, changes>>

\* The answer of one connector, or its buffer rows.
Fetch ==
    /\ poll # None /\ poll.hand = None
    /\ poll' = [poll EXCEPT !.hand = [msgs |-> Handed(Head(poll.left))]]
    /\ UNCHANGED <<now, season, sent, buffer, seen, bound, awards, form, changes>>

\* The senders of a MeshCore feed are looked up in the transaction, those of meshview
\* and of a broker in the snapshot of the poll (_resolve_mc_identities,
\* _load_mt_registered_players).
Sender(c, n) == IF c \in McFeeds THEN bound[n] ELSE poll.known[n]

\* The nets a message counts for credit it in the order of their ids.
Credited(aw, p, dated, i) ==
    LET after[n \in 0..Cardinality(Nets)] ==
            IF n = 0 THEN aw
            ELSE IF n \in dated
                 THEN Award(after[n - 1], poll.season, p, n, NetDate(n, sent[i].day), i)
            ELSE after[n - 1]
    IN  after[Cardinality(Nets)]

\* A message waits for its sender only if some net wants it.
Settles(dated, p) == dated = {} \/ p # None

\* _process_mc_message, _process_mt_packet and _process_mqtt_message.
ProcessMessage(st, i) ==
    LET m == sent[i]
        p == Sender(m.conn, m.node)
        dated == {net \in m.nets : NetDate(net, m.day) # None}
    IN  IF \E r \in st.seen : r.msg = i THEN st
        ELSE [awards |-> IF p = None THEN st.awards ELSE Credited(st.awards, p, dated, i),
              seen |-> IF Settles(dated, p) THEN st.seen \cup {[msg |-> i, at |-> poll.at, player |-> p]}
                       ELSE st.seen]

NextConnector ==
    IF Len(poll.left) = 1 THEN None ELSE [poll EXCEPT !.left = Tail(@), !.hand = None]

\* The messages in hand, in the order in which they were posted.
Settled ==
    LET after[i \in 0..Len(sent)] ==
            IF i = 0 THEN [awards |-> awards, seen |-> seen]
            ELSE IF i \in poll.hand.msgs THEN ProcessMessage(after[i - 1], i)
            ELSE after[i - 1]
    IN  after[Len(sent)]

\* The second transaction of one connector.
Settle ==
    /\ poll # None /\ poll.hand # None
    /\ awards' = Settled.awards /\ seen' = Settled.seen
    /\ poll' = NextConnector
    /\ UNCHANGED <<now, season, sent, buffer, bound, form, changes>>

\* A connector does not answer, or its transaction fails; or the process stops.
ConnectorFails ==
    /\ poll # None
    /\ poll' \in {NextConnector, None}
    /\ UNCHANGED <<now, season, sent, buffer, seen, bound, awards, form, changes>>

-----------------------------------------------------------------------------
(* Operators and players.                                                    *)

Changes == changes < MaxChanges /\ changes' = changes + 1

\* A radio gets a player, loses it, or its player is disabled.
Bind(n, p) ==
    /\ Changes
    /\ p # bound[n]
    /\ bound' = [bound EXCEPT ![n] = p]
    /\ UNCHANGED <<now, season, sent, buffer, seen, awards, poll, form>>

\* net_id_for_protocol_weekday: the one net of that weekday, or None.
NetOfWeekday(date) ==
    LET nets == {net \in Nets : Weekday[net] = date % Week}
    IN  IF Cardinality(nets) = 1 THEN CHOOSE net \in nets : TRUE ELSE None

\* admin_checkin_award: what it reads, then its transaction.
OpenForm(p, date) ==
    /\ form = None
    /\ Changes
    /\ LET net == NetOfWeekday(date)
       IN  form' = [season |-> season.no, player |-> p, date |-> date, net |-> net,
                    streak |-> Streak(awards, p, net, date), msg |-> 0]
    /\ UNCHANGED <<now, season, sent, buffer, seen, bound, awards, poll>>

SubmitForm ==
    /\ form # None
    /\ awards' = Insert(awards, form)
    /\ form' = None
    /\ UNCHANGED <<now, season, sent, buffer, seen, bound, poll, changes>>

\* A poll or a form takes less than a day, and the buffer is pruned every hour.
Tick ==
    /\ now < Horizon
    /\ poll # None => poll.at = now
    /\ form = None
    /\ \A b \in buffer : b.at >= now - BufferKept
    /\ now' = now + 1
    /\ UNCHANGED <<season, sent, buffer, seen, bound, awards, poll, form, changes>>

Next ==
    \/ \E n \in Nodes, c \in Connectors, nets \in SUBSET Nets : Post(n, c, nets)
    \/ PruneBuffer \/ PruneSeen
    \/ RollSeason \/ StartPoll \/ Fetch \/ Settle \/ ConnectorFails
    \/ \E n \in Nodes, p \in Players \cup {None} : Bind(n, p)
    \/ \E p \in Players, d \in 0..now : OpenForm(p, d)
    \/ SubmitForm
    \/ Tick

Spec == Init /\ [][Next]_vars

-----------------------------------------------------------------------------
(* Properties.                                                               *)

\* A broker's message earns in one season only: "a buffer row is always gone before
\* the seen row that settled it could be" (_prune_seen_messages).
BufferedPaysOneSeason ==
    \A a, b \in awards :
        a.msg = b.msg /\ a.msg # 0 /\ sent[a.msg].conn \in Brokers => a.season = b.season

\* A streak of k is k dates of that one net, whatever the order in which the credits
\* came in.
StreakIsAttended ==
    \A a \in awards :
        a.streak - 1 <= Cardinality({b.date : b \in {c \in awards :
                            c.player = a.player /\ c.net = a.net /\ c.date < a.date}})

\* "An awarded message must never be re-examined, or a season roll would let the same
\* message earn again under the new season_id" (_process_mc_message).
PaysOneSeason == \A a, b \in awards : a.msg = b.msg /\ a.msg # 0 => a.season = b.season

\* "A closed season's mc_checkin_award rows are never touched again" (announce_content).
ClosedSeasonIsFrozen == [][\A a \in awards' \ awards : a.season = season'.no]_vars

\* "Re-running it for an award that already exists produces the same number"
\* (checkin_streak).
StreakIsRederived ==
    \A a \in awards : a.streak = Streak(awards, a.player, a.net, a.date)
=============================================================================
