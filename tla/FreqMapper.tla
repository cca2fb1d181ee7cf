----------------------------- MODULE FreqMapper -----------------------------
(* The FreqMapper feed of the Meshtastic board: app/freqmapper_ingest.py,    *)
(* beside the operators' paint routes of app/admin_ops.py.                   *)
(*                                                                           *)
(* The feed hands out events in the order it published them, a page at a     *)
(* time, from a cursor.  A poll reads its configuration and the cursor, then *)
(* waits for the page, then writes everything in one transaction; a crash or *)
(* an error before that loses the poll.                                      *)
(*                                                                           *)
(* Left out: what a paint earns (Territory), events that cannot be parsed,   *)
(* events that lack published_at, and passive reception, which goes the same *)
(* way as transmission.                                                      *)
EXTENDS Integers, Sequences

CONSTANTS
    Radios,
    PageLimit,     \* page_limit
    VerifKept,     \* _VERIFICATION_RETENTION_HOURS
    PingKept,      \* mc_ping_retention_hours
    SeedGrace,     \* _BACKFILL_SEED_GRACE_SECONDS
    MaxEvents,     \* bound on the feed
    MaxAdmin,      \* bound on the operators' changes
    Horizon,       \* the last tick of the model
    None

ASSUME FeedNumbers ==
    {PageLimit, VerifKept, PingKept, SeedGrace, MaxEvents, MaxAdmin, Horizon} \subseteq Nat
ASSUME FeedLimits == PageLimit > 0 /\ None \notin Int

Times == 0..Horizon

VARIABLES
    now,
    feed,      \* what FreqMapper published so far: [pub, occ, radio]
    cursor,    \* how far the stored cursor has come
    config,    \* freqmapper_config: source, the first date to paint, allow_backfill
    owned,     \* radios that have a player
    tables,    \* mark, verif, pings; and observers: the events painted, painted again,
               \* painted again after later ones, skipped for their date, refused
    poll,      \* the poll under way, or None
    admin      \* changes so far

vars == <<now, feed, cursor, config, owned, tables, poll, admin>>

Event(pub, r, occ) == [pub |-> pub, occ |-> occ, radio |-> r]

Empty == [mark |-> None, verif |-> {}, pings |-> {},
          painted |-> {}, twice |-> {}, stale |-> {}, dated |-> {}, refused |-> {}]

\* A fresh install that paints from the first day, or a deployment of before the
\* mark existed, which has seen the first event already.
Init ==
    /\ now = 0
    /\ owned = Radios
    /\ config = [source |-> "freqmapper", from |-> 0, allow |-> FALSE]
    /\ poll = None
    /\ cursor = 0
    /\ admin = 0
    /\ \/ /\ feed = <<>>
          /\ tables = Empty
       \/ \E r \in Radios :
          /\ feed = <<Event(0, r, 0)>>
          /\ tables = [Empty EXCEPT !.verif = {[id |-> 1, at |-> 0]}]

\* The feed publishes an event of now or, uploaded late, of before.
Publish(r, occ) ==
    /\ Len(feed) < MaxEvents
    /\ feed' = Append(feed, Event(now, r, occ))
    /\ UNCHANGED <<now, cursor, config, owned, tables, poll, admin>>

-----------------------------------------------------------------------------
(* One event, in the transaction of its page.                                *)

Ids(verif) == {v.id : v \in verif}

\* _backfill_guard_time.
GuardTime(e) == e.pub

Advanced(mark, t) == IF mark = None \/ t > mark THEN t ELSE mark

\* Mutation: history is what the dedupe window no longer holds.
IsBackfillLoose(mark, t) == mark # None /\ t < mark - VerifKept

IsBackfill(mark, t) == mark # None /\ t < mark

Paint(tb, i, allow) ==
    LET e == feed[i]
        again == {i} \cap tb.painted
        later == {j \in tb.painted : feed[j].pub > e.pub}
    IN  [tb EXCEPT !.pings = @ \cup {[radio |-> e.radio, ts |-> e.occ, at |-> now]},
                   !.painted = @ \cup {i},
                   !.twice = IF allow THEN @ ELSE @ \cup again,
                   !.stale = IF allow \/ later = {} THEN @ ELSE @ \cup again]

\* _process_one_event.
ProcessEvent(tb, i, cfg) ==
    LET e == feed[i]
        known == [tb EXCEPT !.verif = @ \cup {[id |-> i, at |-> now]}]
        past == [known EXCEPT !.mark = Advanced(@, GuardTime(e))]
    IN  IF cfg.from = None \/ e.occ < cfg.from THEN [tb EXCEPT !.dated = @ \cup {i}]
        ELSE IF i \in Ids(tb.verif) THEN tb
        ELSE IF IsBackfill(tb.mark, GuardTime(e)) /\ ~cfg.allow THEN [known EXCEPT !.refused = @ \cup {i}]
        ELSE IF e.radio \notin owned \/ cfg.source = "meshview" THEN past
        ELSE IF \E p \in tb.pings : p.radio = e.radio /\ p.ts = e.occ THEN past
        ELSE Paint(past, i, cfg.allow)

-----------------------------------------------------------------------------
(* The poll.                                                                 *)

\* _maybe_seed_high_water_mark: an upgraded deployment takes its mark from what it
\* has seen.
Seeded(tb) ==
    IF tb.mark # None \/ tb.verif = {} THEN tb
    ELSE LET seen == {v.at : v \in tb.verif}
         IN  [tb EXCEPT !.mark = (CHOOSE t \in seen : \A s \in seen : s <= t) - SeedGrace]

\* The configuration and the cursor, before anything is awaited; the mark.
StartPoll ==
    /\ poll = None
    /\ poll' = [cursor |-> cursor, config |-> config]
    /\ tables' = Seeded(tables)
    /\ UNCHANGED <<now, feed, cursor, config, owned, admin>>

\* No answer, an error, or the process stops.
PollFails ==
    /\ poll # None
    /\ poll' = None
    /\ UNCHANGED <<now, feed, cursor, config, owned, tables, admin>>

Earlier(a, b) == IF a < b THEN a ELSE b

\* The last event of the page behind a cursor.
PageEnd(from) == Earlier(from + PageLimit, Len(feed))

\* The tables after the events of a page, one after the other.
AfterPage(from, cfg) ==
    LET after[i \in from..PageEnd(from)] ==
            IF i = from THEN tables ELSE ProcessEvent(after[i - 1], i, cfg)
    IN after[PageEnd(from)]

\* Mutation: the next cursor is the end of the feed, whatever the page holds.
NextCursorAtEnd(from) == Len(feed)

NextCursor(from) == PageEnd(from)

\* The page is here: every event, and the next cursor, in one transaction.
FinishPoll ==
    /\ poll # None
    /\ tables' = AfterPage(poll.cursor, poll.config)
    /\ cursor' = NextCursor(poll.cursor)
    /\ poll' = None
    /\ UNCHANGED <<now, feed, config, owned, admin>>

\* _maybe_housekeeping, and _housekeeping_sync of mc_ingest.
Housekeep ==
    /\ tables' = [tables EXCEPT !.verif = {v \in @ : v.at >= now - VerifKept},
                                !.pings = {p \in @ : p.at >= now - PingKept}]
    /\ tables' # tables
    /\ UNCHANGED <<now, feed, cursor, config, owned, poll, admin>>

-----------------------------------------------------------------------------
(* Operators and players.                                                    *)

Changes == admin < MaxAdmin /\ admin' = admin + 1

\* admin_paint_update.
SetPaint(source, from) ==
    /\ Changes
    /\ config' = [config EXCEPT !.source = source, !.from = from]
    /\ config' # config
    /\ UNCHANGED <<now, feed, cursor, owned, tables, poll>>

\* freqmapper_config.allow_backfill, which no route sets, by hand.
AllowBackfill ==
    /\ Changes
    /\ config' = [config EXCEPT !.allow = ~@]
    /\ UNCHANGED <<now, feed, cursor, owned, tables, poll>>

\* admin_paint_clear_cursor.
ClearCursor ==
    /\ Changes
    /\ cursor' = 0
    /\ UNCHANGED <<now, feed, config, owned, tables, poll>>

\* nodes_api and admin_node_*: a radio gets or loses its player.
Register(r) ==
    /\ Changes
    /\ owned' = IF r \in owned THEN owned \ {r} ELSE owned \cup {r}
    /\ UNCHANGED <<now, feed, cursor, config, tables, poll>>

Tick ==
    /\ now < Horizon
    /\ now' = now + 1
    /\ UNCHANGED <<feed, cursor, config, owned, tables, poll, admin>>

Next ==
    \/ \E r \in Radios, occ \in 0..now : Publish(r, occ)
    \/ StartPoll \/ PollFails \/ FinishPoll \/ Housekeep
    \/ \E s \in {"freqmapper", "meshview"}, d \in Times \cup {None} : SetPaint(s, d)
    \/ ClearCursor \/ AllowBackfill
    \/ \E r \in Radios : Register(r)
    \/ Tick

Spec == Init /\ [][Next]_vars

-----------------------------------------------------------------------------
(* Properties.                                                               *)

\* However often the feed is walked again, and whatever the tables have forgotten by
\* then, no event paints a second time once a later one has been painted, unless an
\* operator allowed it.
OldEventsPaintOnce == tables.stale = {}

\* What the stored cursor is past was decided: no page is skipped, whatever failed.
DecidedUpToCursor ==
    \A i \in 1..cursor :
        \/ i \in Ids(tables.verif) \cup tables.painted \cup tables.dated \cup tables.refused
        \/ feed[i].pub < now - VerifKept

\* "An already-seen one coming back around is a no-op, not a replay or a double-score"
\* (admin_paint_clear_cursor).
PaintsOnce == tables.twice = {}

\* "An admin who moves paint_from earlier and clears the cursor needs FreqMapper to
\* hand this same event back and needs it to reach this function with a clean slate":
\* an event that was skipped for its date is not refused as history later.
DateSkipsComeBack == tables.dated \cap tables.refused = {}
=============================================================================
