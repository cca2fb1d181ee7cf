------------------------------ MODULE Announce ------------------------------
(* The public announcement feed.  The worker's poll (app/announce.py) asks    *)
(* every provider what is due and stores it once; bots page through the feed  *)
(* with ?since= from web processes that cache their pages (app/public_api.py).*)
(* A week or a net ends with the calendar; a month or a season is closed by   *)
(* the scoring, later.                                                        *)
EXTENDS Integers, FiniteSets, Sequences, SequencesExt

CONSTANTS Calendar,     \* kinds whose newest period the calendar names
          Closing,      \* kinds whose newest period is the one closed last
          Boards,
          Length,       \* of a kind's periods, in ticks
          MaxAge,       \* a kind's backlog window, in ticks
          Bots, Webs, PageSize,
          MaxTime,      \* bounds the calendar
          MaxNews,      \* bounds what there is to tell
          MaxRefreezes  \* bounds what an admin does

Kinds == Calendar \cup Closing

VARIABLES
    now,
    inSeason,   \* the boards with an active season
    busy,       \* the periods with something to tell of when they end
    closed,     \* when a period was closed, 0 when it was not
    feed,       \* the announcement table: ids are positions
    up, polled, \* the worker, and whether it has polled in this tick
    served,     \* the periods a provider had its say about in time, for NewsGetsOut
    asksFor,    \* the kinds each bot asks for
    cursor, heard,
    cache,      \* the pages a web process has kept
    refreezes

vars == <<now, inSeason, busy, closed, feed, up, polled, served,
          asksFor, cursor, heard, cache, refreezes>>

Periods(k) == 1..(MaxTime \div Length[k])
End(k, n) == n * Length[k]
LastEnded(k, t) == t \div Length[k]
News == UNION {[kind : {k}, period : Periods(k), board : Boards] : k \in Kinds}
TooOld(k, n, t) == t - End(k, n) > MaxAge[k]

Stored(k, n, b) == \E i \in DOMAIN feed : feed[i] = [kind |-> k, period |-> n, board |-> b]

Init ==
    /\ now = 0 /\ inSeason \in SUBSET Boards
    /\ busy \in {s \in SUBSET News : Cardinality(s) = MaxNews}
    /\ closed = [k \in Closing |-> [b \in Boards |-> [n \in Periods(k) |-> 0]]]
    /\ feed = <<>>
    /\ up = TRUE /\ polled = TRUE
    /\ served = [k \in Calendar |-> {}]
    /\ asksFor \in [Bots -> SUBSET Kinds \ {{}}]
    /\ cursor = [c \in Bots |-> 0] /\ heard = [c \in Bots |-> {}]
    /\ cache = {} /\ refreezes = 0

readers == <<asksFor, cursor, heard, cache>>

(* Time, and what closes.                                                     *)

\* A working day goes by.  A worker that is up has polled in it many times.
Tick ==
    /\ now < MaxTime /\ (up => polled)
    /\ now' = now + 1 /\ polled' = FALSE
    /\ UNCHANGED <<inSeason, busy, closed, feed, up, served, readers, refreezes>>

\* The scoring closes every finished period that is still open, in one go.
Close(k, b) ==
    /\ up
    /\ LET open == {n \in Periods(k) : n <= LastEnded(k, now) /\ closed[k][b][n] = 0} IN
        /\ open # {}
        /\ closed' = [closed EXCEPT ![k][b] = [n \in Periods(k) |-> IF n \in open THEN now ELSE @[n]]]
    /\ UNCHANGED <<now, inSeason, busy, feed, up, polled, served, readers, refreezes>>

\* An admin freezes a month again: its row is replaced.
Refreeze(k, b, n) ==
    /\ refreezes < MaxRefreezes /\ refreezes' = refreezes + 1
    /\ n \in Periods(k) /\ closed[k][b][n] \in 1..(now - 1)
    /\ closed' = [closed EXCEPT ![k][b][n] = now]
    /\ UNCHANGED <<now, inSeason, busy, feed, up, polled, served, readers>>

(* The poll.                                                                  *)

\* The one period of a kind that can be due on a board: the last the calendar
\* has ended, or one that was closed last.
Latest(k, b) ==
    LET on == {n \in Periods(k) : closed[k][b][n] # 0} IN
    {n \in on : \A m \in on : closed[k][b][m] <= closed[k][b][n]}
Candidates(k, b) ==
    IF k \in Closing THEN Latest(k, b)
    ELSE IF b \in inSeason /\ LastEnded(k, now) > 0 THEN {LastEnded(k, now)} ELSE {}

\* Not stored yet, within the backlog window, with something to tell.
Due(k, b, n) ==
    /\ ~Stored(k, n, b) /\ ~TooOld(k, n, now)
    /\ [kind |-> k, period |-> n, board |-> b] \in busy

\* ORDER BY closed_at DESC LIMIT 1: of months closed in one go the database
\* returns the first or the last.
Picked(k, b, first) ==
    {n \in Candidates(k, b) :
        \A m \in Candidates(k, b) : IF first THEN n <= m ELSE m <= n}

\* A provider's items.
Items(k, first) ==
    {r \in [kind : {k}, period : Periods(k), board : Boards] :
        r.period \in Picked(k, r.board, first) /\ Due(k, r.board, r.period)}

\* The first provider that raises ends the round.
ToldUpTo(failed, first) ==
    IF failed = {} THEN UNION {Items(k, first) : k \in Kinds} ELSE {}

\* A provider that raises is skipped; the others have their say.
Told(failed, first) == UNION {Items(k, first) : k \in Kinds \ failed}

\* One write transaction: every provider asked, every item stored.
Poll(failed, first) ==
    /\ up
    /\ feed' = feed \o SetToSeq(Told(failed, first))
    /\ polled' = TRUE
    /\ served' = [k \in Calendar |-> served[k] \cup
                    {n \in {LastEnded(k, now)} : k \notin failed /\ ~TooOld(k, n, now)}]
    /\ UNCHANGED <<now, inSeason, busy, closed, up, readers, refreezes>>

Stop == up /\ up' = FALSE /\ UNCHANGED <<now, inSeason, busy, closed, feed, polled, served, readers, refreezes>>
Restart == ~up /\ up' = TRUE /\ UNCHANGED <<now, inSeason, busy, closed, feed, polled, served, readers, refreezes>>

(* The bots.                                                                  *)

Matching(kinds, since) == {i \in DOMAIN feed : i > since /\ feed[i].kind \in kinds}
Smallest(s, size) == {i \in s : Cardinality({j \in s : j < i}) < size}
Newest(s, size) == {i \in s : Cardinality({j \in s : j > i}) < size}

\* A page, newest first as the captures are.
NewestPage(kinds, since) == Newest(Matching(kinds, since), PageSize)

\* ORDER BY id LIMIT: the oldest rows behind the cursor.
Page(kinds, since) == Smallest(Matching(kinds, since), PageSize)

Cached(w, kinds, since) ==
    {e \in cache : e.web = w /\ e.kinds = kinds /\ e.since = since}

\* A bot asks any web process, which answers from its cache or builds the page;
\* next_since is the highest id in it.
Ask(c, w) ==
    LET kept == Cached(w, asksFor[c], cursor[c])
        entry == IF kept # {} THEN CHOOSE e \in kept : TRUE
                 ELSE [web |-> w, kinds |-> asksFor[c], since |-> cursor[c],
                       page |-> Page(asksFor[c], cursor[c])]
    IN
    /\ cache' = cache \cup {entry}
    /\ heard' = [heard EXCEPT ![c] = @ \cup entry.page]
    /\ cursor' = [cursor EXCEPT ![c] =
                    CHOOSE i \in entry.page \cup {@} : \A j \in entry.page \cup {@} : j <= i]
    /\ UNCHANGED <<now, inSeason, busy, closed, feed, up, polled, served, asksFor, refreezes>>

\* announcements_cache_seconds are over, or the process was restarted.
Expire(w) ==
    /\ \E e \in cache : e.web = w
    /\ cache' = {e \in cache : e.web # w}
    /\ UNCHANGED <<now, inSeason, busy, closed, feed, up, polled, served,
                   asksFor, cursor, heard, refreezes>>

Next ==
    \/ Tick \/ Stop \/ Restart
    \/ \E k \in Closing, b \in Boards : Close(k, b) \/ \E n \in Periods(k) : Refreeze(k, b, n)
    \/ \E failed \in SUBSET Kinds, first \in BOOLEAN : Poll(failed, first)
    \/ \E w \in Webs : Expire(w) \/ \E c \in Bots : Ask(c, w)

Spec == Init /\ [][Next]_vars

(* What the module promises.                                                  *)

\* A week that had something to tell is told if its provider had its say once
\* while the week was the last one and not too old, whatever the worker missed
\* and whichever other provider raised (check_due).
NewsGetsOut ==
    \A k \in Calendar, b \in inSeason :
        \A n \in served[k] :
            [kind |-> k, period |-> n, board |-> b] \in busy => Stored(k, n, b)

\* A bot that polls with next_since has heard, below its cursor, every
\* announcement of the kinds it asks for, whatever was cached, paged or stored
\* in between (v1_announcements).
NothingSkipped ==
    \A c \in Bots :
        {i \in DOMAIN feed : i <= cursor[c] /\ feed[i].kind \in asksFor[c]} \subseteq heard[c]
=============================================================================
