------------------------------- MODULE Roster -------------------------------
(* Players, their API keys and their accounts: app/join_api.py, the player   *)
(* and key routes of app/account_api.py and app/admin_api.py, and the key    *)
(* cache that each web process keeps (McIngestor.authenticate).              *)
(*                                                                           *)
(* Two gaps between a check and its use are kept: a key is looked up in a    *)
(* thread and cached when the answer is back, and a session is resolved to   *)
(* its account and player before the route's own transaction.  A batch then  *)
(* waits in the queue until the worker writes what it says about its player. *)
(*                                                                           *)
(* Left out: rate limits (any request may be refused), names and their       *)
(* confirmations, radios, notices, and join_token, which nothing issues.     *)
EXTENDS Integers, FiniteSets

CONSTANTS
    Players, Accounts, Keys, Teams,
    Processes,    \* the uvicorn workers
    KeyTtl,       \* mc_key_cache_seconds
    CacheMax,     \* _KEY_CACHE_MAX
    MonthStart(_), MonthEnd(_),   \* month_bounds(month_key(now))
    MaxLookups, MaxRequests, MaxQueue,  \* bounds on what is in flight
    MaxRoutes,    \* bound on the routes that write
    Horizon,      \* the last tick of the model
    None

RosterNumbers ==
    /\ {KeyTtl, CacheMax, MaxLookups, MaxRequests, MaxQueue, MaxRoutes,
     Horizon} \subseteq Nat
    /\ CacheMax > 0
\* Shipped as 60.
CacheKeeps == KeyTtl > 0
RosterSets == None \notin Players \cup Accounts \cup Keys \cup Teams
MonthsCover ==
    \A t \in 0..Horizon :
        /\ MonthStart(t) \in Int /\ MonthEnd(t) \in Int
        /\ MonthStart(t) <= t /\ t < MonthEnd(t)

\* What is assumed of the constants, by the module that instantiates this one.
RosterConstants == RosterNumbers /\ CacheKeeps /\ RosterSets /\ MonthsCover

VARIABLES
    now,
    player,    \* the player table, tombstones included
    account,   \* the accounts that exist
    key,       \* api_key
    change,    \* player_team_change
    cache,     \* _key_cache of each process
    lookup,    \* key lookups in a thread, not yet cached
    request,   \* requests of a session, between require_session and the write
    queue,     \* mc_ingest_queue
    routes,    \* routes so far
    trace      \* players with rows a batch wrote (player_cell_ping, player_node, ...)

vars == <<now, player, account, key, change, cache, lookup, request, queue, trace, routes>>

Times == 0..Horizon
NoPlayer == [made |-> FALSE, gone |-> FALSE, off |-> None, team |-> None, account |-> None]
FreshKey == [state |-> "fresh", owner |-> None, dead |-> None]

Joined(t, a) == [NoPlayer EXCEPT !.made = TRUE, !.team = t, !.account = a]

\* One player has joined, with or without an account.
Init ==
    /\ now = 0
    /\ account = Accounts
    /\ \E p \in Players, k \in Keys, t \in Teams, a \in Accounts \cup {None} :
          /\ player = [[x \in Players |-> NoPlayer] EXCEPT ![p] = Joined(t, a)]
          /\ key = [[x \in Keys |-> FreshKey] EXCEPT ![k] = [state |-> "live", owner |-> p,
                                                           dead |-> None]]
    /\ change = {}
    /\ cache = [w \in Processes |-> [k \in Keys |-> None]]
    /\ lookup = {} /\ request = {} /\ queue = {} /\ trace = {}
    /\ routes = 0

-----------------------------------------------------------------------------
(* Keys: authenticate.                                                       *)

\* _lookup_key_sync.
Answer(k) ==
    LET p == key[k].owner IN
    IF key[k].state # "live" THEN [status |-> "not_found", player |-> None]
    ELSE IF key[k].dead # None THEN [status |-> "revoked", player |-> p]
    ELSE IF player[p].off # None THEN [status |-> "disabled", player |-> p]
    ELSE [status |-> "ok", player |-> p]

Hit(w, k) == cache[w][k] # None /\ cache[w][k].until > now

\* Mutation: the entry's time starts when the answer is back.
ExpiryFromAnswer(l) == now + KeyTtl

\* The entry's time starts before the lookup.
Expiry(l) == l.began + KeyTtl

\* A full cache first loses what has expired, then everything.
MadeRoom(c) ==
    LET Size(d) == Cardinality({k \in Keys : d[k] # None})
        fresh == [k \in Keys |-> IF c[k] # None /\ c[k].until > now THEN c[k] ELSE None]
    IN  IF Size(c) < CacheMax THEN c
        ELSE IF Size(fresh) < CacheMax THEN fresh
        ELSE [k \in Keys |-> None]

StartLookup(w, k) ==
    /\ ~Hit(w, k)
    /\ Cardinality(lookup) < MaxLookups
    /\ lookup' = lookup \cup {[process |-> w, key |-> k, began |-> now, answer |-> Answer(k)]}
    /\ UNCHANGED <<now, player, account, key, change, cache, request, queue, trace>>

\* What a request with key k may learn in process w, now: a hit, or the answer of
\* its lookup.
Grants(w, k) ==
    (IF Hit(w, k) THEN {[answer |-> cache[w][k].answer, began |-> now, from |-> None]}
     ELSE {})
    \cup {[answer |-> l.answer, began |-> l.began, from |-> l] :
             l \in {m \in lookup : m.process = w /\ m.key = k}}

\* The cache, once the request has its answer.
Learn(w, k, g) ==
    IF g.from = None THEN UNCHANGED <<cache, lookup>>
    ELSE /\ lookup' = lookup \ {g.from}
         /\ cache' = [cache EXCEPT ![w] =
                        [MadeRoom(@) EXCEPT ![k] = [until |-> Expiry(g.from),
                                                    answer |-> g.answer]]]

\* The request is refused, whatever it asked for; the answer is cached all the same.
Refuse(w, k) ==
    \E g \in Grants(w, k) :
        /\ g.from # None
        /\ Learn(w, k, g)
        /\ UNCHANGED <<now, player, account, key, change, request, queue, trace>>

\* POST /api/mc/ingest, up to submit.
Ingest(w, k) ==
    \E g \in Grants(w, k) :
        /\ g.answer.status = "ok"
        /\ Cardinality(queue) < MaxQueue
        /\ Learn(w, k, g)
        /\ queue' = queue \cup {[player |-> g.answer.player, key |-> k, began |-> g.began]}
        /\ UNCHANGED <<now, player, account, key, change, request, trace>>

\* The worker scores the batch for whoever its row names, disabled or not.
ProcessBatch(b) ==
    /\ queue' = queue \ {b}
    /\ trace' = trace \cup {b.player}
    /\ UNCHANGED <<now, player, account, key, change, cache, lookup, request>>

\* invalidate_player: this process forgets what it knows of p's keys.
Invalidate(w, p) ==
    [cache EXCEPT ![w] =
        [k \in Keys |-> IF @[k] # None /\ @[k].answer.player = p THEN None ELSE @[k]]]

-----------------------------------------------------------------------------
(* What routes do to the tables.                                             *)

Revoked(keys, p) ==
    [k \in Keys |-> IF keys[k].state = "live" /\ keys[k].owner = p /\ keys[k].dead = None
                      THEN [keys[k] EXCEPT !.dead = now] ELSE keys[k]]

Issued(keys, k, p) == [keys EXCEPT ![k] = [state |-> "live", owner |-> p, dead |-> None]]

PlayerOf(a) == {p \in Players : player[p].account = a}

\* _claim_player.
Claimable(a, p) == PlayerOf(a) = {} /\ player[p].account = None

\* The player-scoped tables, and the tombstone.
Tombstoned(p) ==
    /\ player' = [player EXCEPT ![p].gone = TRUE, ![p].off = now, ![p].account = None]
    /\ key' = [k \in Keys |-> IF key[k].state = "live" /\ key[k].owner = p
                 THEN [state |-> "erased", owner |-> None,
                       dead |-> IF key[k].dead = None THEN now ELSE key[k].dead]
                 ELSE key[k]]
    /\ trace' = trace \ {p}

-----------------------------------------------------------------------------
(* Routes of players and accounts.                                           *)

\* A session is resolved to its account and the account's player.
BeginRequest(w, a) ==
    /\ a \in account
    /\ Cardinality(request) < MaxRequests
    /\ \E p \in IF PlayerOf(a) = {} THEN {None} ELSE PlayerOf(a) :
          request' = request \cup {[process |-> w, account |-> a, player |-> p]}
    /\ UNCHANGED <<now, player, account, key, change, cache, lookup, queue, trace>>

\* _create_player: for nobody's account, or for the session's if it has no player.
CreatePlayer(p, k, t, a) ==
    /\ ~player[p].made
    /\ a # None => PlayerOf(a) = {}
    /\ player' = [player EXCEPT ![p] = Joined(t, a)]
    /\ key[k].state = "fresh"
    /\ key' = Issued(key, k, p)

Join(p, k, t) ==
    /\ CreatePlayer(p, k, t, None)
    /\ UNCHANGED <<now, account, change, cache, lookup, request, queue, trace>>

JoinSignedIn(q, p, k, t) ==
    /\ q.player = None
    /\ CreatePlayer(p, k, t, q.account)
    /\ request' = request \ {q}
    /\ UNCHANGED <<now, account, change, cache, lookup, queue, trace>>

\* link_key.
LinkKey(q, k) ==
    \E g \in Grants(q.process, k) :
        /\ g.answer.status = "ok"
        /\ Claimable(q.account, g.answer.player)
        /\ Learn(q.process, k, g)
        /\ player' = [player EXCEPT ![g.answer.player].account = q.account]
        /\ request' = request \ {q}
        /\ UNCHANGED <<now, account, key, change, queue, trace>>

\* rotate_key.
RotateKey(q, k) ==
    /\ q.player # None
    /\ key[k].state = "fresh"
    /\ key' = Issued(Revoked(key, q.player), k, q.player)
    /\ cache' = Invalidate(q.process, q.player)
    /\ request' = request \ {q}
    /\ UNCHANGED <<now, player, account, change, lookup, queue, trace>>

\* delete_account, of the account and player that the session was resolved to.
DeleteAccount(q) ==
    /\ account' = account \ {q.account}
    /\ request' = request \ {q}
    /\ IF q.player = None THEN UNCHANGED <<player, key, trace, cache>>
       ELSE Tombstoned(q.player) /\ cache' = Invalidate(q.process, q.player)
    /\ UNCHANGED <<now, change, lookup, queue>>

\* A request that was refused or only read something.
EndRequest(q) ==
    /\ request' = request \ {q}
    /\ UNCHANGED <<now, player, account, key, change, cache, lookup, queue, trace>>

\* Mutation: the first moment of the month does not count.
SwitchUsedLate(p) ==
    \E c \in change : /\ c.player = p /\ c.actor = "player"
                      /\ MonthStart(now) < c.at /\ c.at < MonthEnd(now)

\* _switch_used_this_month.
SwitchUsed(p) ==
    \E c \in change : /\ c.player = p /\ c.actor = "player"
                      /\ MonthStart(now) <= c.at /\ c.at < MonthEnd(now)

ChangeTeam(p, t, actor) ==
    /\ player[p].made /\ player[p].team # t
    /\ player' = [player EXCEPT ![p].team = t]
    /\ change' = change \cup {[player |-> p, to |-> t, at |-> now, actor |-> actor]}

\* switch_team, with a key or with a session.
SwitchTeam(w, k, t) ==
    \E g \in Grants(w, k) :
        /\ g.answer.status = "ok"
        /\ ~SwitchUsed(g.answer.player)
        /\ Learn(w, k, g)
        /\ ChangeTeam(g.answer.player, t, "player")
        /\ UNCHANGED <<now, account, key, request, queue, trace>>

SwitchTeamSignedIn(q, t) ==
    /\ q.player # None
    /\ ~SwitchUsed(q.player)
    /\ ChangeTeam(q.player, t, "player")
    /\ request' = request \ {q}
    /\ UNCHANGED <<now, account, key, cache, lookup, queue, trace>>

-----------------------------------------------------------------------------
(* Routes of the operators.                                                  *)

\* admin_revoke.
AdminRevoke(w, k) ==
    /\ key[k].state = "live"
    /\ key' = [key EXCEPT ![k].dead = now]
    /\ cache' = [cache EXCEPT ![w][k] = None]
    /\ UNCHANGED <<now, player, account, change, lookup, request, queue, trace>>

\* _set_player_disabled: tombstones too.
SetDisabled(w, p, off) ==
    /\ player[p].made
    /\ player' = [player EXCEPT ![p].off = off]
    /\ cache' = Invalidate(w, p)
    /\ UNCHANGED <<now, account, key, change, lookup, request, queue, trace>>

\* admin_player_issue_key, and admin_player_reissue, which first revokes the others.
AdminIssue(p, k) ==
    /\ player[p].made /\ key[k].state = "fresh"
    /\ key' = Issued(key, k, p)
    /\ UNCHANGED <<now, player, account, change, cache, lookup, request, queue, trace>>

AdminReissue(w, p, k) ==
    /\ player[p].made /\ key[k].state = "fresh"
    /\ key' = Issued(Revoked(key, p), k, p)
    /\ cache' = Invalidate(w, p)
    /\ UNCHANGED <<now, player, account, change, lookup, request, queue, trace>>

\* admin_player_unlink_account.
AdminUnlink(p) ==
    /\ player[p].account # None
    /\ player' = [player EXCEPT ![p].account = None]
    /\ UNCHANGED <<now, account, key, change, cache, lookup, request, queue, trace>>

\* admin_player_delete: with the account, if there is one.
AdminDeletePlayer(w, p) ==
    /\ player[p].made
    /\ Tombstoned(p)
    /\ account' = account \ {player[p].account}
    /\ cache' = Invalidate(w, p)
    /\ UNCHANGED <<now, change, lookup, request, queue>>

\* admin_account_delete: with the player, if there is one.
AdminDeleteAccount(w, a) ==
    /\ a \in account
    /\ account' = account \ {a}
    /\ IF PlayerOf(a) = {} THEN UNCHANGED <<player, key, trace, cache>>
       ELSE \E p \in PlayerOf(a) : Tombstoned(p) /\ cache' = Invalidate(w, p)
    /\ UNCHANGED <<now, change, lookup, request, queue>>

\* admin_set_team.
AdminSetTeam(p, t) ==
    /\ ChangeTeam(p, t, "operator")
    /\ UNCHANGED <<now, account, key, cache, lookup, request, queue, trace>>

Tick ==
    /\ now < Horizon
    /\ now' = now + 1
    /\ UNCHANGED <<player, account, key, change, cache, lookup, request, queue, trace>>

\* Requests that write nothing but caches, and the worker.
Serve ==
    \/ Tick
    \/ \E w \in Processes, k \in Keys : StartLookup(w, k) \/ Refuse(w, k) \/ Ingest(w, k)
    \/ \E b \in queue : ProcessBatch(b)
    \/ \E w \in Processes, a \in Accounts : BeginRequest(w, a)
    \/ \E q \in request : EndRequest(q)

UserRoute ==
    \/ \E p \in Players, k \in Keys, t \in Teams :
          \/ Join(p, k, t)
          \/ \E q \in request : JoinSignedIn(q, p, k, t)
    \/ \E q \in request :
          \/ DeleteAccount(q)
          \/ \E k \in Keys : LinkKey(q, k) \/ RotateKey(q, k)
          \/ \E t \in Teams : SwitchTeamSignedIn(q, t)
    \/ \E w \in Processes, k \in Keys, t \in Teams : SwitchTeam(w, k, t)

AdminRoute ==
    \/ \E w \in Processes, k \in Keys :
          \/ AdminRevoke(w, k)
          \/ \E p \in Players : AdminReissue(w, p, k)
    \/ \E w \in Processes, a \in Accounts : AdminDeleteAccount(w, a)
    \/ \E w \in Processes, p \in Players :
          \/ SetDisabled(w, p, None) \/ SetDisabled(w, p, now) \/ AdminDeletePlayer(w, p)
    \/ \E p \in Players : \/ AdminUnlink(p)
                          \/ \E k \in Keys : AdminIssue(p, k)
                          \/ \E t \in Teams : AdminSetTeam(p, t)

Next ==
    \/ Serve /\ UNCHANGED routes
    \/ routes < MaxRoutes /\ (UserRoute \/ AdminRoute) /\ routes' = routes + 1

Spec == Init /\ [][Next]_vars

-----------------------------------------------------------------------------
(* Properties.                                                               *)

\* A key that was revoked or erased, and a player who was disabled, get no batch
\* into the queue with a request of KeyTtl or more later, in any process and
\* however long the lookups took.
RevokedKeyDies ==
    \A b \in queue :
        /\ key[b.key].dead # None => b.began < key[b.key].dead + KeyTtl
        /\ player[b.player].off # None => b.began < player[b.player].off + KeyTtl

\* "you can only switch teams once per month": by key or session, in any process,
\* operators' changes not counted.
OneSwitchAMonth ==
    \A c, d \in change :
        /\ c.player = d.player /\ c.actor = "player" /\ d.actor = "player"
        /\ MonthStart(c.at) = MonthStart(d.at)
        => c = d

\* delete_account purges a player "completely": no table keyed on player_id keeps or
\* gets a row of a tombstone (app/account_api.py, the account deletion section).
GoneMeansGone == \A p \in Players : player[p].gone => p \notin trace

\* A tombstone is "no longer claimable by, or attributable to, any account", and no
\* player names an account that does not exist.
LinksHold ==
    \A p \in Players : player[p].account # None =>
        ~player[p].gone /\ player[p].account \in account
=============================================================================
