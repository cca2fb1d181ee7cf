----------------------------- MODULE MCAccounts -----------------------------
(* Who a player is: signing in to an account (Doors), the radios a player     *)
(* claims (Claims), the keys and the team (Roster).  None reads what another  *)
(* writes but for the bare existence of accounts: a behaviour follows one.    *)
EXTENDS Doors, TLC

CONSTANTS Followed,
          Claimants, Players, McRadios, MtRadios, Names, Codes, Connectors, Procs, Tasks,
          NameOf(_), Window, Throttle, MaxCalls, MaxTime,
          Keys, Teams, Processes, KeyTtl, CacheMax, MonthStart(_), MonthEnd(_),
          MaxLookups, MaxQueue, MaxRoutes

VARIABLES follows,
          time, heard, sent, issued, mc, mt, bound, calls, task, watcher, proven,
          month, player, opened, key, change, cache, lookup, asked, queue, routes, trace

claimVars == <<time, heard, sent, issued, mc, mt, bound, calls, task, watcher, proven>>
ringVars == <<month, player, opened, key, change, cache, lookup, asked, queue, routes, trace>>

Claim == INSTANCE Claims WITH Nil <- None
Ring == INSTANCE Roster WITH now <- month, account <- opened, request <- asked

ASSUME ClaimShape == Claim!ClaimSets
ASSUME RosterShape == Ring!RosterConstants

Mine == CHOOSE n \in Names : TRUE
Radios == McRadios \cup MtRadios

\* What a component starts from that is not followed: a silent mesh; one player, of no
\* account.
Silent == \A c \in Connectors, r \in McRadios : heard[c][r] = 0
Someone(p) == IF p = CHOOSE q \in Players : TRUE
              THEN Ring!Joined(CHOOSE t \in Teams : TRUE, None) ELSE Ring!NoPlayer

MCInit ==
    /\ Init /\ Claim!Init /\ Ring!Init
    /\ follows \in Followed
    /\ follows = "claims" \/ Silent
    /\ follows = "doors" \/ \A a \in Accounts : totp[a] = NoTotp
    /\ follows = "keys" \/ \A p \in Players : player[p] = Someone(p)

\* A poll only notes when it was, which only polls read, and a watcher stops
\* for what routes do whatever they find: claims are followed without polls and
\* watchers, and these with a silent mesh and the routes of Discord.  No radio
\* is added whose row a claim of its player leaves as it is.
MCNext ==
    /\ UNCHANGED follows
    /\ \/ follows = "doors" /\ Next /\ UNCHANGED <<claimVars, ringVars>>
       \/ /\ follows = "claims" /\ Claim!Next /\ UNCHANGED <<vars, ringVars>>
          /\ <<task, watcher>>' = <<task, watcher>>
          /\ \A c \in calls' : c.from = "page" /\ c.does # "status"
          /\ \A r \in Radios : bound'[r] # None =>
                bound'[r].confirmed \/ (r \in McRadios /\ ~bound'[r].key)
       \/ /\ follows = "watchers" /\ Claim!Next /\ UNCHANGED <<vars, ringVars>>
          /\ <<heard, sent, bound>>' = <<heard, sent, bound>>
          /\ \A c \in calls' : c.from # "page" /\ c.row.name \in {Mine, None}
       \/ follows = "keys" /\ Ring!Next /\ UNCHANGED <<vars, claimVars>>

MCSpec == MCInit /\ [][MCNext]_<<follows, vars, claimVars, ringVars>>

\* The properties of Claims and of Roster.
ClaimsAreProven == Claim!ClaimsAreProven
OneWatcher == Claim!OneWatcher
RevokedKeyDies == Ring!RevokedKeyDies
OneSwitchAMonth == Ring!OneSwitchAMonth

-----------------------------------------------------------------------------
(* Two people: one with a mailed link and a provider's account of the same    *)
(* address, the other with a provider's account that claims that address.     *)
(* And a player who claims radios, where another one may have added them,     *)
(* under one name of the two a player may type.                               *)

CONSTANTS mail, disc, claim, ann, bob
ProviderOf(i) == CASE i = mail -> "email" [] i = disc -> "discord" [] i = claim -> "discord"
AddressOf(i) == "x"
IsVerified(i) == i # claim
PersonOf(i) == IF i = claim THEN bob ELSE ann
\* At most MaxAtOnce tickets, sign-ins, requests and sessions at a time, and
\* MaxHistory codes and accounts over a behaviour.
CONSTANTS MaxAtOnce, MaxHistory
Small ==
    /\ Cardinality(ticket) + Cardinality(flight) + Cardinality(request) + Cardinality(session)
          <= MaxAtOnce
    /\ Cardinality(spent) + Cardinality({a \in Accounts : account[a] # "new"}) <= MaxHistory
Same == Permutations(Accounts)

OneName(r) == Mine

-----------------------------------------------------------------------------
(* A month is a tick, and nothing tells two players, keys, teams or           *)
(* processes apart.                                                           *)

SameTick(t) == t
NextTick(t) == t + 1
Alike == UNION {Permutations(S) : S \in {Players, Keys, Teams, Processes}}
=============================================================================
