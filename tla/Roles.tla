------------------------------- MODULE Roles -------------------------------
(* The bot's team roles (app/discord_bot.py).  Discord keeps who holds what;  *)
(* the database keeps one role id per team.  A sync reads the database, then  *)
(* asks Discord for the member, then puts and deletes roles from what it has  *)
(* read: a team may change under it, and other syncs run beside it.  The      *)
(* worker's loop walks over every linked player again and again.              *)
EXTENDS Naturals, FiniteSets

CONSTANTS Players, Users, Teams, RoleIds,
          Web,          \* requests a web process may have in flight
          Loop,         \* the worker's loop
          Nobody,
          MaxChanges,   \* bounds what people do
          FaultLimit    \* bounds failed calls to Discord and lost processes

ASSUME RoleSizes ==
    /\ MaxChanges \in Nat /\ FaultLimit \in Nat
    /\ Loop \notin Web /\ Nobody \notin Users \cup Teams \cup RoleIds

Actors == Web \cup {Loop}

VARIABLES
    team,       \* player.team, Nobody for a disabled player
    linked,     \* the Discord user of the player's account
    tracked,    \* discord_team_role: the role id of a team
    members,    \* the users that are in the guild
    guild,      \* the roles the guild has: id -> the team it is named for
    minted,     \* every role id Discord has handed out
    holds,      \* the roles of each member
    op,         \* what each actor is in the middle of
    walk,       \* the players a reconcile pass has still to visit
    changes, faults

database == <<team, linked, tracked>>
discord == <<members, guild, minted, holds>>
vars == <<database, discord, op, walk, changes, faults>>

Idle == [at |-> "idle"]

Linked == {p \in Players : linked[p] # Nobody}
Tracked(rows) == {rows[t] : t \in Teams} \ {Nobody}
Standing == {r \in RoleIds : guild[r] # Nobody}

\* A boot finds the team roles never made, or all of them in place.
Init ==
    /\ team \in [Players -> Teams]
    /\ linked \in [Players -> Users \cup {Nobody}]
    /\ \A p, q \in Players : p # q /\ linked[p] # Nobody => linked[p] # linked[q]
    /\ tracked \in {[t \in Teams |-> Nobody],
                   CHOOSE ids \in [Teams -> RoleIds] :
                       \A s, t \in Teams : s # t => ids[s] # ids[t]}
    /\ minted = Tracked(tracked)
    /\ guild = [r \in RoleIds |-> IF r \in minted THEN CHOOSE t \in Teams : tracked[t] = r
                                 ELSE Nobody]
    /\ members = Users
    /\ holds = [u \in Users |-> {}]
    /\ op = [a \in Actors |-> Idle]
    /\ walk = [a \in Actors |-> {}]
    /\ changes = 0 /\ faults = 0

Counted == changes < MaxChanges /\ changes' = changes + 1 /\ UNCHANGED faults
Faulty == faults < FaultLimit /\ faults' = faults + 1 /\ UNCHANGED changes
Free(w) == op[w] = Idle /\ walk[w] = {}
Becomes(a, state) == op' = [op EXCEPT ![a] = state]

(* The database, and the sync a request fires once it has committed.          *)

\* A player, or an admin for them, takes another team.
SwitchTeam(w, p, t) ==
    /\ Counted /\ Free(w) /\ team[p] # Nobody /\ t # team[p]
    /\ team' = [team EXCEPT ![p] = t]
    /\ Becomes(w, [at |-> "due", player |-> p])
    /\ UNCHANGED <<linked, tracked, discord, walk>>

\* A Discord identity is linked to the player's account.
Link(w, p, u) ==
    /\ Counted /\ Free(w) /\ linked[p] = Nobody /\ \A q \in Players : linked[q] # u
    /\ linked' = [linked EXCEPT ![p] = u]
    /\ Becomes(w, [at |-> "due", player |-> p])
    /\ UNCHANGED <<team, tracked, discord, walk>>

\* Unlinking and disabling commit and fire nothing.
Unlink(p) ==
    /\ Counted /\ linked[p] # Nobody
    /\ linked' = [linked EXCEPT ![p] = Nobody]
    /\ UNCHANGED <<team, tracked, discord, op, walk>>
Disable(p) ==
    /\ Counted /\ team[p] # Nobody
    /\ team' = [team EXCEPT ![p] = Nobody]
    /\ UNCHANGED <<linked, tracked, discord, op, walk>>

(* People in the guild.                                                       *)
JoinGuild(u) ==
    /\ Counted /\ u \notin members /\ members' = members \cup {u}
    /\ UNCHANGED <<database, guild, minted, holds, op, walk>>
LeaveGuild(u) ==
    /\ Counted /\ u \in members
    /\ members' = members \ {u} /\ holds' = [holds EXCEPT ![u] = {}]
    /\ UNCHANGED <<database, guild, minted, op, walk>>
TakeByHand(u, r) ==
    /\ Counted /\ u \in members /\ r \in Standing
    /\ holds' = [holds EXCEPT ![u] = IF r \in @ THEN @ \ {r} ELSE @ \cup {r}]
    /\ UNCHANGED <<database, members, guild, minted, op, walk>>
DeleteRole(r) ==
    /\ Counted /\ r \in Standing
    /\ guild' = [guild EXCEPT ![r] = Nobody]
    /\ holds' = [u \in Users |-> holds[u] \ {r}]
    /\ UNCHANGED <<database, members, minted, op, walk>>

(* sync_member.                                                               *)

\* It reads player, identity and role ids, and asks for the member.
Asking(p) ==
    IF linked[p] = Nobody THEN Idle
    ELSE [at |-> "asking", user |-> linked[p], rows |-> tracked, team |-> team[p]]
Read(w) ==
    /\ op[w].at = "due"
    /\ Becomes(w, Asking(op[w].player))
    /\ UNCHANGED <<database, discord, walk, changes, faults>>

Desired(o) == IF o.team = Nobody THEN {} ELSE {o.rows[o.team]} \ {Nobody}
Missing(o) == Desired(o) \ holds[o.user]
\* Roles are tidied when one is to be added, never otherwise.
SurplusOfAMove(o) == IF Missing(o) = {} THEN {} ELSE (holds[o.user] \cap Tracked(o.rows)) \ Desired(o)
Surplus(o) == (holds[o.user] \cap Tracked(o.rows)) \ Desired(o)

Changing(u, add, remove) ==
    IF add \cup remove = {} THEN Idle
    ELSE [at |-> "changing", user |-> u, add |-> add, remove |-> remove]

\* Discord's answer: a 404 is no error, the user is not in the guild.
Asked(a) ==
    /\ op[a].at = "asking"
    /\ Becomes(a, IF op[a].user \notin members THEN Idle
                  ELSE Changing(op[a].user, Missing(op[a]), Surplus(op[a])))
    /\ UNCHANGED <<database, discord, walk, changes, faults>>

\* The role to add first.  Discord refuses it when the user has left or the
\* role is gone, and the sync gives up there.
Put(a) ==
    /\ op[a].at = "changing"
    /\ \E r \in op[a].add :
        IF op[a].user \in members /\ r \in Standing
        THEN /\ holds' = [holds EXCEPT ![op[a].user] = @ \cup {r}]
             /\ Becomes(a, Changing(op[a].user, op[a].add \ {r}, op[a].remove))
        ELSE Becomes(a, Idle) /\ UNCHANGED holds
    /\ UNCHANGED <<database, members, guild, minted, walk, changes, faults>>

Delete(a) ==
    /\ op[a].at = "changing" /\ op[a].add = {}
    /\ \E r \in op[a].remove :
        IF op[a].user \in members /\ r \in Standing
        THEN /\ holds' = [holds EXCEPT ![op[a].user] = @ \ {r}]
             /\ Becomes(a, Changing(op[a].user, {}, op[a].remove \ {r}))
        ELSE Becomes(a, Idle) /\ UNCHANGED holds
    /\ UNCHANGED <<database, members, guild, minted, walk, changes, faults>>

(* reconcile_all: the loop's own pass, or the one an operator asks for.       *)
StartPass(a) ==
    /\ op[a] = Idle /\ walk[a] = {} /\ Linked # {}
    /\ IF a = Loop THEN UNCHANGED <<changes, faults>> ELSE Counted
    /\ walk' = [walk EXCEPT ![a] = Linked]
    /\ UNCHANGED <<database, discord, op>>

\* One player after the other; one whose sync failed stops nobody.
Visit(a) ==
    /\ op[a] = Idle
    /\ \E p \in walk[a] :
        /\ walk' = [walk EXCEPT ![a] = @ \ {p}]
        /\ Becomes(a, Asking(p))
    /\ UNCHANGED <<database, discord, changes, faults>>

(* ensure_team_roles, an operator's button.                                   *)
StartEnsure(w) ==
    /\ Counted /\ Free(w)
    /\ Becomes(w, [at |-> "listing", rows |-> tracked])
    /\ UNCHANGED <<database, discord, walk>>

Ensuring(rows, seen, left) ==
    IF left = {} THEN Idle
    ELSE [at |-> "ensuring", rows |-> rows, seen |-> seen, left |-> left]
Listed(w) ==
    /\ op[w].at = "listing"
    /\ Becomes(w, Ensuring(op[w].rows, guild, Teams))
    /\ UNCHANGED <<database, discord, walk, changes, faults>>

InPlace(o, t) == o.rows[t] # Nobody /\ o.seen[o.rows[t]] # Nobody
Adoptable(o, t) == {r \in RoleIds : o.rows[t] = Nobody /\ o.seen[r] = t}

\* The palette is gone through in a fixed order.
Turn(o) == CHOOSE t \in o.left : TRUE

Keep(w) ==
    /\ op[w].at = "ensuring"
    /\ LET t == Turn(op[w]) IN
        /\ InPlace(op[w], t) \/ Adoptable(op[w], t) # {}
        /\ IF InPlace(op[w], t) THEN UNCHANGED tracked
           ELSE \E r \in Adoptable(op[w], t) : tracked' = [tracked EXCEPT ![t] = r]
        /\ Becomes(w, Ensuring(op[w].rows, op[w].seen, op[w].left \ {t}))
    /\ UNCHANGED <<team, linked, discord, walk, changes, faults>>

\* Discord makes the role; its id is stored by a transaction of its own.
Create(w) ==
    /\ op[w].at = "ensuring" /\ minted # RoleIds
    /\ LET t == Turn(op[w])
           r == CHOOSE id \in RoleIds \ minted : TRUE IN
        /\ ~InPlace(op[w], t) /\ Adoptable(op[w], t) = {}
        /\ guild' = [guild EXCEPT ![r] = t]
        /\ minted' = minted \cup {r}
        /\ Becomes(w, [at |-> "created", rows |-> op[w].rows, seen |-> op[w].seen,
                       left |-> op[w].left \ {t}, team |-> t, role |-> r])
    /\ UNCHANGED <<database, members, holds, walk, changes, faults>>

Store(w) ==
    /\ op[w].at = "created"
    /\ tracked' = [tracked EXCEPT ![op[w].team] = op[w].role]
    /\ Becomes(w, Ensuring(op[w].rows, op[w].seen, op[w].left))
    /\ UNCHANGED <<team, linked, discord, walk, changes, faults>>

(* A call times out, or is rate limited twice: the error ends the sync, not   *)
(* the pass it is part of, and ends a role repair.  A process dies.           *)
CallFails(a) ==
    /\ Faulty /\ op[a].at \in {"asking", "changing", "listing", "ensuring"}
    /\ Becomes(a, Idle)
    /\ UNCHANGED <<database, discord, walk>>
Crash(dead) ==
    /\ Faulty /\ \E a \in dead : ~Free(a)
    /\ op' = [a \in Actors |-> IF a \in dead THEN Idle ELSE op[a]]
    /\ walk' = [a \in Actors |-> IF a \in dead THEN {} ELSE walk[a]]
    /\ UNCHANGED <<database, discord>>

Sync(a) == Read(a) \/ Asked(a) \/ Put(a) \/ Delete(a)
Ensure(w) == Listed(w) \/ Keep(w) \/ Create(w) \/ Store(w)

Next ==
    \/ \E w \in Web, p \in Players :
        (\E t \in Teams : SwitchTeam(w, p, t)) \/ \E u \in Users : Link(w, p, u)
    \/ \E p \in Players : Unlink(p) \/ Disable(p)
    \/ \E u \in Users : JoinGuild(u) \/ LeaveGuild(u) \/ \E r \in RoleIds : TakeByHand(u, r)
    \/ \E r \in RoleIds : DeleteRole(r)
    \/ \E a \in Actors : Sync(a) \/ StartPass(a) \/ Visit(a) \/ CallFails(a)
    \/ \E w \in Web : StartEnsure(w) \/ Ensure(w)
    \/ Crash(Web) \/ Crash({Loop})

\* run_forever goes on, each request that was started is run to its end, and
\* people stop changing things (MaxChanges).
Fairness ==
    /\ \A a \in Actors : WF_vars(Sync(a)) /\ WF_vars(Visit(a))
    /\ \A w \in Web : WF_vars(Ensure(w))
    /\ WF_vars(StartPass(Loop))

Spec == Init /\ [][Next]_vars /\ Fairness

(* What the module promises.                                                  *)

\* The role a member should have can be given.
Servable(p) ==
    /\ linked[p] \in members
    /\ team[p] # Nobody /\ tracked[team[p]] # Nobody => tracked[team[p]] \in Standing

InStep(p) ==
    holds[linked[p]] \cap Tracked(tracked) =
        IF team[p] = Nobody THEN {} ELSE {tracked[team[p]]} \ {Nobody}

\* Whatever order team changes, links, stale syncs, passes, hand edits, failed
\* calls and crashes came in, once people leave things alone every linked
\* member ends with the role of their team and with no other team's
\* (sync_member's diff, repaired by reconcile_all).
RolesSettle == \A p \in Players : <>[](linked[p] # Nobody /\ Servable(p) => InStep(p))
=============================================================================
