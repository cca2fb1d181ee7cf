---------------------------- MODULE RegionGroups ----------------------------
(* Groups of regions and the players' requests for them (app/regions.py,      *)
(* app/region_requests.py).  Every handler is one immediate transaction.  Which *)
(* regions a group holds directly is left out.                                *)
EXTENDS Integers, FiniteSets

CONSTANTS RegionCodes,  \* of the regions stored, lower case as slugs are
          Slugs, GroupIds, Askers, DailyLimit, Day, MaxRequests,
          Horizon       \* bounds the clock

VARIABLES
    hour,
    groups,     \* region_group with its members: a function on the ids in use
    lastId,     \* AUTOINCREMENT
    asked       \* region_join_request: ids are positions

groupVars == <<hour, groups, lastId, asked>>

Init == hour = 0 /\ groups = <<>> /\ lastId = 0 /\ asked = <<>>

Later == hour < Horizon /\ hour' = hour + 1 /\ UNCHANGED <<groups, lastId, asked>>

(* Groups.                                                                    *)

Children(g) == groups[g].children

\* The groups a set of groups holds, themselves included: the search of
\* _would_cycle and of resolve, as many rounds as there are ids.
Reach(gs) ==
    LET rounds == Cardinality(DOMAIN groups)
        round[n \in 0..rounds] ==
            IF n = 0 THEN gs
            ELSE round[n - 1] \cup UNION {Children(g) : g \in round[n - 1]}
    IN round[rounds]

\* Only the members themselves are looked at.
HoldsItself(g, children) == g \in children \cup UNION {Children(c) : c \in children}

\* _would_cycle.
WouldCycle(g, children) == g \in Reach(children)

\* _check_name_slug.
SlugFree(g, slug) ==
    /\ slug \notin RegionCodes
    /\ \A h \in DOMAIN groups : groups[h].slug = slug => h = g

\* create_group: a new group is nobody's member yet.
Added(slug, children) ==
    [h \in DOMAIN groups \cup {lastId + 1} |->
        IF h = lastId + 1 THEN [slug |-> slug, children |-> children]
        ELSE groups[h]]

CreateGroup(slug, children) ==
    /\ lastId + 1 \in GroupIds /\ children \subseteq DOMAIN groups
    /\ SlugFree(0, slug)
    /\ groups' = Added(slug, children) /\ lastId' = lastId + 1
    /\ UNCHANGED <<hour, asked>>

UpdateGroup(g, slug, children) ==
    /\ g \in DOMAIN groups /\ children \subseteq DOMAIN groups
    /\ SlugFree(g, slug) /\ ~WouldCycle(g, children)
    /\ groups' = [groups EXCEPT ![g] = [slug |-> slug, children |-> children]]
    /\ UNCHANGED <<hour, lastId, asked>>

\* The rows that name the group go with it (ON DELETE CASCADE).
DeleteGroup(g) ==
    /\ g \in DOMAIN groups
    /\ groups' = [h \in DOMAIN groups \ {g} |-> [groups[h] EXCEPT !.children = @ \ {g}]]
    /\ UNCHANGED <<hour, lastId, asked>>

(* Requests.                                                                  *)

\* What a player sent in the last WINDOW_SECONDS.
Used(p) == {i \in DOMAIN asked : asked[i].by = p /\ asked[i].at > hour - Day}

JoinRequest(p) ==
    /\ Cardinality(DOMAIN asked) < MaxRequests
    /\ Cardinality(Used(p)) < DailyLimit
    /\ asked' = [i \in 1..(Cardinality(DOMAIN asked) + 1) |->
                    IF i \in DOMAIN asked THEN asked[i]
                    ELSE [by |-> p, at |-> hour, status |-> "pending"]]
    /\ UNCHANGED <<hour, groups, lastId>>

\* Under the requested name or one the admin chose; a slug in use leaves the
\* request pending.
Approve(i, slug) ==
    /\ i \in DOMAIN asked /\ asked[i].status = "pending"
    /\ lastId + 1 \in GroupIds /\ SlugFree(0, slug)
    /\ groups' = Added(slug, {}) /\ lastId' = lastId + 1
    /\ asked' = [asked EXCEPT ![i].status = "approved"]
    /\ UNCHANGED hour

Decline(i) ==
    /\ i \in DOMAIN asked /\ asked[i].status = "pending"
    /\ asked' = [asked EXCEPT ![i].status = "declined"]
    /\ UNCHANGED <<hour, groups, lastId>>

Next ==
    \/ Later
    \/ \E slug \in Slugs, children \in SUBSET GroupIds :
        \/ CreateGroup(slug, children)
        \/ \E g \in GroupIds : UpdateGroup(g, slug, children)
    \/ \E g \in GroupIds : DeleteGroup(g)
    \/ \E p \in Askers : JoinRequest(p)
    \/ \E i \in 1..MaxRequests : Decline(i) \/ \E slug \in Slugs : Approve(i, slug)

Spec == Init /\ [][Next]_groupVars

\* No run of edits, deletions and approvals makes a group hold itself, however
\* many groups lie in between: resolve and list_groups would answer for it
\* differently.
NoGroupHoldsItself == \A g \in DOMAIN groups : g \notin Reach(Children(g))
=============================================================================
