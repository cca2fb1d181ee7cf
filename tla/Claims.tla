------------------------------- MODULE Claims -------------------------------
(* Proving that a radio is one's own: the confirmation windows of             *)
(* app/checkin_api.py, their scans in app/checkin.py and the watchers of      *)
(* Discord's /claimnode.  A MeshCore window keeps when each radio of the      *)
(* typed name was last heard, and one that is heard again is proven; a        *)
(* Meshtastic window issues a code, and a radio that sends it is proven.      *)
(*                                                                            *)
(* A scan is awaited: what a route read before it may be gone when it writes. *)
(* Left out: what a player is shown (the candidates, and the cached scan a    *)
(* throttled status answers from), the cap on a search's answer, rate limits, *)
(* who is signed in.                                                          *)
EXTENDS Naturals, FiniteSets

CONSTANTS
    Players, McRadios, MtRadios, Names, Codes, Connectors,
    Procs,        \* web processes, each with its watchers
    Tasks,        \* ids of watchers
    NameOf(_),    \* what a MeshCore radio advertises under
    Window, Throttle,   \* _CONFIRM_WINDOW_SECONDS, _CONFIRM_SCAN_THROTTLE_SECONDS
    Claimants,    \* bound: the players who claim, the others only add radios
    MaxCalls, MaxTime,  \* bounds: routes in flight, the clock
    Nil

\* Nil is nobody, no time and no row.
ClaimSets ==
    /\ Window \in Nat /\ Claimants \subseteq Players
    /\ Nil \notin Nat \cup Codes \cup Tasks \cup Players
    /\ Nil \notin [is : {"live", "cancelled", "done"}, proc : Procs, player : Players, until : Nat]

VARIABLES
    time,
    heard,    \* a connector's directory: when it last heard a radio, 0 for never
    sent,     \* the radios that sent a code
    issued,   \* whose a code was
    mc, mt,   \* mc_node_confirmation and mt_node_confirmation
    bound,    \* player_node
    calls,    \* routes that await a scan, or have its answer
    task,     \* watchers
    watcher,  \* _CLAIMNODE_TASKS of each process
    proven    \* observer: the radios heard for a player since a claim that is under way began

meshVars == <<time, heard, sent>>
taskVars == <<task, watcher>>
claimVars == <<meshVars, issued, mc, mt, bound, calls, taskVars, proven>>

Radios == McRadios \cup MtRadios

(* What the observer counts.                                                  *)

\* A claim is under way from its baseline on, as long as a window is open or
\* an accept that read one has not ended.
Claiming(p) ==
    \/ mc[p] # Nil \/ mt[p] # Nil
    \/ \E c \in calls : c.player = p /\ \/ c.does = "accept"
                                        \/ c.does = "start" /\ c.scan # Nil
Observe(more) ==
    proven' = [p \in Players |-> IF Claiming(p)' THEN proven[p] \cup more[p] ELSE {}]
Nothing == [p \in Players |-> {}]

Init ==
    /\ time = 1
    /\ heard \in [Connectors -> [McRadios -> {0, 1}]]
    /\ sent = [k \in Codes |-> {}] /\ issued = [k \in Codes |-> Nil]
    /\ mc = [p \in Players |-> Nil] /\ mt = [p \in Players |-> Nil]
    /\ bound = [r \in Radios |-> Nil]
    /\ calls = {}
    /\ task = [t \in Tasks |-> Nil] /\ watcher = [w \in Procs |-> [p \in Players |-> Nil]]
    /\ proven = Nothing

(* The mesh.                                                                  *)

Tick ==
    /\ time < MaxTime /\ time' = time + 1
    /\ UNCHANGED <<heard, sent, issued, mc, mt, bound, calls, taskVars, proven>>

\* A radio advertises, in reach of some connectors.
Advert(r, cs) ==
    /\ heard' = [c \in Connectors |-> IF c \in cs THEN [heard[c] EXCEPT ![r] = time] ELSE heard[c]]
    /\ UNCHANGED <<time, sent, issued, mc, mt, bound, calls, taskVars>>
    /\ Observe([p \in Players |-> {r}])

SendCode(r, k) ==
    /\ issued[k] # Nil /\ sent' = [sent EXCEPT ![k] = @ \cup {r}]
    /\ UNCHANGED <<time, heard, issued, mc, mt, bound, calls, taskVars>>
    /\ Observe([p \in Players |-> IF p = issued[k] THEN {r} ELSE {}])

(* Scans.                                                                     *)

\* confirm_scan_all_connectors: the newest of what the connectors that answer
\* have of the radios of a name.
Newest(cs, r) == CHOOSE n \in {heard[c][r] : c \in cs} : \A c \in cs : heard[c][r] <= n
McScan(name, cs) ==
    [r \in Radios |-> IF r \in McRadios /\ NameOf(r) = name /\ \E c \in cs : heard[c][r] > 0
                      THEN Newest(cs, r) ELSE Nil]

\* mt_confirm_scan_all_connectors: who sent the code.
MtScan(k, cs) == [r \in Radios |-> IF cs # {} /\ r \in sent[k] THEN 0 ELSE Nil]

\* _fresh_candidates.
Fresh(scan, baseline) == {r \in McRadios : scan[r] # Nil
                                              /\ (baseline[r] = Nil \/ scan[r] > baseline[r])}

\* The window a route reads: the MeshCore one first.
RowOf(p) == IF mc[p] # Nil THEN mc[p] ELSE mt[p]
Candidates(row, scan) ==
    IF row.code = Nil THEN Fresh(scan, row.baseline) ELSE {r \in MtRadios : scan[r] # Nil}

(* Routes.                                                                    *)

\* _clear_confirm_windows.
Clear(p) == mc' = [mc EXCEPT ![p] = Nil] /\ mt' = [mt EXCEPT ![p] = Nil]

Call(does, w, p, row, radio, from, scan) ==
    [does |-> does, proc |-> w, player |-> p, row |-> row, radio |-> radio, from |-> from,
     scan |-> scan, at |-> IF does = "status" THEN time ELSE 0]
Begins(c) == Cardinality(calls) < MaxCalls /\ calls' = calls \cup {c}

\* The scan of a route ends; any connector may be down.  The baseline of one
\* that was tells nothing, and the observer takes everything for heard.
Scan(c, cs) ==
    /\ c \in calls /\ c.scan = Nil
    /\ calls' = (calls \ {c})
                   \cup {[c EXCEPT !.scan = IF c.row.code = Nil THEN McScan(c.row.name, cs)
                                            ELSE MtScan(c.row.code, cs)]}
    /\ UNCHANGED <<meshVars, issued, mc, mt, bound, taskVars>>
    /\ Observe([p \in Players |-> IF c.does = "start" /\ p = c.player /\ cs # Connectors
                                  THEN Radios ELSE {}])

Row(name, code, baseline, until) ==
    [name |-> name, code |-> code, baseline |-> baseline, until |-> until, scanned |-> 0]

\* start_confirmation, MeshCore: the window's time runs from before the scan.
StartMc(w, p, name, from) ==
    /\ Begins(Call("start", w, p, Row(name, Nil, Nil, time + Window), Nil, from, Nil))
    /\ UNCHANGED <<meshVars, issued, mc, mt, bound, taskVars>>
    /\ Observe(Nothing)

\* _register_claimnode_task, after _cancel_claimnode_watch: cancels the watcher
\* that is registered and registers the new one, with no await in between.
Cancelled(w, p) == LET t == watcher[w][p] IN
    IF t # Nil /\ task[t].is = "live" THEN [task EXCEPT ![t].is = "cancelled"] ELSE task
Watch(w, p, until) ==
    \E t \in Tasks :
        /\ task[t] = Nil
        /\ task' = [Cancelled(w, p) EXCEPT ![t] = [is |-> "live", proc |-> w, player |-> p,
                                                  until |-> until]]
        /\ watcher' = [watcher EXCEPT ![w][p] = t]
CancelWatch(w, p) == task' = Cancelled(w, p) /\ UNCHANGED watcher
AndWatch(from, w, p, until) == IF from = "discord" THEN Watch(w, p, until) ELSE UNCHANGED taskVars

AndCancel(from, w, p) == IF from = "discord" THEN CancelWatch(w, p) ELSE UNCHANGED taskVars

OpenMc(c) ==
    /\ c \in calls /\ c.does = "start" /\ c.scan # Nil
    /\ calls' = calls \ {c}
    /\ mc' = [mc EXCEPT ![c.player] = [c.row EXCEPT !.baseline = c.scan]]
    /\ mt' = [mt EXCEPT ![c.player] = Nil]
    /\ AndWatch(c.from, c.proc, c.player, c.row.until)
    /\ UNCHANGED <<meshVars, issued, bound>>
    /\ Observe(Nothing)

\* Meshtastic: no scan, a code nobody has had (issue_unique_mt_confirm_code).
OpenMt(w, p, k, from) ==
    /\ issued[k] = Nil /\ issued' = [issued EXCEPT ![k] = p]
    /\ mt' = [mt EXCEPT ![p] = Row(Nil, k, Nil, time + Window)]
    /\ mc' = [mc EXCEPT ![p] = Nil]
    /\ AndWatch(from, w, p, time + Window)
    /\ UNCHANGED <<meshVars, bound, calls>>
    /\ Observe(Nothing)

\* confirmation_status deletes a window that has expired, and is answered from
\* the cached scan when the last one is recent (which changes nothing).
Expire(p) ==
    /\ RowOf(p) # Nil /\ time >= RowOf(p).until
    /\ IF mc[p] # Nil THEN mc' = [mc EXCEPT ![p] = Nil] /\ UNCHANGED mt
       ELSE mt' = [mt EXCEPT ![p] = Nil] /\ UNCHANGED mc
    /\ UNCHANGED <<meshVars, issued, bound, calls, taskVars>>
    /\ Observe(Nothing)

Status(w, p, from) ==
    /\ RowOf(p) # Nil /\ time < RowOf(p).until
    /\ time >= RowOf(p).scanned + Throttle
    /\ Begins(Call("status", w, p, RowOf(p), Nil, from, Nil))
    /\ UNCHANGED <<meshVars, issued, mc, mt, bound, taskVars>>
    /\ Observe(Nothing)

\* The window of the protocol that was read notes the scan, whichever window
\* it is by now.
Noted(table, c) ==
    IF table[c.player] = Nil THEN table ELSE [table EXCEPT ![c.player].scanned = c.at]
StatusScanned(c) ==
    /\ c \in calls /\ c.does = "status" /\ c.scan # Nil
    /\ calls' = calls \ {c}
    /\ IF c.row.code = Nil THEN mc' = Noted(mc, c) /\ UNCHANGED mt
       ELSE mt' = Noted(mt, c) /\ UNCHANGED mc
    /\ UNCHANGED <<meshVars, issued, bound, taskVars>>
    /\ Observe(Nothing)

\* accept_confirmation: an expired window is cleared; an open one is read, and
\* the mesh scanned again whatever the player was shown.
AcceptTooLate(w, p, from) ==
    /\ RowOf(p) # Nil /\ time >= RowOf(p).until
    /\ Clear(p)
    /\ AndCancel(from, w, p)
    /\ UNCHANGED <<meshVars, issued, bound, calls>>
    /\ Observe(Nothing)

\* No window, or a body of the other protocol: no scan, but a click still stops
\* the watcher.
ClickRefused(w, p) ==
    /\ CancelWatch(w, p)
    /\ UNCHANGED <<meshVars, issued, mc, mt, bound, calls, proven>>

Accept(w, p, r, from) ==
    /\ RowOf(p) # Nil /\ time < RowOf(p).until
    /\ r \in (IF RowOf(p).code = Nil THEN McRadios ELSE MtRadios)
    /\ Begins(Call("accept", w, p, RowOf(p), r, from, Nil))
    /\ UNCHANGED <<meshVars, issued, mc, mt, bound, taskVars>>
    /\ Observe(Nothing)

\* The window there is after the scan decides.
RefusedByTheWindowOfNow(c) ==
    ~ /\ RowOf(c.player) # Nil /\ c.radio \in Candidates(RowOf(c.player), c.scan)
      /\ bound[c.radio] = Nil \/ bound[c.radio].player = c.player

\* Somebody else's radio, or no candidate: nothing is written.
Refused(c) ==
    ~ /\ c.radio \in Candidates(c.row, c.scan)
      /\ bound[c.radio] = Nil \/ bound[c.radio].player = c.player
Refuse(c) ==
    /\ c \in calls /\ c.does = "accept" /\ c.scan # Nil
    /\ Refused(c)
    /\ calls' = calls \ {c}
    /\ AndCancel(c.from, c.proc, c.player)
    /\ UNCHANGED <<meshVars, issued, mc, mt, bound>>
    /\ Observe(Nothing)

\* A radio of nobody's is bound; one the player had without a key gets it.
\* Both windows close, whichever was read.
Bind(c) ==
    /\ c \in calls /\ c.does = "accept" /\ c.scan # Nil
    /\ ~Refused(c)
    /\ bound' = IF bound[c.radio] = Nil \/ (c.row.code = Nil /\ ~bound[c.radio].key)
                THEN [bound EXCEPT ![c.radio] = [player |-> c.player, key |-> c.row.code = Nil,
                                                 confirmed |-> TRUE]]
                ELSE bound
    /\ calls' = calls \ {c}
    /\ Clear(c.player)
    /\ AndCancel(c.from, c.proc, c.player)
    /\ UNCHANGED <<meshVars, issued>>
    /\ Observe(Nothing)

\* cancel_confirmation.
Cancel(w, p, from) ==
    /\ Clear(p)
    /\ AndCancel(from, w, p)
    /\ UNCHANGED <<meshVars, issued, bound, calls>>
    /\ Observe(Nothing)

\* nodes_api: a radio added on the player's word, with or without a key (the
\* key of a Meshtastic row is read nowhere), and removed again.
AddNode(p, r, key) ==
    /\ bound[r] = Nil /\ (key => r \in McRadios)
    /\ bound' = [bound EXCEPT ![r] = [player |-> p, key |-> key, confirmed |-> FALSE]]
    /\ UNCHANGED <<meshVars, issued, mc, mt, calls, taskVars, proven>>
RemoveNode(p, r) ==
    /\ bound[r] # Nil /\ bound[r].player = p /\ bound' = [bound EXCEPT ![r] = Nil]
    /\ UNCHANGED <<meshVars, issued, mc, mt, calls, taskVars, proven>>

(* Watchers.                                                                  *)

\* A watcher polls until its time is over, its window is gone or a poll fails.
WatchPolls(t) ==
    /\ task[t] # Nil /\ task[t].is = "live" /\ time < task[t].until
    /\ \A c \in calls : c.from # t
    /\ Status(task[t].proc, task[t].player, t)
WatchEnds(t) ==
    /\ task[t] # Nil /\ task[t].is = "live" /\ \A c \in calls : c.from # t
    /\ task' = [task EXCEPT ![t].is = "done"]
    /\ UNCHANGED <<meshVars, issued, mc, mt, bound, calls, watcher, proven>>

\* A cancelled watcher ends at its await, a poll that is under way with it.
WatchStops(t) ==
    /\ task[t] # Nil /\ task[t].is = "cancelled"
    /\ task' = [task EXCEPT ![t].is = "done"]
    /\ calls' = {c \in calls : c.from # t}
    /\ UNCHANGED <<meshVars, issued, mc, mt, bound, watcher>>
    /\ Observe(Nothing)

\* Whatever entry there is goes.
UnregisteredBlindly(t) == [watcher EXCEPT ![task[t].proc][task[t].player] = Nil]

\* The done-callback: an entry that is another watcher's by now stays.
Unregistered(t) == LET w == task[t].proc  p == task[t].player IN
    IF watcher[w][p] = t THEN [watcher EXCEPT ![w][p] = Nil] ELSE watcher
Cleanup(t) ==
    /\ task[t] # Nil /\ task[t].is = "done"
    /\ watcher' = Unregistered(t)
    /\ task' = [task EXCEPT ![t] = Nil]
    /\ UNCHANGED <<meshVars, issued, mc, mt, bound, calls, proven>>

\* A process restarts (cancel_all_claimnode_watches): its memory is gone.
Restart(w) ==
    /\ calls' = {c \in calls : c.proc # w}
    /\ task' = [t \in Tasks |-> IF task[t] # Nil /\ task[t].proc = w THEN Nil ELSE task[t]]
    /\ watcher' = [watcher EXCEPT ![w] = [p \in Players |-> Nil]]
    /\ UNCHANGED <<meshVars, issued, mc, mt, bound>>
    /\ Observe(Nothing)

Places == {"page", "discord"}

Mesh ==
    \/ Tick
    \/ \E r \in McRadios, cs \in (SUBSET Connectors) \ {{}} : Advert(r, cs)
    \/ \E r \in MtRadios, k \in Codes : SendCode(r, k)
Route(w, p) ==
    \/ \E from \in Places :
        \/ \E n \in Names : StartMc(w, p, n, from)
        \/ \E k \in Codes : OpenMt(w, p, k, from)
        \/ \E r \in Radios : Accept(w, p, r, from)
        \/ Cancel(w, p, from) \/ AcceptTooLate(w, p, from)
    \/ Expire(p) \/ Status(w, p, "page") \/ ClickRefused(w, p)
Answer(c) ==
    \/ \E cs \in SUBSET Connectors : Scan(c, cs)
    \/ OpenMc(c) \/ StatusScanned(c) \/ Refuse(c) \/ Bind(c)
Watcher(t) == WatchPolls(t) \/ WatchEnds(t) \/ WatchStops(t) \/ Cleanup(t)

Next ==
    \/ Mesh
    \/ \E w \in Procs : Restart(w) \/ \E p \in Claimants : Route(w, p)
    \/ \E c \in calls : Answer(c)
    \/ \E t \in Tasks : Watcher(t)
    \/ \E p \in Players, r \in Radios :
        RemoveNode(p, r) \/ \E key \in BOOLEAN : AddNode(p, r, key)

Spec == Init /\ [][Next]_claimVars

\* A radio that is confirmed was heard for its player, advertising or sending
\* the code, since a claim of the player's that was still under way began
\* (with every connector up): whatever was cancelled, replaced or cached while
\* a route awaited its scan.
ClaimsAreProven ==
    [][\A r \in Radios : bound'[r] # Nil /\ bound'[r].confirmed /\ bound'[r] # bound[r]
            => r \in proven[bound'[r].player]]_claimVars

\* One watcher at a time edits a player's message from a process: the one
\* before it was cancelled, however claims, cancellations and ends follow one
\* another.
OneWatcher ==
    \A w \in Procs, p \in Players :
        Cardinality({t \in Tasks : task[t] # Nil /\ task[t].is = "live"
                                     /\ task[t].proc = w /\ task[t].player = p}) <= 1
=============================================================================
