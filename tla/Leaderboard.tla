----------------------------- MODULE Leaderboard -----------------------------
(* The pinned leaderboard (app/discord_leaderboard.py).  One message is       *)
(* posted through a webhook, pinned by the bot and edited in place, and only  *)
(* when the hash of its content changes.  A pass reads the standings and the  *)
(* row that remembers the message, then talks to Discord, then writes the     *)
(* row.  The worker runs a pass an interval; an operator's button runs one in *)
(* a web process.                                                             *)
EXTENDS Naturals, FiniteSets

CONSTANTS Standings, Hooks, Messages,
          Runners,      \* who runs passes: the loop, and an operator
          Loop,
          MaxMoves,     \* bounds what players and people do
          TroubleLimit  \* bounds failed calls and lost processes

VARIABLES
    standings,  \* what build_leaderboard would render now
    hook,       \* the webhook the kind is routed to
    row,        \* discord_pinned_message
    posted,     \* Discord's messages: their content and pin
    pass,       \* what each runner's pass has read, and does next
    moves, troubles,
    unsure      \* passes overlapped, or what a call did was never recorded

vars == <<standings, hook, row, posted, pass, moves, troubles, unsure>>

None == [at |-> "none"]
Never == [gone |-> "never posted"]
Deleted == [gone |-> "deleted"]
Live(m) == posted[m] \notin {Never, Deleted}
InFlight == {a \in Runners : pass[a] # None}

Init ==
    /\ standings \in Standings /\ hook \in Hooks
    /\ row = None
    /\ posted = [m \in Messages |-> Never]
    /\ pass = [a \in Runners |-> None]
    /\ moves = 0 /\ troubles = 0 /\ unsure = FALSE

Move == moves < MaxMoves /\ moves' = moves + 1
Trouble == troubles < TroubleLimit /\ troubles' = troubles + 1
Go(a, next) == pass' = [pass EXCEPT ![a] = next]

(* What goes on around the passes.                                            *)
ChangeStandings ==
    /\ Move /\ standings' \in Standings \ {standings}
    /\ UNCHANGED <<hook, row, posted, pass, troubles, unsure>>
Reroute ==
    /\ Move /\ hook' \in Hooks \ {hook}
    /\ UNCHANGED <<standings, row, posted, pass, troubles, unsure>>
DeleteMessage(m) ==
    /\ Move /\ Live(m)
    /\ posted' = [posted EXCEPT ![m] = Deleted]
    /\ UNCHANGED <<standings, hook, row, pass, troubles, unsure>>
UnpinByHand(m) ==
    /\ Move /\ Live(m) /\ posted[m].pinned
    /\ posted' = [posted EXCEPT ![m].pinned = FALSE]
    /\ UNCHANGED <<standings, hook, row, pass, troubles, unsure>>

(* A pass.                                                                    *)

\* What the row says of the message: nothing to edit when its hash is the
\* hash of the content that was read.
Unchanged(stored, content) == stored.hash = content

\* Where a pass goes from what it has read.
Decide(a) ==
    LET read == [content |-> standings, hook |-> hook, stored |-> row, message |-> row] IN
    IF row = None THEN [at |-> "posting", read |-> read]
    ELSE IF row.hook # hook THEN [at |-> "unpinning", read |-> read]
    ELSE IF ~Unchanged(row, standings) THEN [at |-> "editing", read |-> read]
    ELSE IF a # Loop THEN [at |-> "repinning", read |-> read]
    ELSE None

StartPass(a) ==
    /\ pass[a] = None /\ Decide(a) # None
    /\ IF a = Loop THEN UNCHANGED moves ELSE Move
    /\ Go(a, Decide(a))
    /\ unsure' = (unsure \/ InFlight # {})
    /\ UNCHANGED <<standings, hook, row, posted, troubles>>

At(a, place) == pass[a] # None /\ pass[a].at = place
On(a, place) == Go(a, [pass[a] EXCEPT !.at = place])

\* The message of the webhook that was moved away from loses its pin.
Unpin(a) ==
    /\ At(a, "unpinning")
    /\ LET m == pass[a].read.stored.message IN
        posted' = IF Live(m) THEN [posted EXCEPT ![m].pinned = FALSE] ELSE posted
    /\ On(a, "posting")
    /\ UNCHANGED <<standings, hook, row, moves, troubles, unsure>>

\* An edit of a message that is gone ends the pass.
EditOrGiveUp(a) ==
    /\ At(a, "editing")
    /\ LET m == pass[a].read.stored.message IN
        IF Live(m)
        THEN /\ posted' = [posted EXCEPT ![m].shows = pass[a].read.content]
             /\ On(a, "hashing")
        ELSE UNCHANGED posted /\ Go(a, None)
    /\ UNCHANGED <<standings, hook, row, moves, troubles, unsure>>

\* The stored message is edited; one a person has deleted is posted anew.
Edit(a) ==
    /\ At(a, "editing")
    /\ LET m == pass[a].read.stored.message IN
        IF Live(m)
        THEN /\ posted' = [posted EXCEPT ![m].shows = pass[a].read.content]
             /\ On(a, "hashing")
        ELSE UNCHANGED posted /\ On(a, "posting")
    /\ UNCHANGED <<standings, hook, row, moves, troubles, unsure>>

\* UPDATE ... WHERE kind: the row there is by now.
SaveHash(a) ==
    /\ At(a, "hashing")
    /\ row' = IF row = None THEN row ELSE [row EXCEPT !.hash = pass[a].read.content]
    /\ On(a, "repinning")
    /\ UNCHANGED <<standings, hook, posted, moves, troubles, unsure>>

\* A call to pin that fails, or that Discord refuses, is no reason to end the pass
\* (pin_message).
Pin(m, pinned) ==
    /\ pinned => Live(m)
    /\ IF Live(m) /\ ~pinned THEN Trouble ELSE UNCHANGED troubles
    /\ posted' = IF pinned THEN [posted EXCEPT ![m].pinned = TRUE] ELSE posted

Repin(a) ==
    /\ At(a, "repinning")
    /\ \E pinned \in BOOLEAN :
        /\ Pin(pass[a].read.stored.message, pinned)
        /\ Go(a, [at |-> "flagging", read |-> pass[a].read, pinned |-> pinned])
    /\ UNCHANGED <<standings, hook, row, moves, unsure>>

SaveFlag(a) ==
    /\ At(a, "flagging")
    /\ row' = IF row = None THEN row ELSE [row EXCEPT !.pinned = pass[a].pinned]
    /\ Go(a, None)
    /\ UNCHANGED <<standings, hook, posted, moves, troubles, unsure>>

Post(a) ==
    /\ At(a, "posting")
    /\ \E m \in Messages :
        /\ posted[m] = Never /\ \A n \in Messages : n < m => posted[n] # Never
        /\ posted' = [posted EXCEPT ![m] = [shows |-> pass[a].read.content, pinned |-> FALSE]]
        /\ Go(a, [at |-> "pinning", read |-> pass[a].read, message |-> m])
    /\ UNCHANGED <<standings, hook, row, moves, troubles, unsure>>

\* The message is kept, pinned or not.
PinNew(a) ==
    /\ At(a, "pinning")
    /\ \E pinned \in BOOLEAN :
        /\ Pin(pass[a].message, pinned)
        /\ Go(a, [at |-> "saving", read |-> pass[a].read, message |-> pass[a].message,
                  pinned |-> pinned])
    /\ UNCHANGED <<standings, hook, row, moves, unsure>>

SaveNew(a) ==
    /\ At(a, "saving")
    /\ row' = [hook |-> pass[a].read.hook, message |-> pass[a].message,
               hash |-> pass[a].read.content, pinned |-> pass[a].pinned]
    /\ Go(a, None)
    /\ UNCHANGED <<standings, hook, posted, moves, troubles, unsure>>

(* A call that fails ends the pass, and so does a process that dies.  What an *)
(* earlier call of the pass has done in Discord is then on no record.         *)
Unrecorded(a) == pass[a].at \in {"hashing", "pinning", "saving"}
PassEnds(a) ==
    /\ Trouble /\ pass[a] # None
    /\ unsure' = (unsure \/ Unrecorded(a))
    /\ Go(a, None)
    /\ UNCHANGED <<standings, hook, row, posted, moves>>

\* The edit reached Discord and its answer did not come back.
AnswerLost(a) ==
    /\ Trouble /\ At(a, "editing") /\ Live(pass[a].read.stored.message)
    /\ posted' = [posted EXCEPT ![pass[a].read.stored.message].shows = pass[a].read.content]
    /\ unsure' = TRUE
    /\ Go(a, None)
    /\ UNCHANGED <<standings, hook, row, moves>>

Step(a) ==
    \/ Unpin(a) \/ Edit(a) \/ SaveHash(a) \/ Repin(a) \/ SaveFlag(a)
    \/ Post(a) \/ PinNew(a) \/ SaveNew(a)

Next ==
    \/ ChangeStandings \/ Reroute
    \/ \E m \in Messages : DeleteMessage(m) \/ UnpinByHand(m)
    \/ \E a \in Runners : StartPass(a) \/ Step(a) \/ PassEnds(a) \/ AnswerLost(a)

\* The loop runs a pass an interval for ever, and a pass that runs goes on.
Fairness == (\A a \in Runners : WF_vars(Step(a))) /\ WF_vars(StartPass(Loop))

Spec == Init /\ [][Next]_vars /\ Fairness

(* What the module promises.                                                  *)

Shown == row # None /\ Live(row.message) /\ posted[row.message].shows = standings

\* The board catches up: once the standings rest, the message on record shows
\* them, posted, edited or moved as it had to be, unless it was deleted after it
\* did or some call's effect went unrecorded (run_leaderboard_pass, its row).
BoardCatchesUp ==
    <>[](Shown \/ unsure
        \/ (row # None /\ posted[row.message] = Deleted /\ row.hash = standings))

=============================================================================
