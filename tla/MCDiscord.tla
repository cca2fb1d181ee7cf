------------------------------ MODULE MCDiscord ------------------------------
(* What the bot keeps in step with the game on Discord: the members' team     *)
(* roles and the pinned leaderboard.  Neither touches what the other keeps,   *)
(* so their steps commute: a behaviour follows one of them.                   *)
EXTENDS Roles

CONSTANTS Standings, Hooks, Messages, Runners, MaxMoves, TroubleLimit

VARIABLES follows, standings, hook, row, posted, pass, moves, troubles, unsure

pinVars == <<standings, hook, row, posted, pass, moves, troubles, unsure>>

LB == INSTANCE Leaderboard

\* What the other component starts from does not matter.
AnyBoard ==
    /\ standings = CHOOSE s \in Standings : TRUE
    /\ hook = CHOOSE h \in Hooks : TRUE
NoRoles ==
    /\ team = [p \in Players |-> CHOOSE t \in Teams : TRUE]
    /\ tracked = [t \in Teams |-> Nobody]
    /\ linked = [p \in Players |-> Nobody]

MCInit ==
    /\ Init /\ LB!Init
    /\ \/ follows = "Roles" /\ AnyBoard
       \/ follows = "Leaderboard" /\ NoRoles

MCNext ==
    /\ \/ follows = "Roles" /\ Next /\ UNCHANGED pinVars
       \/ follows = "Leaderboard" /\ LB!Next /\ UNCHANGED vars
    /\ UNCHANGED follows

\* The fairness of the component that is followed.
MCFairness ==
    /\ \A a \in Actors :
        WF_vars(follows = "Roles" /\ Sync(a)) /\ WF_vars(follows = "Roles" /\ Visit(a))
    /\ \A w \in Web : WF_vars(follows = "Roles" /\ Ensure(w))
    /\ WF_vars(follows = "Roles" /\ StartPass(Loop))
    /\ \A a \in Runners : WF_pinVars(follows = "Leaderboard" /\ LB!Step(a))
    /\ WF_pinVars(follows = "Leaderboard" /\ LB!StartPass(Loop))

MCSpec == MCInit /\ [][MCNext]_<<follows, vars, pinVars>> /\ MCFairness

\* The property of Leaderboard: the pinned board catches up with the standings.
BoardCatchesUp == follows = "Leaderboard" => LB!BoardCatchesUp

=============================================================================
