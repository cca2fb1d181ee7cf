---------------------------- MODULE MCTerritory ----------------------------
(* Two small boards for Territory, and a behaviour plays one of them: two   *)
(* teams contesting a cell with DEFER pings, and one player spamming a cell *)
(* with three repeaters, two of them the same one at two hash widths.       *)
EXTENDS Territory, TLC

CONSTANTS r1, r2, r3,
          Spammers, Sole,   \* the second board's player and team
          SpamEnds          \* and its last tick

VARIABLE plays

OnePrefix == {<<r1, r2>>}
Clocks == 0..Horizon
SpamClocks == 0..SpamEnds

Contest == INSTANCE Territory WITH Repeaters <- {}, Longer <- {}

Spam == INSTANCE Territory WITH
          Players <- Spammers, Teams <- Sole, Points <- 2, MaxPoints <- 3, Decay <- 0,
          Releases <- FALSE, ClientClocks <- SpamClocks, Horizon <- SpamEnds

MCInit ==
  \/ plays = "contest" /\ Contest!Init
  \/ plays = "spam" /\ Spam!Init

MCNext ==
  /\ \/ plays = "contest" /\ Contest!Next
     \/ plays = "spam" /\ Spam!Next
  /\ UNCHANGED plays

MCSpec == MCInit /\ [][MCNext]_<<vars, plays>>

Interchangeable == Permutations(Players) \cup Permutations(Teams)

\* The contest reads no award, and the credit table reads nothing of the board.
Read ==
  <<plays, credit, now,
    IF plays = "contest" THEN <<score, painter, lastScore, tile, capture, log>> ELSE awards>>
============================================================================
