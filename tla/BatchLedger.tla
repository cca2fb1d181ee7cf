---------------------------- MODULE BatchLedger ----------------------------
(* What the durable ingest queue promises, with no queue in it: a batch the  *)
(* service accepted is owed its scoring until it is paid, and is paid once.  *)
(* McQueue implements this module.                                           *)
EXTENDS Naturals

CONSTANT Payloads

VARIABLES owed,   \* the accepted batches whose points are not counted yet
          paid    \* how many times the points of each batch were counted

vars == <<owed, paid>>

Init == owed = {} /\ paid = [p \in Payloads |-> 0]

Accept(p) == /\ paid[p] = 0
             /\ owed' = owed \cup {p}
             /\ UNCHANGED paid

Pay(p) == /\ p \in owed
          /\ paid[p] = 0
          /\ owed' = owed \ {p}
          /\ paid' = [paid EXCEPT ![p] = 1]

Next == \E p \in Payloads : Accept(p) \/ Pay(p)

Spec == Init /\ [][Next]_vars
=============================================================================
