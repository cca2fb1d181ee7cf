----------------------------- MODULE MCMcQueue -----------------------------
(* TLC instances of McQueue.                                                 *)
EXTENDS McQueue

\* One worker, as deployed.  Two failed attempts dead-letter a sound batch, and
\* each other write may fail once.
EveryFault == [s \in Steps |-> IF s = "process" THEN 2 ELSE 1]
=============================================================================
