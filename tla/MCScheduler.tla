---------------------------- MODULE MCScheduler ----------------------------
(* Instances of Scheduler for TLC: two tasks and one or two nodes.         *)
EXTENDS Scheduler, TLC

\* Both tasks use the same engine.
SharedEngine == [t \in Tasks |-> CHOOSE e \in Engines : TRUE]
=============================================================================
