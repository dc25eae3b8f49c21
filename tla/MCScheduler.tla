---------------------------- MODULE MCScheduler ----------------------------
(* Model values for Scheduler: monitors of one user.                       *)
EXTENDS Scheduler

CONSTANTS m1, m2, u1

OneOwner == [m \in Monitors |-> u1]
============================================================================
