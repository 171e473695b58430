---------------------------- MODULE MCScheduler ----------------------------
(* Instances of Scheduler for TLC. *)
EXTENDS Scheduler

CONSTANTS once, hourly

\* The repeating task comes due at every hour; from the end of the horizon the
\* next run cannot be calculated.
MCNextRun == [t \in Tasks |-> [n \in Times |-> IF n = MaxTime THEN None ELSE n + 1]]
=============================================================================
