---------------------------- MODULE MCScheduler ----------------------------
(* Scheduler on three processes and the idle process.                      *)
EXTENDS Scheduler

CONSTANTS t1, t2, t3

MCTasks == {t1, t2, t3}

=============================================================================
