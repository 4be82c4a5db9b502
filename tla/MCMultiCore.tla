----------------------------- MODULE MCMultiCore -----------------------------
(***************************************************************************)
(* The multi-queue simulator on small instances.                           *)
(***************************************************************************)
EXTENDS MultiCoreSimulator, FiniteSetsExt, TLC

CONSTANTS t1, t2, t3, t4, t5

MCTasks == {t1, t2, t3, t4, t5}

TaskSymmetry == Permutations(MCTasks)

\* The time by which even a single core would be done.
Horizon ==
  Max(Arrivals) + MapThenSumSet(LAMBDA t : task[t].exec, Tasks)

\* Given enough time, run() completes every task, with either balancer and
\* with or without stealing: a task never waits for ever in the queue of one
\* core while the others are idle.
AllTasksComplete ==
  (phase = "running" /\ Horizon <= stopTime) ~> (phase = "stopped" /\ completed = Tasks)

=============================================================================
