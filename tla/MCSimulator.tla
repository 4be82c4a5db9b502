----------------------------- MODULE MCSimulator -----------------------------
(***************************************************************************)
(* The single-queue simulator on small instances.                          *)
(***************************************************************************)
EXTENDS Simulator, FiniteSetsExt, TLC

CONSTANTS t1, t2, t3

MCTasks == {t1, t2, t3}

\* The time by which a work-conserving simulation is over.
Horizon ==
  Max(Arrivals) + MapThenSumSet(LAMBDA t : task[t].exec, Tasks)

\* Given enough time, run() completes every task: no task waits for ever for a
\* core, no event is lost and the heap drains.
AllTasksComplete ==
  (phase = "running" /\ Horizon <= stopTime) ~> (phase = "stopped" /\ completed = Tasks)

=============================================================================
