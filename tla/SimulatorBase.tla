---------------------------- MODULE SimulatorBase ----------------------------
(***************************************************************************)
(* What the two simulators (src/core/simulator.cpp and                     *)
(* src/core/multi_core_simulator.cpp) have in common word for word: their  *)
(* parameters and the length of a dispatch.                                *)
(***************************************************************************)
EXTENDS Task, EventQueue, FiniteSets

CONSTANTS
  Tasks,         \* the tasks of the workload
  NoTask,        \* nullptr
  NumCores,      \* num_cores_
  DefaultSlice,  \* default_time_slice_
  Slices,        \* the time slices schedule() may return; 0 asks for the default
  Arrivals,      \* arrival times a workload may contain
  Executions,    \* execution times a workload may contain
  StopTimes      \* arguments of run()

ASSUME CoresAssumption == NumCores \in Nat \ {0}
ASSUME NoTaskAssumption == NoTask \notin Tasks
ASSUME SliceAssumption == DefaultSlice \in Nat \ {0} /\ Slices \subseteq Nat
ASSUME WorkloadAssumption ==
  /\ Arrivals \subseteq Nat
  /\ Executions \subseteq Nat \ {0}
  /\ StopTimes \subseteq Nat

Cores == 0 .. NumCores - 1

SliceLength(s) == IF s > 0 THEN s ELSE DefaultSlice

\* Faulty variant of SliceEnd: the bound is the whole execution time.
SliceEndIgnoringProgress(r, s, time) ==
  time + (IF r.exec < SliceLength(s) THEN r.exec ELSE SliceLength(s))

\* When the slice of length s of record r, dispatched at time, ends.
SliceEnd(r, s, time) ==
  time + (IF r.remaining < SliceLength(s) THEN r.remaining ELSE SliceLength(s))

=============================================================================
