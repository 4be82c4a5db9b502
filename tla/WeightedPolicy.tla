---------------------------- MODULE WeightedPolicy ----------------------------
(***************************************************************************)
(* What the policies that share the CPU by weight have in common: the      *)
(* weights of the tasks and the time they run in                           *)
(* (include/scheduler/task.hpp).  Virtual times are integers: divisions    *)
(* round down, and the instances choose parameters for which they are      *)
(* exact.                                                                  *)
(***************************************************************************)
EXTENDS PolicySimulator

CONSTANTS
  Nice0Load,   \* NICE_0_LOAD
  Weights      \* the weights a workload may contain

ASSUME WeightsAssumption ==
  Nice0Load \in Nat \ {0} /\ Weights \subseteq Nat \ {0}

\* Time d on tasks of weight w, in virtual time.
Virtual(d, w) == (d * Nice0Load) \div w

Present == queue \cup Busy

=============================================================================
