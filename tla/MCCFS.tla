-------------------------------- MODULE MCCFS --------------------------------
(***************************************************************************)
(* CFS on small instances.                                                 *)
(***************************************************************************)
EXTENDS CFS

MCTasks == 1 .. 3

\* Every slice the instances can compute lies below this bound.
MCSlices == 0 .. SchedLatency

=============================================================================
