------------------------------- MODULE MCEEVDF -------------------------------
(***************************************************************************)
(* EEVDF on small instances.                                               *)
(***************************************************************************)
EXTENDS EEVDF

MCTasks == 1 .. 3

\* Every slice the instances can compute lies below this bound.
MCSlices == 0 .. 4 * BaseSlice

=============================================================================
