------------------------------ MODULE MCStride ------------------------------
(***************************************************************************)
(* Stride on small instances.                                              *)
(***************************************************************************)
EXTENDS Stride

MCTasks == 1 .. 3
TwoTasks == 1 .. 2

=============================================================================
