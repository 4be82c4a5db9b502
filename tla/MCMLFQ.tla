------------------------------- MODULE MCMLFQ -------------------------------
(***************************************************************************)
(* MLFQ on small instances.                                                *)
(***************************************************************************)
EXTENDS MLFQ

CONSTANTS t1, t2, t3, t4

MCTasks == {t1, t2, t3, t4}
TaskSymmetry == Permutations(Tasks)

\* The default queues of MLFQScheduler::Params.
MCQuantum == [l \in Levels |-> <<2, 4, 8>>[l + 1]]
MCAllotment == [l \in Levels |-> <<4, 8, 0>>[l + 1]]

=============================================================================
