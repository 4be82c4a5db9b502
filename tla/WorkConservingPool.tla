------------------------- MODULE WorkConservingPool -------------------------
(***************************************************************************)
(* A service pool in which no core idles while a task is ready: what cores *)
(* that share one ready queue promise beyond ServicePool.                  *)
(***************************************************************************)
EXTENDS ServicePool

Conserving == (\E c \in Cores : on[c] = NoTask) => ready = {}

ConservingSpec == PoolInit /\ [][PoolNext /\ Conserving']_poolVars

=============================================================================
