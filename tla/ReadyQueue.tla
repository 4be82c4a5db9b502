------------------------------ MODULE ReadyQueue ------------------------------
(***************************************************************************)
(* The containers of SingleQueueScheduler and MultiQueueScheduler, where a *)
(* policy depends on their order.                                          *)
(***************************************************************************)
EXTENDS Integers, SequencesExt

\* erase(remove_if(...)) with the id of t.
Without(s, t) ==
  FlattenSeq([i \in DOMAIN s |-> IF s[i] = t THEN << >> ELSE <<s[i]>>])

=============================================================================
