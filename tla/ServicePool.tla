----------------------------- MODULE ServicePool -----------------------------
(***************************************************************************)
(* What a scheduler simulator promises, without events, time slices, ready *)
(* queues or counters: a pool of cores that serves tasks as a fluid.       *)
(*                                                                         *)
(* The clock moves from one scheduling point to the next; a task gains     *)
(* exactly the time it spent on a core, never more than its work; it       *)
(* enters the pool at its release time and leaves it only when its work is *)
(* done up to Eps.                                                         *)
(***************************************************************************)
EXTENDS Integers

CONSTANTS Tasks, NoTask, Cores, Eps

VARIABLES
  clock,
  work,     \* work[t], the CPU time task t needs
  release,  \* release[t], when t enters the pool
  served,   \* served[t], the CPU time t has had
  ready,    \* tasks in the pool and on no core
  on,       \* on[c], the task core c serves
  done      \* tasks that left the pool

poolVars == <<clock, work, release, served, ready, on, done>>

Serving == {on[c] : c \in Cores} \ {NoTask}

Exclusive ==
  /\ \A c \in Cores : on[c] # NoTask => on[c] \notin ready \cup done
  /\ \A b, c \in Cores : b # c /\ on[b] = on[c] => on[b] = NoTask
  /\ ready \cap done = {}

PoolInit ==
  /\ clock = 0
  /\ work \in [Tasks -> Nat]
  /\ release \in [Tasks -> Nat]
  /\ served = [t \in Tasks |-> 0]
  /\ ready = {}
  /\ on = [c \in Cores |-> NoTask]
  /\ done = {}

\* Tasks that enter the pool in a step, and tasks that leave it.
Entering == (ready \cup Serving \cup done)' \ (ready \cup Serving \cup done)
Leaving == done' \ done

\* Every task on a core has been served since the last scheduling point.
Serve ==
  /\ clock' \in Nat
  /\ clock' >= clock
  /\ served' = [t \in Tasks |-> IF t \in Serving THEN served[t] + (clock' - clock)
                                                 ELSE served[t]]
  /\ \A t \in Tasks : served'[t] <= work[t]
  /\ UNCHANGED <<work, release>>

\* Cores are reassigned at a scheduling point.
Reassign ==
  /\ (ready \cup Serving \cup done) \subseteq (ready \cup Serving \cup done)'
  /\ done \subseteq done'
  /\ \A t \in Entering : release[t] = clock' /\ t \notin done'
  /\ \A t \in Leaving : t \in Serving /\ served'[t] + Eps >= work[t]
  /\ Exclusive'

PoolNext == Serve /\ Reassign

PoolSpec == PoolInit /\ [][PoolNext]_poolVars

=============================================================================
