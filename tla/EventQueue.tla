----------------------------- MODULE EventQueue -----------------------------
(***************************************************************************)
(* The event heap (include/scheduler/event.hpp, src/core/event.cpp).  The  *)
(* heap orders events by time alone, so among several earliest events      *)
(* get_next may return any.  cancel_task has an empty body: nothing here   *)
(* corresponds to it.                                                      *)
(*                                                                         *)
(* The field n is not in the code.  It is the task's preemption count when *)
(* the event was scheduled, which tells the dispatches of one task apart:  *)
(* it makes the heap a set, and lets a property say that an event belongs  *)
(* to an earlier dispatch.  No guard of the simulators reads it.           *)
(***************************************************************************)
EXTENDS Integers

Event(Tasks, Cores) ==
  [type : {"ARRIVAL", "TIME_SLICE"}, time : Nat, task : Tasks, core : Cores, n : Nat]

ArrivalEvent(t, time) ==
  [type |-> "ARRIVAL", time |-> time, task |-> t, core |-> 0, n |-> 0]

SliceEvent(t, time, c, n) ==
  [type |-> "TIME_SLICE", time |-> time, task |-> t, core |-> c, n |-> n]

\* What get_next may return.
Earliest(events) == {e \in events : \A f \in events : e.time <= f.time}

=============================================================================
