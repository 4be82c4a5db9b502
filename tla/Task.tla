-------------------------------- MODULE Task --------------------------------
(***************************************************************************)
(* The Task class (include/scheduler/task.hpp, src/core/task.cpp): the     *)
(* timing record of one unit of work, one operator per method.  Times are  *)
(* integer ticks; the code's doubles are added, subtracted and compared    *)
(* only, so a tick may stand for any common granule of the inputs.         *)
(***************************************************************************)
EXTENDS Integers

CONSTANT Eps    \* the completion threshold of is_completed (0.001 ms), in ticks

ASSUME EpsAssumption == Eps \in Nat

Never == -1     \* start_time_ and completion_time_ before they are set

TaskState ==
  [arrival : Nat, exec : Nat, remaining : Nat,
   start : Nat \cup {Never}, completion : Nat \cup {Never},
   wait : Nat, preemptions : Nat, inReady : BOOLEAN, readyEnter : Nat]

NewTask(a, x) ==
  [arrival |-> a, exec |-> x, remaining |-> x,
   start |-> Never, completion |-> Never,
   wait |-> 0, preemptions |-> 0, inReady |-> FALSE, readyEnter |-> 0]

Start(r, time) == IF r.start < 0 THEN [r EXCEPT !.start = time] ELSE r

Complete(r, time) == [r EXCEPT !.completion = time]

\* execute() subtracts and clamps at zero.
Execute(r, duration) ==
  [r EXCEPT !.remaining = IF r.remaining < duration THEN 0 ELSE r.remaining - duration]

\* Faulty variant of IsCompleted: the threshold is twice as large.
IsAlmostCompleted(r) == r.remaining <= 2 * Eps

IsCompleted(r) == r.remaining <= Eps

MarkReady(r, time) == [r EXCEPT !.inReady = TRUE, !.readyEnter = time]

\* Faulty variant of MarkDispatched: the operands of the difference swapped.
MarkDispatchedSwapped(r, time) ==
  IF r.inReady
  THEN [r EXCEPT !.wait = @ + (r.readyEnter - time), !.inReady = FALSE]
  ELSE r

MarkDispatched(r, time) ==
  IF r.inReady
  THEN [r EXCEPT !.wait = @ + (IF time > r.readyEnter THEN time - r.readyEnter ELSE 0),
                 !.inReady = FALSE]
  ELSE r

IncrementPreemptions(r) == [r EXCEPT !.preemptions = @ + 1]

\* CPU time the task has been charged for so far.
Used(r) == r.exec - r.remaining

=============================================================================
