--------------------------- MODULE PolicySimulator ---------------------------
(***************************************************************************)
(* The single-queue simulator driving a concrete Scheduler object          *)
(* (include/scheduler/scheduler.hpp).  The object is a record; its methods *)
(* are the constant operators below, which a policy module defines and a   *)
(* configuration plugs in.  Every action is the Simulator's, with the      *)
(* decision and the preempted core the policy computes, and with the calls *)
(* the handler makes on the policy, in the order it makes them.            *)
(***************************************************************************)
EXTENDS Simulator

CONSTANTS
  PolicyInits,      \* the objects the constructor and the workload's weights allow
  Ready(_),         \* the tasks in the ready queue(s) of an object
  Added(_, _, _),   \* add_task(task); the third argument is start_time() < 0
  CpuUsed(_, _, _), \* on_cpu_used(task, cpu_time)
  Decided(_),       \* schedule()
  Removed(_, _),    \* remove_task(task)
  Preempts(_, _, _) \* should_preempt(new_task, current_task)

VARIABLE policy     \* scheduler_

policyVars == <<vars, policy>>

PolicyInit == Init /\ policy \in PolicyInits

Elapsed(e, c) == e.time - lastEvent[c]

AddedTo(p, t) == Added(p, t, task[t].start < 0)

\* The object after the calls handle_arrival makes before it looks at the cores.
AfterArrival(e) == AddedTo(policy, e.task)

\* ... after preempt_core(c).
AfterPreempt(e, c) ==
  AddedTo(CpuUsed(AfterArrival(e), running[c], Elapsed(e, c)), running[c])

\* ... after the on_cpu_used of handle_time_slice.
AfterSlice(e) == CpuUsed(policy, e.task, Elapsed(e, e.core))

\* dispatch_next calls remove_task when it got a task.
Dispatched(p) == IF Ready(p) = {} THEN p ELSE Removed(p, Decided(p).task)

PolicyArrivalToIdleCore(e, c) ==
  /\ ArrivalToIdleCore(e, c, Decided(AfterArrival(e)))
  /\ policy' = Dispatched(AfterArrival(e))

\* Core c is the first whose task should_preempt gives up.
PolicyArrivalPreempts(e, c) ==
  /\ ArrivalPreempts(e, c, Decided(AfterPreempt(e, c)))
  /\ Preempts(AfterArrival(e), e.task, running[c])
  /\ \A b \in 0 .. c - 1 : ~Preempts(AfterArrival(e), e.task, running[b])
  /\ policy' = Dispatched(AfterPreempt(e, c))

PolicyArrivalWaits(e) ==
  /\ ArrivalWaits(e)
  /\ \A c \in Cores : ~Preempts(AfterArrival(e), e.task, running[c])
  /\ policy' = AfterArrival(e)

PolicySliceCompletes(e) ==
  /\ SliceCompletes(e, Decided(AfterSlice(e)))
  /\ policy' = Dispatched(AfterSlice(e))

PolicySliceExpires(e) ==
  /\ SliceExpires(e, Decided(AddedTo(AfterSlice(e), e.task)))
  /\ policy' = Dispatched(AddedTo(AfterSlice(e), e.task))

PolicyNext ==
  \/ \E t \in Tasks : AddTask(t) /\ UNCHANGED policy
  \/ \E stop \in StopTimes : Run(stop) /\ UNCHANGED policy
  \/ \E e \in events, c \in Cores : PolicyArrivalToIdleCore(e, c)
  \/ \E e \in events, c \in Cores : PolicyArrivalPreempts(e, c)
  \/ \E e \in events : PolicyArrivalWaits(e)
  \/ \E e \in events : PolicySliceCompletes(e)
  \/ \E e \in events : PolicySliceExpires(e)
  \/ \E e \in events : SliceIgnored(e) /\ UNCHANGED policy
  \/ \E e \in events : StopAtLimit(e) /\ UNCHANGED policy
  \/ Drain /\ UNCHANGED policy
  \/ Returned /\ UNCHANGED policy

PolicySpec == PolicyInit /\ [][PolicyNext]_policyVars /\ WF_policyVars(PolicyNext)

-----------------------------------------------------------------------------
\* The simulator and the policy each keep an account of who is ready: the
\* simulator in the tasks' in_ready_queue_ flags and running_tasks_, the policy
\* in its container(s).  They agree, and what the policy would schedule next is
\* a decision the simulator's contract allows.  A policy that loses, keeps or
\* duplicates a task on any path (the boost moves tasks between containers,
\* remove_task erases by id) breaks this.
SchedulerContract ==
  /\ Ready(policy) = queue
  /\ Decided(policy) \in Decisions(queue)

=============================================================================
