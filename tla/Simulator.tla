------------------------------ MODULE Simulator ------------------------------
(***************************************************************************)
(* The single-queue discrete-event simulator (src/core/simulator.cpp):     *)
(* one scheduler shared by NumCores cores, an event heap, and the task     *)
(* records.                                                                *)
(*                                                                         *)
(* The scheduler is any object that keeps its contract: schedule() returns *)
(* a task of its ready queue (none only when the queue is empty) with some *)
(* time slice, and should_preempt() may answer anything.  A concrete       *)
(* policy narrows these choices.                                           *)
(*                                                                         *)
(* One action is one branch of one handler, from the pop of the event to   *)
(* the handler's return, its trailing dispatch_next included.              *)
(***************************************************************************)
EXTENDS SimulatorBase

VARIABLES
  phase,            \* "setup" until run() is called, "stopped" once it returned
  stopTime,         \* stop_time_
  now,              \* current_time_
  events,           \* events_
  task,             \* the Task objects
  queue,            \* the scheduler's ready queue
  running,          \* running_tasks_
  lastEvent,        \* last_event_time_
  completed,        \* completed_tasks_
  contextSwitches,  \* context_switches_
  preemptions       \* preemptions_

vars == <<phase, stopTime, now, events, task, queue, running, lastEvent,
          completed, contextSwitches, preemptions>>

Init ==
  /\ phase = "setup"
  /\ stopTime = 0
  /\ now = 0
  /\ events = {}
  /\ task \in [Tasks -> {NewTask(a, x) : a \in Arrivals, x \in Executions}]
  /\ queue = {}
  /\ running = [c \in Cores |-> NoTask]
  /\ lastEvent = [c \in Cores |-> 0]
  /\ completed = {}
  /\ contextSwitches = 0
  /\ preemptions = 0

-----------------------------------------------------------------------------
\* The caller (apps/main.cpp) adds every task, then runs.

Arrival(t) == ArrivalEvent(t, task[t].arrival)

AddTask(t) ==
  /\ phase = "setup"
  /\ Arrival(t) \notin events
  /\ events' = events \cup {Arrival(t)}
  /\ UNCHANGED <<phase, stopTime, now, task, queue, running, lastEvent,
                 completed, contextSwitches, preemptions>>

Run(stop) ==
  /\ phase = "setup"
  /\ \A t \in Tasks : Arrival(t) \in events
  /\ phase' = "running"
  /\ stopTime' = stop
  /\ UNCHANGED <<now, events, task, queue, running, lastEvent,
                 completed, contextSwitches, preemptions>>

-----------------------------------------------------------------------------
\* The loop of run() takes the next event.

Pop(e) ==
  /\ phase = "running"
  /\ e \in Earliest(events)
  /\ e.time <= stopTime
  /\ now' = e.time
  /\ UNCHANGED <<phase, stopTime>>

\* What schedule() may answer on ready queue q.
NoDecision == [task |-> NoTask, slice |-> 0]
Decisions(q) == IF q = {} THEN {NoDecision} ELSE [task : q, slice : Slices]

\* dispatch_next(c), the handler of e having reached task records tk, ready
\* queue q and switch count k; d is the scheduler's decision.
DispatchNext(e, c, tk, q, k, d) ==
  /\ d \in Decisions(q)
  /\ \/ /\ q = {}
        /\ task' = tk
        /\ queue' = {}
        /\ running' = [running EXCEPT ![c] = NoTask]
        /\ events' = events \ {e}
        /\ contextSwitches' = k
        /\ UNCHANGED lastEvent
     \/ /\ q # {}
        /\ task' = [tk EXCEPT ![d.task] = Start(MarkDispatched(@, e.time), e.time)]
        /\ queue' = q \ {d.task}
        /\ running' = [running EXCEPT ![c] = d.task]
        /\ lastEvent' = [lastEvent EXCEPT ![c] = e.time]
        /\ events' = (events \ {e}) \cup
             {SliceEvent(d.task, SliceEnd(tk[d.task], d.slice, e.time), c,
                         tk[d.task].preemptions)}
        /\ contextSwitches' = k + 1

\* Faulty variant of Charged: the elapsed time is not charged.
Uncharged(tk, c, time) == tk

\* The records after the task on core c has been charged for its CPU time.
Charged(tk, c, time) ==
  [tk EXCEPT ![running[c]] = Execute(@, time - lastEvent[c])]

\* Faulty variant of Requeued: mark_ready is forgotten.
RequeuedUnmarked(tk, c, time) == [tk EXCEPT ![running[c]] = IncrementPreemptions(@)]

\* The records after the task on core c goes back to the ready queue.
Requeued(tk, c, time) ==
  [tk EXCEPT ![running[c]] = MarkReady(IncrementPreemptions(@), time)]

-----------------------------------------------------------------------------
\* handle_arrival

\* Faulty variant of Arrived: the time of the previous event is used.
ArrivedEarlier(e) == [task EXCEPT ![e.task] = MarkReady(@, now)]

Arrived(e) == [task EXCEPT ![e.task] = MarkReady(@, e.time)]

Idle(c) == running[c] = NoTask

\* Lines 59-65: some core is idle, and the lowest one dispatches.
ArrivalToIdleCore(e, c, d) ==
  /\ Pop(e)
  /\ e.type = "ARRIVAL"
  /\ Idle(c) /\ \A b \in Cores : Idle(b) => c <= b
  /\ DispatchNext(e, c, Arrived(e), queue \cup {e.task}, contextSwitches, d)
  /\ UNCHANGED <<completed, preemptions>>

\* Faulty variant of ArrivalPreempts: preemptions_ is not incremented.
ArrivalPreemptsUncounted(e, c, d) ==
  /\ Pop(e)
  /\ e.type = "ARRIVAL"
  /\ \A b \in Cores : ~Idle(b)
  /\ DispatchNext(e, c,
                  Requeued(Charged(Arrived(e), c, e.time), c, e.time),
                  queue \cup {e.task, running[c]},
                  contextSwitches + 1, d)
  /\ UNCHANGED <<completed, preemptions>>

\* Lines 67-74: every core is busy and should_preempt first holds for core c.
ArrivalPreempts(e, c, d) ==
  /\ Pop(e)
  /\ e.type = "ARRIVAL"
  /\ \A b \in Cores : ~Idle(b)
  /\ DispatchNext(e, c,
                  Requeued(Charged(Arrived(e), c, e.time), c, e.time),
                  queue \cup {e.task, running[c]},
                  contextSwitches + 1, d)
  /\ preemptions' = preemptions + 1
  /\ UNCHANGED completed

\* Faulty variant of ArrivalWaits: idle cores are not looked for.
ArrivalWaitsAnyway(e) ==
  /\ Pop(e)
  /\ e.type = "ARRIVAL"
  /\ task' = Arrived(e)
  /\ queue' = queue \cup {e.task}
  /\ events' = events \ {e}
  /\ UNCHANGED <<running, lastEvent, completed, contextSwitches, preemptions>>

\* Every core is busy and should_preempt holds for none.
ArrivalWaits(e) ==
  /\ Pop(e)
  /\ e.type = "ARRIVAL"
  /\ \A b \in Cores : ~Idle(b)
  /\ task' = Arrived(e)
  /\ queue' = queue \cup {e.task}
  /\ events' = events \ {e}
  /\ UNCHANGED <<running, lastEvent, completed, contextSwitches, preemptions>>

-----------------------------------------------------------------------------
\* handle_time_slice: the event is taken when its task is on its core.

\* Faulty variant of Hits: the task is looked for on core 0.
HitsFirstCore(e) == e.type = "TIME_SLICE" /\ running[0] = e.task

Hits(e) == e.type = "TIME_SLICE" /\ running[e.core] = e.task

SliceCompletes(e, d) ==
  LET tk == Charged(task, e.core, e.time) IN
  /\ Pop(e)
  /\ Hits(e)
  /\ IsCompleted(tk[e.task])
  /\ DispatchNext(e, e.core, [tk EXCEPT ![e.task] = Complete(@, e.time)],
                  queue, contextSwitches, d)
  /\ completed' = completed \cup {e.task}
  /\ UNCHANGED preemptions

SliceExpires(e, d) ==
  LET tk == Charged(task, e.core, e.time) IN
  /\ Pop(e)
  /\ Hits(e)
  /\ ~IsCompleted(tk[e.task])
  /\ DispatchNext(e, e.core, Requeued(tk, e.core, e.time),
                  queue \cup {e.task}, contextSwitches, d)
  /\ preemptions' = preemptions + 1
  /\ UNCHANGED completed

SliceIgnored(e) ==
  /\ Pop(e)
  /\ e.type = "TIME_SLICE" /\ ~Hits(e)
  /\ events' = events \ {e}
  /\ UNCHANGED <<task, queue, running, lastEvent, completed,
                 contextSwitches, preemptions>>

-----------------------------------------------------------------------------
\* run() returns: the next event lies beyond the stop time (it has been
\* popped and is lost), or the heap is empty.

StopAtLimit(e) ==
  /\ phase = "running"
  /\ e \in Earliest(events)
  /\ e.time > stopTime
  /\ now' = stopTime
  /\ events' = events \ {e}
  /\ phase' = "stopped"
  /\ UNCHANGED <<stopTime, task, queue, running, lastEvent, completed,
                 contextSwitches, preemptions>>

Drain ==
  /\ phase = "running"
  /\ events = {}
  /\ phase' = "stopped"
  /\ UNCHANGED <<stopTime, now, events, task, queue, running, lastEvent,
                 completed, contextSwitches, preemptions>>

\* The process has returned from run() and reports its metrics.
Returned == phase = "stopped" /\ UNCHANGED vars

Next ==
  \/ \E t \in Tasks : AddTask(t)
  \/ \E stop \in StopTimes : Run(stop)
  \/ \E e \in events, c \in Cores :
       \E d \in Decisions(queue \cup {e.task}) : ArrivalToIdleCore(e, c, d)
  \/ \E e \in events, c \in Cores :
       \E d \in Decisions(queue \cup {e.task, running[c]}) : ArrivalPreempts(e, c, d)
  \/ \E e \in events : ArrivalWaits(e)
  \/ \E e \in events : \E d \in Decisions(queue) : SliceCompletes(e, d)
  \/ \E e \in events : \E d \in Decisions(queue \cup {e.task}) : SliceExpires(e, d)
  \/ \E e \in events : SliceIgnored(e)
  \/ \E e \in events : StopAtLimit(e)
  \/ Drain
  \/ Returned

\* run() is a loop that never blocks: some step is taken whenever one can be.
Spec == Init /\ [][Next]_vars /\ WF_vars(Next)

-----------------------------------------------------------------------------
\* Properties

Busy == {running[c] : c \in Cores} \ {NoTask}
Pending == {t \in Tasks : Arrival(t) \in events}

\* The events of the dispatches now in effect.
Live(e) == Hits(e) /\ e.n = task[e.task].preemptions

TypeOK ==
  /\ phase \in {"setup", "running", "stopped"}
  /\ stopTime \in Nat
  /\ now \in Nat
  /\ events \subseteq Event(Tasks, Cores)
  /\ task \in [Tasks -> TaskState]
  /\ queue \subseteq Tasks
  /\ running \in [Cores -> Tasks \cup {NoTask}]
  /\ lastEvent \in [Cores -> Nat]
  /\ completed \subseteq Tasks
  /\ contextSwitches \in Nat
  /\ preemptions \in Nat

\* The handlers keep a task in exactly one place: not arrived, in the ready
\* queue, on one core, or completed.  running_tasks_, the scheduler's queue
\* and the task's own in_ready_queue_ flag are updated separately on every
\* path of simulator.cpp; none of them loses a task or holds it twice.
OnePlace ==
  /\ \A b, c \in Cores : b # c /\ running[b] = running[c] => Idle(b)
  /\ queue \cap Busy = {}
  /\ completed \cap (queue \cup Busy) = {}
  /\ Pending \cap (queue \cup Busy \cup completed) = {}
  /\ phase = "running" => Tasks = Pending \cup queue \cup Busy \cup completed
  /\ queue = {t \in Tasks : task[t].inReady}

\* No core is idle while a task is in the ready queue: dispatch_next runs at
\* the end of every handler that frees a core, and handle_arrival looks for an
\* idle core before anything else.
WorkConserving == (\E c \in Cores : Idle(c)) => queue = {}

\* The time since a task's arrival is its wait_time plus the CPU time it was
\* charged, up to the moment it last entered the queue, was dispatched, or
\* completed.  The reported wait and turnaround times rest on this; it fails
\* if an interval is charged twice, dropped, or clamped by execute().
WaitAccounting ==
  \A t \in Tasks :
    LET r == task[t]
        accounted == r.arrival + r.wait + Used(r)
    IN  /\ t \in queue => accounted = r.readyEnter
        /\ \A c \in Cores : running[c] = t => accounted = lastEvent[c]
        /\ t \in completed => accounted = r.completion /\ IsCompleted(r)

\* While the simulation runs, the dispatch on every busy core has its own
\* TIME_SLICE event in the heap, due neither in the past nor after the task
\* would finish.  Since events are filtered by comparing tasks only, a core
\* whose event was consumed on behalf of an earlier dispatch would hang.
SliceEventPending ==
  phase = "running" =>
    \A c \in Cores : ~Idle(c) =>
      \E e \in events :
        /\ Live(e) /\ e.core = c
        /\ now <= e.time /\ e.time <= lastEvent[c] + task[running[c]].remaining

\* Events of preempted dispatches stay in the heap and move current_time_
\* when they are popped; current_time_ is the total time that the utilization
\* and throughput in metrics.cpp divide by.  They never carry the clock past
\* the last completion by more than the completion threshold.
ClockEndsAtLastCompletion ==
  completed = Tasks /\ Tasks # {} =>
    \E t \in Tasks : now <= task[t].completion + Eps

\* context_switches_ counts each dispatch, and each preemption by an arrival
\* once more; every dispatch ends in a preemption or a completion or is still
\* in effect.
SwitchesAccountedFor ==
  LET dispatches == preemptions + Cardinality(completed) + Cardinality(Busy)
  IN  dispatches <= contextSwitches /\ contextSwitches <= dispatches + preemptions

\* event.cpp:22 says of the events of a preempted task, which cancel_task
\* leaves in the heap, that they "will be filtered when processed": while the
\* event of the dispatch in effect lies still ahead, popping one of an earlier
\* dispatch changes no task and no core.
StaleEventsFiltered ==
  [][\A e \in events \ events' :
       (~Live(e) /\ \E l \in events : Live(l) /\ l.task = e.task /\ e.time < l.time)
         => UNCHANGED <<task, queue, running>>]_vars

\* The CPU time task t has had at the current time.
Served(t) ==
  Used(task[t]) +
    (IF \E c \in Cores : running[c] = t
     THEN now - lastEvent[CHOOSE c \in Cores : running[c] = t] ELSE 0)

\* The simulator is a work-conserving pool: between two events every task on
\* a core is served in full, although the code charges it only when its slice
\* ends or it is preempted.
Pool == INSTANCE WorkConservingPool WITH
  clock <- now,
  work <- [t \in Tasks |-> task[t].exec],
  release <- [t \in Tasks |-> task[t].arrival],
  served <- [t \in Tasks |-> Served(t)],
  ready <- queue,
  on <- running,
  done <- completed

ImplementsPool == Pool!ConservingSpec

=============================================================================
