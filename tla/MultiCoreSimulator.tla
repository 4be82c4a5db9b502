-------------------------- MODULE MultiCoreSimulator --------------------------
(***************************************************************************)
(* The multi-queue simulator (src/core/multi_core_simulator.cpp): every    *)
(* core has a scheduler of its own, a load balancer sends an arriving task *)
(* to one of them, and a core whose queue has run dry may steal.           *)
(*                                                                         *)
(* As in Simulator, a scheduler is any object that keeps its contract, and *)
(* one action is one branch of one handler, trailing dispatch_next and     *)
(* try_work_steal included.                                                *)
(***************************************************************************)
EXTENDS SimulatorBase

CONSTANTS
  Balancers,     \* load balancers main() may construct
  StealingModes  \* values of enable_work_stealing_

ASSUME FiniteWorkload == IsFiniteSet(Tasks)
ASSUME ConfigAssumption ==
  /\ Balancers \subseteq {"RoundRobin", "LeastLoaded"}
  /\ StealingModes \subseteq BOOLEAN

VARIABLES
  balancer,         \* which balancer_
  stealing,         \* enable_work_stealing_
  phase,            \* "setup" until run() is called, "stopped" once it returned
  stopTime,         \* stop_time_
  now,              \* current_time_
  events,           \* events_
  task,             \* the Task objects
  queue,            \* queue[c], the ready queue of schedulers_[c]
  nextCore,         \* next_core_ of the round-robin balancer
  running,          \* running_tasks_
  lastEvent,        \* last_event_time_
  completed,        \* completed_tasks_
  contextSwitches,  \* context_switches_
  preemptions,      \* preemptions_
  workSteals        \* work_steals_

config == <<balancer, stealing>>
vars == <<balancer, stealing, phase, stopTime, now, events, task, queue, nextCore,
          running, lastEvent, completed, contextSwitches, preemptions, workSteals>>

Init ==
  /\ balancer \in Balancers
  /\ stealing \in StealingModes
  /\ phase = "setup"
  /\ stopTime = 0
  /\ now = 0
  /\ events = {}
  /\ task \in [Tasks -> {NewTask(a, x) : a \in Arrivals, x \in Executions}]
  /\ queue = [c \in Cores |-> {}]
  /\ nextCore = 0
  /\ running = [c \in Cores |-> NoTask]
  /\ lastEvent = [c \in Cores |-> 0]
  /\ completed = {}
  /\ contextSwitches = 0
  /\ preemptions = 0
  /\ workSteals = 0

-----------------------------------------------------------------------------
\* The caller (apps/main.cpp) adds every task, then runs.

Arrival(t) == ArrivalEvent(t, task[t].arrival)

AddTask(t) ==
  /\ phase = "setup"
  /\ Arrival(t) \notin events
  /\ events' = events \cup {Arrival(t)}
  /\ UNCHANGED <<config, phase, stopTime, now, task, queue, nextCore, running, lastEvent,
                 completed, contextSwitches, preemptions, workSteals>>

Run(stop) ==
  /\ phase = "setup"
  /\ \A t \in Tasks : Arrival(t) \in events
  /\ phase' = "running"
  /\ stopTime' = stop
  /\ UNCHANGED <<config, now, events, task, queue, nextCore, running, lastEvent,
                 completed, contextSwitches, preemptions, workSteals>>

-----------------------------------------------------------------------------
\* The loop of run() takes the next event.

Pop(e) ==
  /\ phase = "running"
  /\ e \in Earliest(events)
  /\ e.time <= stopTime
  /\ now' = e.time
  /\ UNCHANGED <<config, phase, stopTime>>

Idle(c) == running[c] = NoTask

Ready(q, c) == Cardinality(q[c])

\* Faulty variant of Victims: three ready tasks are asked for.
VictimsOfThree(c, q) == {b \in Cores \ {c} : Ready(q, b) > 2}

\* The cores, other than c, with at least two ready tasks, and the first of
\* those with the most.
Victims(c, q) == {b \in Cores \ {c} : Ready(q, b) > 1}

IsBusiest(b, c, q) ==
  /\ b \in Victims(c, q)
  /\ \A a \in Victims(c, q) :
       Ready(q, a) < Ready(q, b) \/ (Ready(q, a) = Ready(q, b) /\ b <= a)

\* Faulty variants of Supplies: a core's last ready task is passed over; the
\* stealing flag is not looked at.
SuppliesButLast(b, c, q) ==
  \/ b = c /\ Ready(q, c) > 1
  \/ q[c] = {} /\ stealing /\ IsBusiest(b, c, q)

SuppliesAnyway(b, c, q) ==
  \/ b = c /\ q[c] # {}
  \/ q[c] = {} /\ IsBusiest(b, c, q)

\* Whether core b's queue supplies the next task of core c.
Supplies(b, c, q) ==
  \/ b = c /\ q[c] # {}
  \/ q[c] = {} /\ stealing /\ IsBusiest(b, c, q)

\* What schedule() may answer on ready queue q.  A thief asks twice, but its
\* own queue then holds the stolen task alone.
Decisions(q) == [task : q, slice : Slices]

\* Faulty variant of Dispatch: the task is removed from the thief's queue only.
DispatchKeepingStolen(e, b, c, tk, q, d) ==
  /\ d \in Decisions(q[b])
  /\ task' = [tk EXCEPT ![d.task] = Start(MarkDispatched(@, e.time), e.time)]
  /\ queue' = [q EXCEPT ![c] = @ \ {d.task}]
  /\ running' = [running EXCEPT ![c] = d.task]
  /\ lastEvent' = [lastEvent EXCEPT ![c] = e.time]
  /\ events' = (events \ {e}) \cup
       {SliceEvent(d.task, SliceEnd(tk[d.task], d.slice, e.time), c,
                   tk[d.task].preemptions)}

\* Task d.task of core b's queue starts on core c.
Dispatch(e, b, c, tk, q, d) ==
  /\ d \in Decisions(q[b])
  /\ task' = [tk EXCEPT ![d.task] = Start(MarkDispatched(@, e.time), e.time)]
  /\ queue' = [q EXCEPT ![b] = @ \ {d.task}]
  /\ running' = [running EXCEPT ![c] = d.task]
  /\ lastEvent' = [lastEvent EXCEPT ![c] = e.time]
  /\ events' = (events \ {e}) \cup
       {SliceEvent(d.task, SliceEnd(tk[d.task], d.slice, e.time), c,
                   tk[d.task].preemptions)}

\* dispatch_next(c), the handler of e having reached task records tk, ready
\* queues q and switch count k.
DispatchNext(e, c, tk, q, k) ==
  \/ \E b \in Cores : \E d \in Decisions(q[b]) :
       /\ Supplies(b, c, q)
       /\ Dispatch(e, b, c, tk, q, d)
       /\ contextSwitches' = k + 1
       /\ workSteals' = IF b = c THEN workSteals ELSE workSteals + 1
  \/ /\ \A b \in Cores : ~Supplies(b, c, q)
     /\ task' = tk
     /\ queue' = q
     /\ running' = [running EXCEPT ![c] = NoTask]
     /\ events' = events \ {e}
     /\ contextSwitches' = k
     /\ UNCHANGED <<lastEvent, workSteals>>

\* Faulty variant of Charged: the elapsed time is not charged.
Uncharged(tk, c, time) == tk

Charged(tk, c, time) ==
  [tk EXCEPT ![running[c]] = Execute(@, time - lastEvent[c])]

Requeued(tk, c, time) ==
  [tk EXCEPT ![running[c]] = MarkReady(IncrementPreemptions(@), time)]

-----------------------------------------------------------------------------
\* handle_arrival

\* assign(): round robin takes the next core, least loaded the first core with
\* the fewest tasks, queued or running.
Load(c) == Ready(queue, c) + (IF Idle(c) THEN 0 ELSE 1)

\* Faulty variant of Assigned: the round-robin counter does not wrap.
AssignedUnwrapped(c) ==
  \/ balancer = "RoundRobin" /\ c = nextCore /\ nextCore' = nextCore + 1
  \/ /\ balancer = "LeastLoaded"
     /\ \A b \in Cores : Load(c) < Load(b) \/ (Load(c) = Load(b) /\ c <= b)
     /\ UNCHANGED nextCore

Assigned(c) ==
  \/ /\ balancer = "RoundRobin"
     /\ c = nextCore
     /\ nextCore' = (nextCore + 1) % NumCores
  \/ /\ balancer = "LeastLoaded"
     /\ \A b \in Cores : Load(c) < Load(b) \/ (Load(c) = Load(b) /\ c <= b)
     /\ UNCHANGED nextCore

\* Faulty variant of Arrived: the time of the previous event is used.
ArrivedEarlier(e) == [task EXCEPT ![e.task] = MarkReady(@, now)]

Arrived(e) == [task EXCEPT ![e.task] = MarkReady(@, e.time)]

Enqueued(c, S) == [queue EXCEPT ![c] = @ \cup S]

ArrivalToIdleCore(e, c) ==
  /\ Pop(e)
  /\ e.type = "ARRIVAL"
  /\ Assigned(c)
  /\ Idle(c)
  /\ DispatchNext(e, c, Arrived(e), Enqueued(c, {e.task}), contextSwitches)
  /\ UNCHANGED <<completed, preemptions>>

ArrivalPreempts(e, c) ==
  /\ Pop(e)
  /\ e.type = "ARRIVAL"
  /\ Assigned(c)
  /\ ~Idle(c)
  /\ DispatchNext(e, c,
                  Requeued(Charged(Arrived(e), c, e.time), c, e.time),
                  Enqueued(c, {e.task, running[c]}),
                  contextSwitches + 1)
  /\ preemptions' = preemptions + 1
  /\ UNCHANGED completed

ArrivalWaits(e, c) ==
  /\ Pop(e)
  /\ e.type = "ARRIVAL"
  /\ Assigned(c)
  /\ ~Idle(c)
  /\ task' = Arrived(e)
  /\ queue' = Enqueued(c, {e.task})
  /\ events' = events \ {e}
  /\ UNCHANGED <<running, lastEvent, completed, contextSwitches, preemptions, workSteals>>

-----------------------------------------------------------------------------
\* handle_time_slice: the event is taken when its task is on its core.

Hits(e) == e.type = "TIME_SLICE" /\ running[e.core] = e.task

SliceCompletes(e) ==
  LET tk == Charged(task, e.core, e.time) IN
  /\ Pop(e)
  /\ Hits(e)
  /\ IsCompleted(tk[e.task])
  /\ DispatchNext(e, e.core, [tk EXCEPT ![e.task] = Complete(@, e.time)],
                  queue, contextSwitches)
  /\ completed' = completed \cup {e.task}
  /\ UNCHANGED <<nextCore, preemptions>>

SliceExpires(e) ==
  LET tk == Charged(task, e.core, e.time) IN
  /\ Pop(e)
  /\ Hits(e)
  /\ ~IsCompleted(tk[e.task])
  /\ DispatchNext(e, e.core, Requeued(tk, e.core, e.time),
                  Enqueued(e.core, {e.task}), contextSwitches)
  /\ preemptions' = preemptions + 1
  /\ UNCHANGED <<nextCore, completed>>

SliceIgnored(e) ==
  /\ Pop(e)
  /\ e.type = "TIME_SLICE" /\ ~Hits(e)
  /\ events' = events \ {e}
  /\ UNCHANGED <<task, queue, nextCore, running, lastEvent, completed,
                 contextSwitches, preemptions, workSteals>>

-----------------------------------------------------------------------------
\* run() returns: the next event lies beyond the stop time (it has been
\* popped and is lost), or the heap is empty.

StopAtLimit(e) ==
  /\ phase = "running"
  /\ e \in Earliest(events)
  /\ e.time > stopTime
  /\ now' = stopTime
  /\ events' = events \ {e}
  /\ phase' = "stopped"
  /\ UNCHANGED <<config, stopTime, task, queue, nextCore, running, lastEvent,
                 completed, contextSwitches, preemptions, workSteals>>

Drain ==
  /\ phase = "running"
  /\ events = {}
  /\ phase' = "stopped"
  /\ UNCHANGED <<config, stopTime, now, events, task, queue, nextCore, running,
                 lastEvent, completed, contextSwitches, preemptions, workSteals>>

\* The process has returned from run() and reports its metrics.
Returned == phase = "stopped" /\ UNCHANGED vars

Next ==
  \/ \E t \in Tasks : AddTask(t)
  \/ \E stop \in StopTimes : Run(stop)
  \/ \E e \in events, c \in Cores : ArrivalToIdleCore(e, c)
  \/ \E e \in events, c \in Cores : ArrivalPreempts(e, c)
  \/ \E e \in events, c \in Cores : ArrivalWaits(e, c)
  \/ \E e \in events : SliceCompletes(e)
  \/ \E e \in events : SliceExpires(e)
  \/ \E e \in events : SliceIgnored(e)
  \/ \E e \in events : StopAtLimit(e)
  \/ Drain
  \/ Returned

\* run() is a loop that never blocks: some step is taken whenever one can be.
Spec == Init /\ [][Next]_vars /\ WF_vars(Next)

-----------------------------------------------------------------------------
\* Properties

Busy == {running[c] : c \in Cores} \ {NoTask}
Queued == UNION {queue[c] : c \in Cores}
Pending == {t \in Tasks : Arrival(t) \in events}

\* The events of the dispatches now in effect.
Live(e) == Hits(e) /\ e.n = task[e.task].preemptions

TypeOK ==
  /\ balancer \in Balancers /\ stealing \in StealingModes
  /\ phase \in {"setup", "running", "stopped"}
  /\ stopTime \in Nat
  /\ now \in Nat
  /\ events \subseteq Event(Tasks, Cores)
  /\ task \in [Tasks -> TaskState]
  /\ queue \in [Cores -> SUBSET Tasks]
  /\ nextCore \in Cores
  /\ running \in [Cores -> Tasks \cup {NoTask}]
  /\ lastEvent \in [Cores -> Nat]
  /\ completed \subseteq Tasks
  /\ contextSwitches \in Nat /\ preemptions \in Nat /\ workSteals \in Nat

\* A task is in exactly one place: not arrived, in one ready queue, on one
\* core, or completed.  A steal moves it between two schedulers and a core in
\* four calls; no path loses it or leaves it in two queues.
OnePlace ==
  /\ \A b, c \in Cores : b # c =>
       /\ running[b] = running[c] => Idle(b)
       /\ queue[b] \cap queue[c] = {}
  /\ Queued \cap Busy = {}
  /\ completed \cap (Queued \cup Busy) = {}
  /\ Pending \cap (Queued \cup Busy \cup completed) = {}
  /\ phase = "running" => Tasks = Pending \cup Queued \cup Busy \cup completed
  /\ Queued = {t \in Tasks : task[t].inReady}

\* An idle core has nothing in its own queue, whatever the balancer: a task is
\* only ever added to the queue of a core that is busy or dispatches at once,
\* so no task waits for a core that no event will wake up.
OwnQueueServed == \A c \in Cores : Idle(c) => queue[c] = {}

\* With the least-loaded balancer and stealing, no core idles while another
\* has two tasks waiting.  A core steals only at the moment it runs dry; what
\* keeps queues from growing behind its back afterwards is that the balancer
\* sends every arrival to an idle core first.
NoIdleBesideLongQueue ==
  stealing /\ balancer = "LeastLoaded" /\ (\E c \in Cores : Idle(c)) =>
    \A b \in Cores : Ready(queue, b) <= 1

\* README.md:11 says of work stealing "Idle cores steal from busiest queue",
\* of either balancer: no core idles while there is a queue to steal from.
IdleCoresSteal ==
  stealing /\ (\E c \in Cores : Idle(c)) => \A b \in Cores : Ready(queue, b) <= 1

\* The time since a task's arrival is its wait_time plus the CPU time it was
\* charged, also for a task that waited in one queue and was stolen.
WaitAccounting ==
  \A t \in Tasks :
    LET r == task[t]
        accounted == r.arrival + r.wait + Used(r)
    IN  /\ t \in Queued => accounted = r.readyEnter
        /\ \A c \in Cores : running[c] = t => accounted = lastEvent[c]
        /\ t \in completed => accounted = r.completion /\ IsCompleted(r)

\* While the simulation runs, the dispatch on every busy core has its own
\* TIME_SLICE event in the heap, due neither in the past nor after the task
\* would finish: a thief leaves no core without the event that frees it.
SliceEventPending ==
  phase = "running" =>
    \A c \in Cores : ~Idle(c) =>
      \E e \in events :
        /\ Live(e) /\ e.core = c
        /\ now <= e.time /\ e.time <= lastEvent[c] + task[running[c]].remaining

\* The tasks of core c.
Home(c) == queue[c] \cup ({running[c]} \ {NoTask})

\* A task changes cores only by a steal that is counted, allowed, made by a
\* core with nothing of its own, and takes from a longest queue without
\* emptying it.
MigrationOnlyBySteal ==
  [][\A b, c \in Cores : b # c =>
       \A t \in Home(b) \cap Home(c)' :
         /\ stealing /\ workSteals' = workSteals + 1
         /\ queue[c] = {} /\ running'[c] = t
         /\ t \in queue[b] /\ queue'[b] # {}
         /\ \A a \in Cores : Ready(queue, a) <= Ready(queue, b)]_vars

\* The CPU time task t has had at the current time.
Served(t) ==
  Used(task[t]) +
    (IF \E c \in Cores : running[c] = t
     THEN now - lastEvent[CHOOSE c \in Cores : running[c] = t] ELSE 0)

\* The cores form a service pool: splitting the ready queue and stealing lose
\* no CPU time and serve no task twice.
Pool == INSTANCE ServicePool WITH
  clock <- now,
  work <- [t \in Tasks |-> task[t].exec],
  release <- [t \in Tasks |-> task[t].arrival],
  served <- [t \in Tasks |-> Served(t)],
  ready <- Queued,
  on <- running,
  done <- completed

ImplementsPool == Pool!PoolSpec

=============================================================================
