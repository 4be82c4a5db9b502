--------------------------- MODULE Simulator_proofs ---------------------------
(***************************************************************************)
(* Proofs about the single-queue simulator, for any number of tasks and    *)
(* cores, with any scheduler and then with a concrete policy.              *)
(*                                                                         *)
(* The inductive invariant is IInv.  Every handler is followed from the    *)
(* pop of its event through the elementary steps of SimulatorBase_proofs   *)
(* to the trailing dispatch_next (HandlerEnds), which gives both that IInv *)
(* is preserved and that the handler is a step of the pool.                *)
(*                                                                         *)
(* The simulator driven by a concrete policy implements the simulator that *)
(* leaves every decision open, whatever the policy's methods compute; what *)
(* is proved of that one holds with each policy.  A policy whose calls     *)
(* keep the contract one by one keeps it in every run.                     *)
(***************************************************************************)
EXTENDS PolicySimulator, SimulatorBase_proofs, FiniteSetTheorems, FiniteSetsExt

OnCores(run) == {run[c] : c \in Cores} \ {NoTask}

\* k switches and p preemptions, when done are completed and run are running.
Counted(run, done, k, p) ==
  LET dispatches == p + Cardinality(done) + Cardinality(OnCores(run))
  IN  dispatches <= k /\ k <= dispatches + p

CountersGood(run, done, k, p) ==
  k \in Nat /\ p \in Nat /\ IsFiniteSet(done) /\ Counted(run, done, k, p)

IInv ==
  /\ Sound(phase, stopTime, task, queue, running, lastEvent, completed, events, now)
  /\ WorkConserving
  /\ CountersGood(running, completed, contextSwitches, preemptions)

\* If a core other than c is idle, at most one task is ready: c will take it.
OneIfOthersIdle(c, run, q) ==
  (\E b \in Cores : b # c /\ run[b] = NoTask) => \A x, y \in q : x = y

\* The step is one of the pool.
Advances ==
  PoolStep(task, queue, running, lastEvent, completed, now,
           task', queue', running', lastEvent', completed', now')

-----------------------------------------------------------------------------
\* Counting.

\* Finitely many tasks are on the cores.
LEMMA OnCoresFinite ==
  ASSUME NEW run
  PROVE  IsFiniteSet(OnCores(run)) /\ Cardinality(OnCores(run)) \in Nat
<1> DEFINE f == [c \in Cores |-> run[c]]
           S == {run[c] : c \in Cores}
<1>1. IsFiniteSet(Cores)
  BY FS_Interval, CoresAssumption DEF Cores
<1>2. f \in Surjection(Cores, S)
  BY DEF Surjection
<1>3. IsFiniteSet(S)
  BY <1>1, <1>2, FS_Surjection
<1>4. OnCores(run) \in SUBSET S
  BY DEF OnCores
<1> HIDE DEF S
<1>5. IsFiniteSet(OnCores(run))
  BY <1>3, <1>4, FS_Subset
<1>6. QED
  BY <1>5, FS_CardinalityType

\* A task that leaves its core for the queue is counted as a preemption.
LEMMA CountedRequeue ==
  ASSUME NEW run \in [Cores -> Tasks \cup {NoTask}], NEW done, NEW k, NEW p,
         CountersGood(run, done, k, p),
         NEW c \in Cores, run[c] # NoTask, \A b \in Cores : b # c => run[b] # run[c],
         NEW nrun, nrun = [run EXCEPT ![c] = NoTask]
  PROVE  CountersGood(nrun, done, k, p + 1)
<1>1. OnCores(nrun) = OnCores(run) \ {run[c]} /\ run[c] \in OnCores(run)
  BY DEF OnCores
<1>2. Cardinality(OnCores(nrun)) = Cardinality(OnCores(run)) - 1
  BY <1>1, OnCoresFinite, FS_RemoveElement
<1>3. Cardinality(done) \in Nat
  BY FS_CardinalityType DEF CountersGood
<1>4. QED
  BY <1>2, <1>3, OnCoresFinite DEF CountersGood, Counted

\* So is one that an arrival preempts, and the switch it is charged for.
LEMMA CountedPreempt ==
  ASSUME NEW run \in [Cores -> Tasks \cup {NoTask}], NEW done, NEW k, NEW p,
         CountersGood(run, done, k, p),
         NEW c \in Cores, run[c] # NoTask, \A b \in Cores : b # c => run[b] # run[c],
         NEW nrun, nrun = [run EXCEPT ![c] = NoTask]
  PROVE  CountersGood(nrun, done, k + 1, p + 1)
<1>1. OnCores(nrun) = OnCores(run) \ {run[c]} /\ run[c] \in OnCores(run)
  BY DEF OnCores
<1>2. Cardinality(OnCores(nrun)) = Cardinality(OnCores(run)) - 1
  BY <1>1, OnCoresFinite, FS_RemoveElement
<1>3. Cardinality(done) \in Nat
  BY FS_CardinalityType DEF CountersGood
<1>4. QED
  BY <1>2, <1>3, OnCoresFinite DEF CountersGood, Counted

\* A task that completes moves from one count to the other.
LEMMA CountedComplete ==
  ASSUME NEW run \in [Cores -> Tasks \cup {NoTask}], NEW done, NEW k, NEW p,
         CountersGood(run, done, k, p),
         NEW c \in Cores, run[c] # NoTask, \A b \in Cores : b # c => run[b] # run[c],
         run[c] \notin done,
         NEW nrun, nrun = [run EXCEPT ![c] = NoTask]
  PROVE  CountersGood(nrun, done \cup {run[c]}, k, p)
<1>1. OnCores(nrun) = OnCores(run) \ {run[c]} /\ run[c] \in OnCores(run)
  BY DEF OnCores
<1>2. Cardinality(OnCores(nrun)) = Cardinality(OnCores(run)) - 1
  BY <1>1, OnCoresFinite, FS_RemoveElement
<1>3. Cardinality(done) \in Nat
  BY FS_CardinalityType DEF CountersGood
<1>4. /\ IsFiniteSet(done \cup {run[c]})
      /\ Cardinality(done \cup {run[c]}) = Cardinality(done) + 1
  BY FS_AddElement DEF CountersGood
<1>5. QED
  BY <1>2, <1>3, <1>4, OnCoresFinite DEF CountersGood, Counted

\* A dispatch is counted as a switch.
LEMMA CountedDispatch ==
  ASSUME NEW run \in [Cores -> Tasks \cup {NoTask}], NEW done, NEW k, NEW p,
         CountersGood(run, done, k, p),
         NEW c \in Cores, run[c] = NoTask,
         NEW t \in Tasks, \A b \in Cores : run[b] # t,
         NEW nrun, nrun = [run EXCEPT ![c] = t]
  PROVE  CountersGood(nrun, done, k + 1, p)
<1>1. OnCores(nrun) = OnCores(run) \cup {t} /\ t \notin OnCores(run)
  BY NoTaskAssumption DEF OnCores
<1>2. Cardinality(OnCores(nrun)) = Cardinality(OnCores(run)) + 1
  BY <1>1, OnCoresFinite, FS_AddElement
<1>3. Cardinality(done) \in Nat
  BY FS_CardinalityType DEF CountersGood
<1>4. QED
  BY <1>2, <1>3, OnCoresFinite DEF CountersGood, Counted

-----------------------------------------------------------------------------
\* dispatch_next, and the end of every handler.

\* dispatch_next with nothing ready leaves the core idle.
LEMMA DispatchNextIdle ==
  ASSUME NEW e, NEW c \in Cores, NEW tk, NEW q, NEW k, NEW d, NEW run,
         DispatchNext(e, c, tk, q, k, d), q = {},
         running \in [Cores -> Tasks \cup {NoTask}],
         run \in [Cores -> Tasks \cup {NoTask}],
         run[c] = NoTask, \A b \in Cores : b # c => run[b] = running[b]
  PROVE  /\ task' = tk /\ queue' = q /\ running' = run /\ lastEvent' = lastEvent
         /\ events' = events \ {e} /\ contextSwitches' = k
<1>1. /\ task' = tk /\ queue' = {} /\ running' = [running EXCEPT ![c] = NoTask]
      /\ lastEvent' = lastEvent /\ events' = events \ {e} /\ contextSwitches' = k
  BY DEF DispatchNext
<1>2. running' = run
  BY <1>1
<1>3. QED
  BY <1>1, <1>2

\* dispatch_next with something ready dispatches one such task.
LEMMA DispatchNextBusy ==
  ASSUME NEW e, NEW c \in Cores, NEW tk, NEW q, NEW k, NEW d, NEW run,
         DispatchNext(e, c, tk, q, k, d), q # {},
         running \in [Cores -> Tasks \cup {NoTask}],
         run \in [Cores -> Tasks \cup {NoTask}],
         run[c] = NoTask, \A b \in Cores : b # c => run[b] = running[b]
  PROVE  /\ d.task \in q /\ d.slice \in Nat
         /\ DispatchStep(tk, q, run, lastEvent, events \ {e}, c, d.task, d.slice, e.time,
                         task', queue', running', lastEvent',
                         SliceEnd(tk[d.task], d.slice, e.time), events')
         /\ running' = [run EXCEPT ![c] = d.task]
         /\ contextSwitches' = k + 1
<1>1. d \in [task : q, slice : Slices]
  BY DEF DispatchNext, Decisions
<1>2. d.task \in q /\ d.slice \in Nat
  BY <1>1, SliceAssumption
<1>3. /\ task' = [tk EXCEPT ![d.task] = Start(MarkDispatched(@, e.time), e.time)]
      /\ queue' = q \ {d.task}
      /\ running' = [running EXCEPT ![c] = d.task]
      /\ lastEvent' = [lastEvent EXCEPT ![c] = e.time]
      /\ events' = (events \ {e}) \cup
             {SliceEvent(d.task, SliceEnd(tk[d.task], d.slice, e.time), c,
                         tk[d.task].preemptions)}
      /\ contextSwitches' = k + 1
  BY DEF DispatchNext
<1>4. running' = [run EXCEPT ![c] = d.task]
  BY <1>3
<1>5. QED
  BY <1>2, <1>3, <1>4 DEF DispatchStep

\* What is known when an event has been popped.
LEMMA PopFacts ==
  ASSUME IInv, NEW e, Pop(e)
  PROVE  /\ Consistent(task, queue, running, lastEvent, completed, events, now)
         /\ Sound("running", stopTime, task, queue, running, lastEvent, completed,
                  events, now)
         /\ phase' = "running" /\ stopTime' = stopTime /\ now' = e.time
         /\ e \in Earliest(events) /\ e.time <= stopTime /\ now <= e.time
         /\ e.task \in Tasks /\ e.core \in Cores
         /\ running \in [Cores -> Tasks \cup {NoTask}]
         /\ task \in [Tasks -> TaskState]
<1>1. phase = "running" /\ e \in Earliest(events) /\ e.time <= stopTime
  BY DEF Pop
<1>2. Sound("running", stopTime, task, queue, running, lastEvent, completed, events, now)
  BY <1>1 DEF IInv
<1>3. Consistent(task, queue, running, lastEvent, completed, events, now)
  BY <1>2 DEF Sound, Consistent
<1>4. Good(task, queue, running, lastEvent, completed, events, now)
  BY <1>3 DEF Consistent
<1>5. e.task \in Tasks /\ e.core \in Cores /\ now <= e.time
  BY <1>1, <1>4, EarliestFacts
<1>6. /\ running \in [Cores -> Tasks \cup {NoTask}]
      /\ task \in [Tasks -> TaskState]
  BY <1>4 DEF Good, TypesGood
<1>7. phase' = "running" /\ stopTime' = stopTime /\ now' = e.time
  BY <1>1 DEF Pop
<1>8. QED
  BY <1>1, <1>2, <1>3, <1>5, <1>6, <1>7

\* A handler that leaves the simulation consistent, no core idle beside a ready
\* task and the counters right preserves the invariant and is a step of the pool.
LEMMA HandlerInv ==
  ASSUME IInv, NEW e, Pop(e),
         Consistent(task', queue', running', lastEvent', completed', events', e.time),
         Handled(task, queue, running, lastEvent, completed,
                 task', queue', running', lastEvent', completed', e.time),
         WorkConserving',
         CountersGood(running', completed', contextSwitches', preemptions')
  PROVE  IInv' /\ Advances
<1>1. /\ Sound("running", stopTime, task, queue, running, lastEvent, completed,
               events, now)
      /\ phase' = "running" /\ stopTime' = stopTime /\ now' = e.time
      /\ e.time <= stopTime /\ now <= e.time
  BY PopFacts
<1>2. Sound("running", stopTime, task', queue', running', lastEvent', completed',
            events', e.time)
  BY <1>1, SoundHandled
<1>3. Sound(phase', stopTime', task', queue', running', lastEvent', completed',
            events', now')
  BY <1>1, <1>2
<1>4. IInv'
  BY <1>3 DEF IInv
<1>5. /\ Good(task, queue, running, lastEvent, completed, events, now)
      /\ Good(task', queue', running', lastEvent', completed', events', e.time)
  BY <1>1 DEF Sound, Consistent
<1>6. PoolStep(task, queue, running, lastEvent, completed, now,
               task', queue', running', lastEvent', completed', e.time)
  BY <1>1, <1>5, ConsistentChargeable, HandlerPoolStep
<1>7. Advances
  BY <1>1, <1>6 DEF Advances
<1>8. QED
  BY <1>4, <1>7

\* The handler of e has freed core c and calls dispatch_next(c).
LEMMA HandlerEnds ==
  ASSUME IInv, NEW e, Pop(e), NEW c \in Cores,
         NEW tk, NEW q, NEW run, NEW k, NEW d,
         Consistent(tk, q, run, lastEvent, completed', events \ {e}, e.time),
         Handled(task, queue, running, lastEvent, completed,
                 tk, q, run, lastEvent, completed', e.time),
         run[c] = NoTask,
         \A b \in Cores : b # c => run[b] = running[b],
         OneIfOthersIdle(c, run, q),
         CountersGood(run, completed', k, preemptions'),
         DispatchNext(e, c, tk, q, k, d)
  PROVE  IInv' /\ Advances
<1>1. /\ run \in [Cores -> Tasks \cup {NoTask}] /\ q \subseteq Tasks
      /\ running \in [Cores -> Tasks \cup {NoTask}]
      /\ PlacesGood(tk, q, run, completed')
  BY PopFacts DEF Consistent, Good, TypesGood
<1>2. CASE q = {}
  <2>1. /\ task' = tk /\ queue' = q /\ running' = run /\ lastEvent' = lastEvent
        /\ events' = events \ {e} /\ contextSwitches' = k
    BY <1>1, <1>2, DispatchNextIdle
  <2>2. WorkConserving'
    BY <1>2, <2>1 DEF WorkConserving
  <2>3. QED
    BY <2>1, <2>2, HandlerInv
<1>3. CASE q # {}
  <2>1. /\ d.task \in q /\ d.slice \in Nat
        /\ DispatchStep(tk, q, run, lastEvent, events \ {e}, c, d.task, d.slice, e.time,
                        task', queue', running', lastEvent',
                        SliceEnd(tk[d.task], d.slice, e.time), events')
        /\ running' = [run EXCEPT ![c] = d.task]
        /\ contextSwitches' = k + 1
    BY <1>1, <1>3, DispatchNextBusy
  <2>2. /\ Consistent(task', queue', running', lastEvent', completed', events', e.time)
        /\ Moves({}, {}, tk, q, run, lastEvent, completed',
                 task', queue', running', lastEvent', completed', e.time)
    <3>1. PICK t \in q : t = d.task
      BY <2>1
    <3>2. PICK s \in Nat : s = d.slice
      BY <2>1
    <3>3. DispatchStep(tk, q, run, lastEvent, events \ {e}, c, t, s, e.time,
                       task', queue', running', lastEvent',
                       SliceEnd(tk[d.task], d.slice, e.time), events')
      BY <2>1, <3>1, <3>2
    <3>4. QED
      BY <3>3, DispatchConsistent
  <2>3. Handled(task, queue, running, lastEvent, completed,
                task', queue', running', lastEvent', completed', e.time)
    BY <2>2, HandledThen
  <2>4. WorkConserving'
    <3>1. queue' = q \ {d.task}
      BY <2>1 DEF DispatchStep
    <3>2. \A b \in Cores : b # c => running'[b] = run[b]
      BY <1>1, <2>1
    <3>3. running'[c] # NoTask
      BY <1>1, <2>1, NoTaskAssumption
    <3>4. QED
      BY <2>1, <3>1, <3>2, <3>3 DEF WorkConserving, Idle, OneIfOthersIdle
  <2>5. CountersGood(running', completed', contextSwitches', preemptions')
    <3>1. d.task \in Tasks /\ \A b \in Cores : run[b] # d.task
      BY <1>1, <2>1 DEF PlacesGood
    <3>2. CountersGood(running', completed', k + 1, preemptions')
      BY <1>1, <2>1, <3>1, CountedDispatch
    <3>3. QED
      BY <2>1, <3>2
  <2>6. QED
    BY <2>2, <2>3, <2>4, <2>5, HandlerInv
<1>4. QED
  BY <1>2, <1>3

-----------------------------------------------------------------------------
\* The handlers.

\* The running task of a core is on no other core.
LEMMA OnOneCore ==
  ASSUME NEW tk, NEW q, NEW run, NEW last, NEW done, NEW evs, NEW time, NEW c \in Cores,
         Interrupted(c, tk, q, run, last, done, evs, time)
  PROVE  /\ run \in [Cores -> Tasks \cup {NoTask}]
         /\ run[c] # NoTask
         /\ \A b \in Cores : b # c => run[b] # run[c]
BY DEF Interrupted, Chargeable, Good, TypesGood, PlacesGood

\* The arriving task is ready, and nothing else has changed.
LEMMA ArrivalFacts ==
  ASSUME IInv, NEW e, Pop(e), e.type = "ARRIVAL"
  PROVE  /\ Consistent(Arrived(e), queue \cup {e.task}, running, lastEvent, completed,
                       events \ {e}, e.time)
         /\ Handled(task, queue, running, lastEvent, completed,
                    Arrived(e), queue \cup {e.task}, running, lastEvent, completed, e.time)
<1> DEFINE tk == Arrived(e)
           q == queue \cup {e.task}
<1>1. /\ Consistent(task, queue, running, lastEvent, completed, events, now)
      /\ e \in Earliest(events)
  BY PopFacts
<1>2. PICK t : t = e.task
  OBVIOUS
<1>3. ArriveStep(task, queue, t, e.time, tk, q)
  BY <1>2 DEF ArriveStep, Arrived
<1> HIDE DEF tk, q
<1>4. /\ Consistent(tk, q, running, lastEvent, completed, events \ {e}, e.time)
      /\ Moves({t}, {}, task, queue, running, lastEvent, completed,
               tk, q, running, lastEvent, completed, e.time)
      /\ NotArrived(t, queue, running, completed)
      /\ DueAt(t, task, e.time)
  BY <1>1, <1>2, <1>3, ArrivalConsistent
<1>5. \A y \in {t} : task[y].arrival = e.time /\ y \notin completed
  BY <1>4 DEF NotArrived, DueAt
<1>6. \A y \in {} : \E c \in Cores : running[c] = y
  OBVIOUS
<1>7. Handled(task, queue, running, lastEvent, completed,
              tk, q, running, lastEvent, completed, e.time)
  BY <1>4, <1>5, <1>6, MovesHandled
<1>8. QED
  BY <1>4, <1>7 DEF tk, q

\* handle_arrival, some core idle.
LEMMA ArrivalToIdleCoreInv ==
  ASSUME IInv, NEW e, NEW c \in Cores, NEW d, ArrivalToIdleCore(e, c, d)
  PROVE  IInv' /\ Advances
<1> DEFINE tk == Arrived(e)
           q == queue \cup {e.task}
<1>1. /\ Pop(e) /\ e.type = "ARRIVAL" /\ running[c] = NoTask
      /\ DispatchNext(e, c, tk, q, contextSwitches, d)
      /\ completed' = completed /\ preemptions' = preemptions
  BY DEF ArrivalToIdleCore, Idle
<1>2. /\ Consistent(tk, q, running, lastEvent, completed', events \ {e}, e.time)
      /\ Handled(task, queue, running, lastEvent, completed,
                 tk, q, running, lastEvent, completed', e.time)
  BY <1>1, ArrivalFacts
<1>3. OneIfOthersIdle(c, running, q)
  BY <1>1 DEF IInv, WorkConserving, Idle, OneIfOthersIdle
<1>4. CountersGood(running, completed', contextSwitches, preemptions')
  BY <1>1 DEF IInv
<1>5. \A b \in Cores : b # c => running[b] = running[b]
  OBVIOUS
<1> HIDE DEF tk, q
<1>6. QED
  BY <1>1, <1>2, <1>3, <1>4, <1>5, HandlerEnds

\* handle_arrival, every core busy and the task on core c preempted.
LEMMA ArrivalPreemptsInv ==
  ASSUME IInv, NEW e, NEW c \in Cores, NEW d, ArrivalPreempts(e, c, d)
  PROVE  IInv' /\ Advances
<1> DEFINE tk0 == Arrived(e)
           q0 == queue \cup {e.task}
           tk == Requeued(Charged(tk0, c, e.time), c, e.time)
           q == queue \cup {e.task, running[c]}
           run == [running EXCEPT ![c] = NoTask]
           evs == events \ {e}
<1>1. /\ Pop(e) /\ e.type = "ARRIVAL" /\ \A b \in Cores : running[b] # NoTask
      /\ DispatchNext(e, c, tk, q, contextSwitches + 1, d)
      /\ completed' = completed /\ preemptions' = preemptions + 1
  BY DEF ArrivalPreempts, Idle
<1>2. /\ Consistent(tk0, q0, running, lastEvent, completed', evs, e.time)
      /\ Handled(task, queue, running, lastEvent, completed,
                 tk0, q0, running, lastEvent, completed', e.time)
  BY <1>1, ArrivalFacts
<1>3. RequeueStep(tk0, q0, running, lastEvent, c, e.time, tk, q, run)
  BY DEF RequeueStep, Requeued, Charged
<1> HIDE DEF tk0, q0, tk, q, evs
<1>4. Interrupted(c, tk0, q0, running, lastEvent, completed', evs, e.time)
  BY <1>1, <1>2, ArrivalInterrupts
<1>5. /\ running \in [Cores -> Tasks \cup {NoTask}]
      /\ running[c] # NoTask
      /\ \A b \in Cores : b # c => running[b] # running[c]
  BY <1>4, OnOneCore
<1>6. /\ \A b \in Cores : b # c => run[b] = running[b]
      /\ OneIfOthersIdle(c, run, q)
  BY <1>1 DEF OneIfOthersIdle
<1>7. CountersGood(run, completed', contextSwitches + 1, preemptions')
  BY <1>1, <1>5, CountedPreempt DEF IInv
<1> HIDE DEF run
<1>8. /\ Consistent(tk, q, run, lastEvent, completed', evs, e.time)
      /\ Moves({}, {}, tk0, q0, running, lastEvent, completed',
               tk, q, run, lastEvent, completed', e.time)
      /\ run[c] = NoTask
  BY <1>3, <1>4, RequeueConsistent
<1>9. Handled(task, queue, running, lastEvent, completed,
              tk, q, run, lastEvent, completed', e.time)
  BY <1>2, <1>8, HandledThen
<1>10. QED
  BY <1>1, <1>6, <1>7, <1>8, <1>9, HandlerEnds DEF evs

\* handle_arrival, every core busy and no preemption.
LEMMA ArrivalWaitsInv ==
  ASSUME IInv, NEW e, ArrivalWaits(e)
  PROVE  IInv' /\ Advances
<1>1. /\ Pop(e) /\ e.type = "ARRIVAL" /\ \A b \in Cores : running[b] # NoTask
      /\ task' = Arrived(e) /\ queue' = queue \cup {e.task} /\ running' = running
      /\ lastEvent' = lastEvent /\ completed' = completed /\ events' = events \ {e}
      /\ contextSwitches' = contextSwitches /\ preemptions' = preemptions
  BY DEF ArrivalWaits, Idle
<1>2. /\ Consistent(task', queue', running', lastEvent', completed', events', e.time)
      /\ Handled(task, queue, running, lastEvent, completed,
                 task', queue', running', lastEvent', completed', e.time)
  BY <1>1, ArrivalFacts
<1>3. WorkConserving'
  BY <1>1 DEF WorkConserving, Idle
<1>4. CountersGood(running', completed', contextSwitches', preemptions')
  BY <1>1 DEF IInv
<1>5. QED
  BY <1>1, <1>2, <1>3, <1>4, HandlerInv

\* A TIME_SLICE that hits interrupts its core, and no task waits if another
\* core is idle.
LEMMA SliceFacts ==
  ASSUME IInv, NEW e, Pop(e), Hits(e)
  PROVE  /\ Interrupted(e.core, task, queue, running, lastEvent, completed,
                        events \ {e}, e.time)
         /\ e.core \in Cores /\ e.task = running[e.core]
         /\ (\E b \in Cores : b # e.core /\ running[b] = NoTask) => queue = {}
<1>1. /\ Consistent(task, queue, running, lastEvent, completed, events, now)
      /\ e \in Earliest(events) /\ e.core \in Cores
  BY PopFacts
<1>2. e.type = "TIME_SLICE" /\ running[e.core] = e.task
  BY DEF Hits
<1>3. QED
  BY <1>1, <1>2, SliceInterrupts DEF IInv, WorkConserving, Idle

\* handle_time_slice, the task done.
LEMMA SliceCompletesInv ==
  ASSUME IInv, NEW e, NEW d, SliceCompletes(e, d)
  PROVE  IInv' /\ Advances
<1> DEFINE c == e.core
           mt == Charged(task, c, e.time)
           tk == [mt EXCEPT ![e.task] = Complete(@, e.time)]
           run == [running EXCEPT ![c] = NoTask]
           evs == events \ {e}
<1>1. /\ Pop(e) /\ Hits(e) /\ IsCompleted(mt[e.task])
      /\ DispatchNext(e, c, tk, queue, contextSwitches, d)
      /\ completed' = completed \cup {e.task} /\ preemptions' = preemptions
  BY DEF SliceCompletes
<1>2. /\ Interrupted(c, task, queue, running, lastEvent, completed, evs, e.time)
      /\ c \in Cores /\ e.task = running[c]
      /\ (\E b \in Cores : b # c /\ running[b] = NoTask) => queue = {}
  BY <1>1, SliceFacts
<1>3. CompleteStep(task, running, lastEvent, completed, c, e.time, tk, run, completed')
  BY <1>1, <1>2 DEF CompleteStep, Charged
<1> HIDE DEF mt, tk, evs, c
<1>4. /\ running \in [Cores -> Tasks \cup {NoTask}]
      /\ running[c] # NoTask
      /\ \A b \in Cores : b # c => running[b] # running[c]
  BY <1>2, OnOneCore
<1>5. /\ \A b \in Cores : b # c => run[b] = running[b]
      /\ OneIfOthersIdle(c, run, queue)
  BY <1>2, <1>4 DEF OneIfOthersIdle
<1>6. run = [running EXCEPT ![c] = NoTask]
  OBVIOUS
<1> HIDE DEF run
<1>7. /\ Consistent(tk, queue, run, lastEvent, completed', evs, e.time)
      /\ Moves({}, {running[c]}, task, queue, running, lastEvent, completed,
               tk, queue, run, lastEvent, completed', e.time)
      /\ run[c] = NoTask
      /\ running[c] \notin completed
  BY <1>2, <1>3, CompleteConsistent
<1>8. Handled(task, queue, running, lastEvent, completed,
              tk, queue, run, lastEvent, completed', e.time)
  <2>1. \A t \in {} : task[t].arrival = e.time /\ t \notin completed'
    OBVIOUS
  <2>2. \A t \in {running[c]} : \E b \in Cores : running[b] = t
    BY <1>2
  <2>3. QED
    BY <1>7, <2>1, <2>2, MovesHandled
<1>9. CountersGood(run, completed', contextSwitches, preemptions')
  <2>1. CountersGood(running, completed, contextSwitches, preemptions)
    BY DEF IInv
  <2>2. CountersGood(run, completed \cup {running[c]}, contextSwitches, preemptions)
    BY <1>2, <1>4, <1>6, <1>7, <2>1, CountedComplete
  <2>3. QED
    BY <1>1, <1>2, <2>2
<1>10. QED
  BY <1>1, <1>2, <1>5, <1>7, <1>8, <1>9, HandlerEnds DEF evs

\* handle_time_slice, the task not done.
LEMMA SliceExpiresInv ==
  ASSUME IInv, NEW e, NEW d, SliceExpires(e, d)
  PROVE  IInv' /\ Advances
<1> DEFINE c == e.core
           tk == Requeued(Charged(task, c, e.time), c, e.time)
           q == queue \cup {e.task}
           run == [running EXCEPT ![c] = NoTask]
           evs == events \ {e}
<1>1. /\ Pop(e) /\ Hits(e)
      /\ DispatchNext(e, c, tk, q, contextSwitches, d)
      /\ completed' = completed /\ preemptions' = preemptions + 1
  BY DEF SliceExpires
<1>2. /\ Interrupted(c, task, queue, running, lastEvent, completed, evs, e.time)
      /\ c \in Cores /\ e.task = running[c]
      /\ (\E b \in Cores : b # c /\ running[b] = NoTask) => queue = {}
  BY <1>1, SliceFacts
<1>3. RequeueStep(task, queue, running, lastEvent, c, e.time, tk, q, run)
  BY <1>2 DEF RequeueStep, Requeued, Charged
<1>4. /\ running \in [Cores -> Tasks \cup {NoTask}]
      /\ running[c] # NoTask
      /\ \A b \in Cores : b # c => running[b] # running[c]
  BY <1>2, OnOneCore
<1> HIDE DEF tk, evs, c
<1>5. /\ \A b \in Cores : b # c => run[b] = running[b]
      /\ OneIfOthersIdle(c, run, q)
  BY <1>2, <1>4 DEF OneIfOthersIdle
<1>6. run = [running EXCEPT ![c] = NoTask]
  OBVIOUS
<1> HIDE DEF run, q
<1>7. /\ Consistent(tk, q, run, lastEvent, completed', evs, e.time)
      /\ Moves({}, {}, task, queue, running, lastEvent, completed,
               tk, q, run, lastEvent, completed', e.time)
      /\ run[c] = NoTask
  BY <1>1, <1>2, <1>3, RequeueConsistent
<1>8. Handled(task, queue, running, lastEvent, completed,
              tk, q, run, lastEvent, completed', e.time)
  BY <1>7, HandledNothing, HandledThen
<1>9. CountersGood(run, completed', contextSwitches, preemptions')
  <2>1. CountersGood(running, completed, contextSwitches, preemptions)
    BY DEF IInv
  <2>2. CountersGood(run, completed, contextSwitches, preemptions + 1)
    BY <1>2, <1>4, <1>6, <2>1, CountedRequeue
  <2>3. QED
    BY <1>1, <2>2
<1>10. QED
  BY <1>1, <1>2, <1>5, <1>7, <1>8, <1>9, HandlerEnds DEF evs, c

\* handle_time_slice, the event belonging to no current dispatch.
LEMMA SliceIgnoredInv ==
  ASSUME IInv, NEW e, SliceIgnored(e)
  PROVE  IInv' /\ Advances
<1>1. /\ Pop(e) /\ e.type = "TIME_SLICE" /\ running[e.core] # e.task
      /\ task' = task /\ queue' = queue /\ running' = running
      /\ lastEvent' = lastEvent /\ completed' = completed /\ events' = events \ {e}
      /\ contextSwitches' = contextSwitches /\ preemptions' = preemptions
  BY DEF SliceIgnored, Hits
<1>2. /\ Consistent(task, queue, running, lastEvent, completed, events, now)
      /\ e \in Earliest(events)
  BY <1>1, PopFacts
<1>3. Consistent(task, queue, running, lastEvent, completed, events \ {e}, e.time)
  BY <1>1, <1>2, SlicePasses
<1>4. Consistent(task', queue', running', lastEvent', completed', events', e.time)
  BY <1>1, <1>3
<1>5. Handled(task, queue, running, lastEvent, completed,
              task', queue', running', lastEvent', completed', e.time)
  BY <1>1, HandledNothing
<1>6. WorkConserving'
  BY <1>1 DEF IInv, WorkConserving, Idle
<1>7. CountersGood(running', completed', contextSwitches', preemptions')
  BY <1>1 DEF IInv
<1>8. QED
  BY <1>1, <1>4, <1>5, <1>6, <1>7, HandlerInv

-----------------------------------------------------------------------------
\* The steps outside the handlers.

\* The constructor establishes the invariant.
LEMMA InitInv == Init => IInv
<1> SUFFICES ASSUME Init
             PROVE  IInv
  OBVIOUS
<1>1. task \in [Tasks -> {NewTask(a, x) : a \in Arrivals, x \in Executions}]
  BY DEF Init
<1>2. Sound("setup", 0, task, {}, [c \in Cores |-> NoTask], [c \in Cores |-> 0],
            {}, {}, 0)
  BY <1>1, SoundInit
<1>3. Sound(phase, stopTime, task, queue, running, lastEvent, completed, events, now)
  BY <1>2 DEF Init
<1>4. OnCores(running) = {}
  BY DEF Init, OnCores
<1>5. CountersGood(running, completed, contextSwitches, preemptions)
  BY <1>4, FS_EmptySet DEF Init, CountersGood, Counted
<1>6. WorkConserving
  BY DEF Init, WorkConserving
<1>7. QED
  BY <1>3, <1>5, <1>6 DEF IInv

\* Before run() starts the pool, and when the heap runs empty, it stands still.
Stutters ==
  /\ task' = task /\ queue' = queue /\ running' = running /\ lastEvent' = lastEvent
  /\ completed' = completed /\ now' = now

\* What the two remaining conjuncts need of a step that moves no task.
LEMMA QuietFacts ==
  ASSUME IInv, queue' = queue, running' = running, completed' = completed,
         contextSwitches' = contextSwitches, preemptions' = preemptions
  PROVE  WorkConserving' /\ CountersGood(running', completed', contextSwitches', preemptions')
BY DEF IInv, WorkConserving, Idle

\* add_task before run.
LEMMA AddTaskInv ==
  ASSUME IInv, NEW t \in Tasks, AddTask(t)
  PROVE  IInv' /\ Stutters
<1>1. /\ phase = "setup" /\ phase' = phase /\ stopTime' = stopTime
      /\ events' = events \cup {ArrivalEvent(t, task[t].arrival)}
      /\ contextSwitches' = contextSwitches /\ preemptions' = preemptions
  BY DEF AddTask, Arrival
<1>2. Stutters
  BY DEF AddTask, Stutters
<1>3. Sound("setup", stopTime, task, queue, running, lastEvent, completed,
            events \cup {ArrivalEvent(t, task[t].arrival)}, now)
  BY <1>1, SoundAdd DEF IInv
<1>4. Sound(phase', stopTime', task', queue', running', lastEvent', completed',
            events', now')
  BY <1>1, <1>2, <1>3 DEF Stutters
<1>5. QED
  BY <1>1, <1>2, <1>4, QuietFacts DEF IInv, Stutters

\* run is called.
LEMMA RunInv ==
  ASSUME IInv, NEW stop \in StopTimes, Run(stop)
  PROVE  IInv' /\ Stutters
<1>1. /\ phase = "setup" /\ phase' = "running" /\ stopTime' = stop /\ stop \in Nat
      /\ \A t \in Tasks : ArrivalEvent(t, task[t].arrival) \in events
      /\ events' = events
      /\ contextSwitches' = contextSwitches /\ preemptions' = preemptions
  BY WorkloadAssumption DEF Run, Arrival
<1>2. Stutters
  BY DEF Run, Stutters
<1>3. Sound("running", stop, task, queue, running, lastEvent, completed, events, now)
  BY <1>1, SoundRun DEF IInv
<1>4. Sound(phase', stopTime', task', queue', running', lastEvent', completed',
            events', now')
  BY <1>1, <1>2, <1>3 DEF Stutters
<1>5. QED
  BY <1>1, <1>2, <1>4, QuietFacts DEF IInv, Stutters

\* run returns at the stop time.
LEMMA StopAtLimitInv ==
  ASSUME IInv, NEW e, StopAtLimit(e)
  PROVE  IInv' /\ Advances
<1>1. /\ phase = "running" /\ e \in Earliest(events) /\ e.time > stopTime
      /\ phase' = "stopped" /\ stopTime' = stopTime /\ now' = stopTime
      /\ task' = task /\ queue' = queue /\ running' = running /\ lastEvent' = lastEvent
      /\ completed' = completed /\ events' = events \ {e}
      /\ contextSwitches' = contextSwitches /\ preemptions' = preemptions
  BY DEF StopAtLimit
<1>2. Sound("running", stopTime, task, queue, running, lastEvent, completed, events, now)
  BY <1>1 DEF IInv
<1>3. /\ Sound("stopped", stopTime, task, queue, running, lastEvent, completed,
               events \ {e}, stopTime)
      /\ PoolStep(task, queue, running, lastEvent, completed, now,
                  task, queue, running, lastEvent, completed, stopTime)
  BY <1>1, <1>2, SoundStop
<1>4. Sound(phase', stopTime', task', queue', running', lastEvent', completed',
            events', now')
  BY <1>1, <1>3
<1>5. Advances
  BY <1>1, <1>3 DEF Advances
<1>6. QED
  BY <1>1, <1>4, <1>5, QuietFacts DEF IInv

\* run returns because the heap is empty.
LEMMA DrainInv ==
  ASSUME IInv, Drain
  PROVE  IInv' /\ Stutters
<1>1. /\ phase' = "stopped" /\ stopTime' = stopTime /\ events' = events
      /\ contextSwitches' = contextSwitches /\ preemptions' = preemptions
  BY DEF Drain
<1>2. Stutters
  BY DEF Drain, Stutters
<1>3. Sound("stopped", stopTime, task, queue, running, lastEvent, completed, events, now)
  BY SoundDrain DEF IInv
<1>4. Sound(phase', stopTime', task', queue', running', lastEvent', completed',
            events', now')
  BY <1>1, <1>2, <1>3 DEF Stutters
<1>5. QED
  BY <1>1, <1>2, <1>4, QuietFacts DEF IInv, Stutters

\* Nothing changes.
LEMMA UnchangedInv ==
  ASSUME IInv, UNCHANGED vars
  PROVE  IInv' /\ Stutters
<1>1. /\ phase' = phase /\ stopTime' = stopTime /\ events' = events
      /\ contextSwitches' = contextSwitches /\ preemptions' = preemptions
  BY DEF vars
<1>2. Stutters
  BY DEF vars, Stutters
<1>3. Sound(phase', stopTime', task', queue', running', lastEvent', completed',
            events', now')
  BY <1>1, <1>2 DEF IInv, Stutters
<1>4. QED
  BY <1>1, <1>2, <1>3, QuietFacts DEF IInv, Stutters

\* Every step preserves the invariant, and is one of the pool or moves no task
\* and no time.
LEMMA StepFacts ==
  ASSUME IInv, [Next]_vars
  PROVE  IInv' /\ (Advances \/ Stutters)
<1>1. CASE \E t \in Tasks : AddTask(t)
  BY <1>1, AddTaskInv
<1>2. CASE \E stop \in StopTimes : Run(stop)
  BY <1>2, RunInv
<1>3. CASE \E e \in events, c \in Cores :
             \E d \in Decisions(queue \cup {e.task}) : ArrivalToIdleCore(e, c, d)
  BY <1>3, ArrivalToIdleCoreInv
<1>4. CASE \E e \in events, c \in Cores :
             \E d \in Decisions(queue \cup {e.task, running[c]}) : ArrivalPreempts(e, c, d)
  BY <1>4, ArrivalPreemptsInv
<1>5. CASE \E e \in events : ArrivalWaits(e)
  BY <1>5, ArrivalWaitsInv
<1>6. CASE \E e \in events : \E d \in Decisions(queue) : SliceCompletes(e, d)
  BY <1>6, SliceCompletesInv
<1>7. CASE \E e \in events : \E d \in Decisions(queue \cup {e.task}) : SliceExpires(e, d)
  BY <1>7, SliceExpiresInv
<1>8. CASE \E e \in events : SliceIgnored(e)
  BY <1>8, SliceIgnoredInv
<1>9. CASE \E e \in events : StopAtLimit(e)
  BY <1>9, StopAtLimitInv
<1>10. CASE Drain
  BY <1>10, DrainInv
<1>11. CASE Returned \/ UNCHANGED vars
  BY <1>11, UnchangedInv DEF Returned
<1>12. QED
  BY <1>1, <1>2, <1>3, <1>4, <1>5, <1>6, <1>7, <1>8, <1>9, <1>10, <1>11 DEF Next

-----------------------------------------------------------------------------
\* The theorems.

\* Every step of simulator.cpp preserves the inductive invariant.
THEOREM StepInv == IInv /\ [Next]_vars => IInv'
  BY StepFacts

\* The inductive invariant holds in every reachable state.
THEOREM Invariance == Spec => []IInv
<1>1. Init => IInv
  BY InitInv
<1>2. IInv /\ [Next]_vars => IInv'
  BY StepInv
<1>3. QED
  BY <1>1, <1>2, PTL DEF Spec

\* The types are the first conjuncts of the invariant.
LEMMA IInvTypeOK == IInv => TypeOK
BY DEF IInv, Sound, Good, TypesGood, CountersGood, TypeOK

\* OnePlace follows from PlacesGood, and for tasks yet to arrive from EventsGood.
LEMMA IInvOnePlace == IInv => OnePlace
<1> SUFFICES ASSUME IInv
             PROVE  OnePlace
  OBVIOUS
<1>1. /\ PlacesGood(task, queue, running, completed) /\ queue \subseteq Tasks
      /\ completed \subseteq Tasks /\ running \in [Cores -> Tasks \cup {NoTask}]
  BY DEF IInv, Sound, Good, TypesGood
<1>2. \A b, c \in Cores : b # c /\ running[b] = running[c] => Idle(b)
  BY <1>1 DEF PlacesGood, Idle
<1>3. queue \cap Busy = {} /\ completed \cap (queue \cup Busy) = {}
  BY <1>1 DEF PlacesGood, Busy
<1>4. \A t \in Pending : NotArrived(t, queue, running, completed)
  BY DEF Pending, Arrival, ArrivalEvent, IInv, Sound, Good, EventsGood
<1>5. Pending \cap (queue \cup Busy \cup completed) = {}
  BY <1>4 DEF NotArrived, Busy
<1>6. phase = "running" => Tasks = Pending \cup queue \cup Busy \cup completed
  <2>1. phase = "running" =>
          \A t \in Tasks : NotArrived(t, queue, running, completed) => t \in Pending
    BY DEF IInv, Sound, Waiting, Pending, Arrival
  <2>2. \A t \in Tasks : \A c \in Cores : running[c] = t => t \in Busy
    BY NoTaskAssumption DEF Busy
  <2>3. Pending \subseteq Tasks /\ Busy \subseteq Tasks
    BY <1>1 DEF Pending, Busy
  <2>4. QED
    BY <1>1, <2>1, <2>2, <2>3 DEF NotArrived
<1>7. queue = {t \in Tasks : task[t].inReady}
  BY <1>1 DEF PlacesGood
<1>8. QED
  BY <1>2, <1>3, <1>5, <1>6, <1>7 DEF OnePlace

\* Work conservation is a conjunct of the invariant.
LEMMA IInvWorkConserving == IInv => WorkConserving
BY DEF IInv

\* WaitAccounting is AccountsGood without its bounds.
LEMMA IInvWaitAccounting == IInv => WaitAccounting
<1> SUFFICES ASSUME IInv, NEW t \in Tasks
             PROVE  /\ t \in queue => Accounted(task[t]) = task[t].readyEnter
                    /\ \A c \in Cores : running[c] = t =>
                         Accounted(task[t]) = lastEvent[c]
                    /\ t \in completed =>
                         /\ Accounted(task[t]) = task[t].completion
                         /\ task[t].remaining <= Eps
  BY DEF WaitAccounting, Accounted, Used, IsCompleted
<1>1. QED
  BY DEF IInv, Sound, Good, AccountsGood

\* The event HasSlice promises is live, and EventsGood puts it in the future.
LEMMA IInvSliceEventPending == IInv => SliceEventPending
<1> SUFFICES ASSUME IInv, phase = "running", NEW c \in Cores, running[c] # NoTask
             PROVE  \E e \in events :
                      /\ Live(e) /\ e.core = c
                      /\ now <= e.time
                      /\ e.time <= lastEvent[c] + task[running[c]].remaining
  BY DEF SliceEventPending, Idle
<1>1. PICK e \in events :
        /\ e.type = "TIME_SLICE" /\ e.core = c /\ e.task = running[c]
        /\ e.n = task[running[c]].preemptions
        /\ e.time <= lastEvent[c] + task[running[c]].remaining
  BY DEF IInv, Sound, Slots, HasSlice
<1>2. now <= e.time
  BY DEF IInv, Sound, Good, EventsGood
<1>3. QED
  BY <1>1, <1>2 DEF Live, Hits

\* The bound on the clock is ClockBound.
LEMMA IInvClockEnds == IInv => ClockEndsAtLastCompletion
BY DEF IInv, Sound, ClockBound, ClockEndsAtLastCompletion

\* The counters are a conjunct of the invariant.
LEMMA IInvSwitches == IInv => SwitchesAccountedFor
BY DEF IInv, CountersGood, Counted, OnCores, Busy, SwitchesAccountedFor

\* Every field of the simulator keeps its type: in particular no remaining or
\* wait time becomes negative.
THEOREM TypeCorrect == Spec => []TypeOK
  BY IInvTypeOK, Invariance, PTL

\* The handlers of simulator.cpp never lose a task or hold it in two places.
THEOREM TasksInOnePlace == Spec => []OnePlace
  BY IInvOnePlace, Invariance, PTL

\* No core is idle while a task is ready, whatever the scheduler decides.
THEOREM NoIdleCoreWithWork == Spec => []WorkConserving
  BY IInvWorkConserving, Invariance, PTL

\* The waiting time and the CPU time of a task add up to its time in the
\* system, so the metrics computed from them are those of the schedule run.
THEOREM TimesAddUp == Spec => []WaitAccounting
  BY IInvWaitAccounting, Invariance, PTL

\* A busy core always has the event that will free it.
THEOREM BusyCoreHasEvent == Spec => []SliceEventPending
  BY IInvSliceEventPending, Invariance, PTL

\* Events left in the heap by preempted dispatches do not stretch the total
\* time beyond the last completion.
THEOREM ClockEnds == Spec => []ClockEndsAtLastCompletion
  BY IInvClockEnds, Invariance, PTL

\* context_switches_ is the number of dispatches, a preemption by an arrival
\* counted once more, for any number of cores and tasks.
THEOREM SwitchesCounted == Spec => []SwitchesAccountedFor
  BY IInvSwitches, Invariance, PTL

-----------------------------------------------------------------------------
\* The simulator implements the work-conserving pool.

\* Served is what the shared lemmas call ServedAt.
LEMMA ServedIsServedAt ==
  ASSUME NEW t \in Tasks
  PROVE  Served(t) = ServedAt(t, task, running, lastEvent, now)
BY DEF Served, ServedAt, Used

\* The pool starts empty.
LEMMA InitPool == Init => Pool!PoolInit
<1> SUFFICES ASSUME Init
             PROVE  Pool!PoolInit
  OBVIOUS
<1>1. Sound(phase, stopTime, task, queue, running, lastEvent, completed, events, now)
  BY InitInv DEF IInv
<1>2. Good(task, queue, running, lastEvent, completed, events, now)
  BY <1>1 DEF Sound
<1>3. /\ now = 0 /\ queue = {} /\ completed = {} /\ phase = "setup"
      /\ running = [c \in Cores |-> NoTask]
  BY DEF Init
<1>4. task \in [Tasks -> TaskState]
  BY <1>2 DEF Good, TypesGood
<1>5. ASSUME NEW t \in Tasks
      PROVE  /\ task[t].exec \in Nat /\ task[t].arrival \in Nat
             /\ Served(t) = 0
  <2>1. \A c \in Cores : running[c] # t
    BY <1>3, NoTaskAssumption
  <2>2. Served(t) = task[t].exec - task[t].remaining
    BY <1>4, <2>1, ServedIsServedAt, ServedOffCore
  <2>3. task[t].exec = task[t].remaining
    BY <1>2, <1>3, <2>1 DEF Good, AccountsGood, NotArrived
  <2>4. task[t].exec \in Nat /\ task[t].arrival \in Nat
    BY <1>4 DEF TaskState
  <2>5. QED
    BY <2>2, <2>3, <2>4
<1>6. QED
  BY <1>3, <1>5 DEF Pool!PoolInit

\* The clock moves forward and every task on a core is served meanwhile.
LEMMA AdvancesServe ==
  ASSUME IInv, Advances
  PROVE  Pool!Serve
<1>1. now' \in Nat /\ now' >= now
  <2>1. now' \in Nat /\ now <= now'
    BY DEF Advances, PoolStep
  <2>2. now \in Nat
    BY DEF IInv, Sound, Good, TypesGood
  <2>3. QED
    BY <2>1, <2>2
<1>2. ASSUME NEW t \in Tasks
      PROVE  /\ task'[t].arrival = task[t].arrival /\ task'[t].exec = task[t].exec
             /\ (\E c \in Cores : running[c] = t) =>
                  Served(t)' = Served(t) + (now' - now)
             /\ (\A c \in Cores : running[c] # t) => Served(t)' = Served(t)
             /\ Served(t)' <= task'[t].exec
  <2>1. Served(t)' = ServedAt(t, task', running', lastEvent', now')
    BY DEF Served, ServedAt, Used
  <2>2. Served(t) = ServedAt(t, task, running, lastEvent, now)
    BY ServedIsServedAt
  <2>3. QED
    BY <2>1, <2>2 DEF Advances, PoolStep
<1>3. ASSUME NEW t \in Tasks
      PROVE  t \in Pool!Serving <=> \E c \in Cores : running[c] = t
  BY NoTaskAssumption DEF Pool!Serving
<1>4. [t \in Tasks |-> Served(t)]' =
        [t \in Tasks |-> IF t \in Pool!Serving THEN [y \in Tasks |-> Served(y)][t] + (now' - now)
                                               ELSE [y \in Tasks |-> Served(y)][t]]
  BY <1>2, <1>3
<1>5. \A t \in Tasks : [y \in Tasks |-> Served(y)]'[t] <= [y \in Tasks |-> task[y].exec][t]
  BY <1>2
<1>6. /\ [t \in Tasks |-> task[t].exec]' = [t \in Tasks |-> task[t].exec]
      /\ [t \in Tasks |-> task[t].arrival]' = [t \in Tasks |-> task[t].arrival]
  BY <1>2
<1>7. QED
  BY <1>1, <1>4, <1>5, <1>6 DEF Pool!Serve

\* The cores are reassigned: arrivals enter at their release times, tasks leave
\* when their work is done.
LEMMA AdvancesReassign ==
  ASSUME IInv, IInv', Advances
  PROVE  Pool!Reassign
<1>1. ASSUME NEW t
      PROVE  t \in (queue \cup Pool!Serving \cup completed) <=>
               t \in Tasks /\ ~NotArrived(t, queue, running, completed)
  BY NoTaskAssumption
     DEF Pool!Serving, NotArrived, IInv, Sound, Good, TypesGood
<1>2. ASSUME NEW t
      PROVE  t \in (queue \cup Pool!Serving \cup completed)' <=>
               t \in Tasks /\ ~NotArrived(t, queue', running', completed')
  BY NoTaskAssumption
     DEF Pool!Serving, NotArrived, IInv, Sound, Good, TypesGood
<1>3. completed \subseteq completed' /\ completed' \subseteq Tasks
  BY DEF Advances, PoolStep, IInv, Sound, Good, TypesGood
<1>4. ASSUME NEW t \in Tasks
      PROVE  /\ NotArrived(t, queue', running', completed') =>
                  NotArrived(t, queue, running, completed)
             /\ NotArrived(t, queue, running, completed)
                  /\ ~NotArrived(t, queue', running', completed') =>
                    task[t].arrival = now' /\ t \notin completed'
             /\ t \in completed' /\ t \notin completed =>
                  /\ \E c \in Cores : running[c] = t
                  /\ Served(t)' + Eps >= task'[t].exec
             /\ task'[t].exec = task[t].exec
  <2>1. Served(t)' = ServedAt(t, task', running', lastEvent', now')
    BY DEF Served, ServedAt, Used
  <2>2. QED
    BY <2>1 DEF Advances, PoolStep
<1>5. (queue \cup Pool!Serving \cup completed)
        \subseteq (queue \cup Pool!Serving \cup completed)'
  BY <1>1, <1>2, <1>4
<1>6. \A t \in Pool!Entering :
        [y \in Tasks |-> task[y].arrival][t] = now' /\ t \notin completed'
  <2> SUFFICES ASSUME NEW t \in Pool!Entering
               PROVE  [y \in Tasks |-> task[y].arrival][t] = now' /\ t \notin completed'
    OBVIOUS
  <2>1. /\ t \in (queue \cup Pool!Serving \cup completed)'
        /\ t \notin (queue \cup Pool!Serving \cup completed)
    BY DEF Pool!Entering
  <2>2. QED
    BY <1>1, <1>2, <1>4, <2>1
<1>7. \A t \in Pool!Leaving :
        t \in Pool!Serving /\ [y \in Tasks |-> Served(y)]'[t] + Eps
                                >= [y \in Tasks |-> task[y].exec][t]
  <2> SUFFICES ASSUME NEW t \in Pool!Leaving
               PROVE  t \in Pool!Serving /\ [y \in Tasks |-> Served(y)]'[t] + Eps
                                              >= [y \in Tasks |-> task[y].exec][t]
    OBVIOUS
  <2>1. t \in Tasks /\ t \in completed' /\ t \notin completed
    BY <1>3 DEF Pool!Leaving
  <2>2. t \in Pool!Serving
    BY <1>4, <2>1, NoTaskAssumption DEF Pool!Serving
  <2>3. QED
    BY <1>4, <2>1, <2>2
<1>8. Pool!Exclusive'
  <2>1. PlacesGood(task', queue', running', completed')
    BY DEF IInv, Sound, Good
  <2>2. QED
    BY <2>1 DEF PlacesGood, Pool!Exclusive
<1>9. QED
  BY <1>3, <1>5, <1>6, <1>7, <1>8 DEF Pool!Reassign

\* A step that moves no task and no time leaves the pool alone.
LEMMA StuttersPool == Stutters => UNCHANGED Pool!poolVars
<1> SUFFICES ASSUME Stutters
             PROVE  UNCHANGED Pool!poolVars
  OBVIOUS
<1>1. \A t \in Tasks : Served(t)' = Served(t)
  BY DEF Stutters, Served
<1>2. QED
  BY <1>1 DEF Stutters, Pool!poolVars

\* Every step of the simulator is a step of the pool, or none.
LEMMA StepPool ==
  IInv /\ [Next]_vars => [Pool!PoolNext /\ Pool!Conserving']_(Pool!poolVars)
<1> SUFFICES ASSUME IInv, [Next]_vars
             PROVE  (Pool!PoolNext /\ Pool!Conserving') \/ UNCHANGED Pool!poolVars
  OBVIOUS
<1>1. IInv' /\ (Advances \/ Stutters)
  BY StepFacts
<1>2. CASE Advances
  <2>1. Pool!Serve /\ Pool!Reassign
    BY <1>1, <1>2, AdvancesServe, AdvancesReassign
  <2>2. Pool!Conserving'
    BY <1>1 DEF IInv, WorkConserving, Idle, Pool!Conserving
  <2>3. QED
    BY <2>1, <2>2 DEF Pool!PoolNext
<1>3. CASE Stutters
  BY <1>3, StuttersPool
<1>4. QED
  BY <1>1, <1>2, <1>3

\* simulator.cpp, with its events, slices and deferred charging, implements the
\* work-conserving pool that serves its tasks as a fluid.
THEOREM SimulatorImplementsPool == Spec => ImplementsPool
<1>1. Init => Pool!PoolInit
  BY InitPool
<1>2. IInv /\ [Next]_vars => [Pool!PoolNext /\ Pool!Conserving']_(Pool!poolVars)
  BY StepPool
<1>3. QED
  BY <1>1, <1>2, Invariance, PTL DEF Spec, ImplementsPool, Pool!ConservingSpec

-----------------------------------------------------------------------------
\* The simulator with a policy.

\* What the policy decides is one of the decisions the simulator leaves open,
\* because dispatch_next takes nothing else.
LEMMA DecisionAllowed ==
  ASSUME NEW e, NEW c, NEW tk, NEW q, NEW k, NEW d, DispatchNext(e, c, tk, q, k, d)
  PROVE  d \in Decisions(q)
BY DEF DispatchNext

\* Every step of the simulator with a policy is a step of the simulator.
LEMMA PolicyStep == [PolicyNext]_policyVars => [Next]_vars
<1> SUFFICES ASSUME [PolicyNext]_policyVars
             PROVE  [Next]_vars
  OBVIOUS
<1>1. CASE \E t \in Tasks : AddTask(t) /\ UNCHANGED policy
  BY <1>1 DEF Next
<1>2. CASE \E stop \in StopTimes : Run(stop) /\ UNCHANGED policy
  BY <1>2 DEF Next
<1>3. CASE \E e \in events, c \in Cores : PolicyArrivalToIdleCore(e, c)
  <2>1. PICK e \in events, c \in Cores :
          ArrivalToIdleCore(e, c, Decided(AfterArrival(e)))
    BY <1>3 DEF PolicyArrivalToIdleCore
  <2>2. Decided(AfterArrival(e)) \in Decisions(queue \cup {e.task})
    BY <2>1, DecisionAllowed DEF ArrivalToIdleCore
  <2>3. QED
    BY <2>1, <2>2 DEF Next
<1>4. CASE \E e \in events, c \in Cores : PolicyArrivalPreempts(e, c)
  <2>1. PICK e \in events, c \in Cores :
          ArrivalPreempts(e, c, Decided(AfterPreempt(e, c)))
    BY <1>4 DEF PolicyArrivalPreempts
  <2>2. Decided(AfterPreempt(e, c)) \in Decisions(queue \cup {e.task, running[c]})
    BY <2>1, DecisionAllowed DEF ArrivalPreempts
  <2>3. QED
    BY <2>1, <2>2 DEF Next
<1>5. CASE \E e \in events : PolicyArrivalWaits(e)
  BY <1>5 DEF Next, PolicyArrivalWaits
<1>6. CASE \E e \in events : PolicySliceCompletes(e)
  <2>1. PICK e \in events : SliceCompletes(e, Decided(AfterSlice(e)))
    BY <1>6 DEF PolicySliceCompletes
  <2>2. Decided(AfterSlice(e)) \in Decisions(queue)
    BY <2>1, DecisionAllowed DEF SliceCompletes
  <2>3. QED
    BY <2>1, <2>2 DEF Next
<1>7. CASE \E e \in events : PolicySliceExpires(e)
  <2>1. PICK e \in events :
          SliceExpires(e, Decided(AddedTo(AfterSlice(e), e.task)))
    BY <1>7 DEF PolicySliceExpires
  <2>2. Decided(AddedTo(AfterSlice(e), e.task)) \in Decisions(queue \cup {e.task})
    BY <2>1, DecisionAllowed DEF SliceExpires
  <2>3. QED
    BY <2>1, <2>2 DEF Next
<1>8. CASE \E e \in events : SliceIgnored(e) /\ UNCHANGED policy
  BY <1>8 DEF Next
<1>9. CASE \E e \in events : StopAtLimit(e) /\ UNCHANGED policy
  BY <1>9 DEF Next
<1>10. CASE (Drain \/ Returned) /\ UNCHANGED policy
  BY <1>10 DEF Next
<1>11. CASE UNCHANGED policyVars
  BY <1>11 DEF policyVars
<1>12. QED
  BY <1>1, <1>2, <1>3, <1>4, <1>5, <1>6, <1>7, <1>8, <1>9, <1>10, <1>11 DEF PolicyNext

\* The simulator with a policy implements the simulator that leaves every
\* decision open (its safety part: fairness is a property of run()).
THEOREM PolicyImplementsSimulator == PolicySpec => Init /\ [][Next]_vars
<1>1. PolicyInit => Init
  BY DEF PolicyInit
<1>2. QED
  BY <1>1, PolicyStep, PTL DEF PolicySpec

\* The inductive invariant of the simulator holds with every policy.
THEOREM PolicyInvariance == PolicySpec => []IInv
<1>1. Init /\ [][Next]_vars => []IInv
  <2>1. Init => IInv
    BY InitInv
  <2>2. IInv /\ [Next]_vars => IInv'
    BY StepInv
  <2>3. QED
    BY <2>1, <2>2, PTL
<1>2. QED
  BY <1>1, PolicyImplementsSimulator

\* With every policy, no task is lost or held twice, no core idles beside a
\* ready task, times add up, every busy core has the event that frees it, and
\* the counters count the dispatches.
THEOREM PolicyCorrect ==
  PolicySpec => [](TypeOK /\ OnePlace /\ WorkConserving /\ WaitAccounting
                     /\ SliceEventPending /\ ClockEndsAtLastCompletion
                     /\ SwitchesAccountedFor)
<1>1. IInv => TypeOK /\ OnePlace /\ WorkConserving /\ WaitAccounting
                /\ SliceEventPending /\ ClockEndsAtLastCompletion
                /\ SwitchesAccountedFor
  BY IInvTypeOK, IInvOnePlace, IInvWorkConserving, IInvWaitAccounting,
     IInvSliceEventPending, IInvClockEnds, IInvSwitches
<1>2. QED
  BY <1>1, PolicyInvariance, PTL

\* With every policy, the simulator is a work-conserving pool.
THEOREM PolicyImplementsPool == PolicySpec => ImplementsPool
<1>1. Init => Pool!PoolInit
  BY InitPool
<1>2. IInv /\ [Next]_vars => [Pool!PoolNext /\ Pool!Conserving']_(Pool!poolVars)
  BY StepPool
<1>3. QED
  BY <1>1, <1>2, PolicyImplementsSimulator, PolicyInvariance, PTL
     DEF ImplementsPool, Pool!ConservingSpec

-----------------------------------------------------------------------------
\* The contract of a policy.

\* P is a set of scheduler objects that has those the constructor makes and is
\* closed under the calls the simulator makes; add_task and remove_task put a
\* task into the ready queue and take it out, on_cpu_used leaves the queue
\* alone, and schedule answers within the contract.
Contract(P) ==
  /\ PolicyInits \subseteq P
  /\ \A p \in PolicyInits : Ready(p) = {}
  /\ \A p \in P : Ready(p) \subseteq Tasks /\ Decided(p) \in Decisions(Ready(p))
  /\ \A p \in P : \A t \in Tasks \ Ready(p) : \A new \in BOOLEAN :
       Added(p, t, new) \in P /\ Ready(Added(p, t, new)) = Ready(p) \cup {t}
  /\ \A p \in P : \A t \in Tasks \ Ready(p) : \A d \in Nat :
       CpuUsed(p, t, d) \in P /\ Ready(CpuUsed(p, t, d)) = Ready(p)
  /\ \A p \in P : \A t \in Ready(p) :
       Removed(p, t) \in P /\ Ready(Removed(p, t)) = Ready(p) \ {t}

\* F relates an object to the tasks it treats well.  add_task treats its task
\* well, and no other task worse; no other call treats a ready task worse.
Protects(P, F) ==
  /\ \A p \in P : \A t \in Tasks \ Ready(p) : \A new \in BOOLEAN :
       /\ <<Added(p, t, new), t>> \in F
       /\ \A u \in Tasks \ {t} : <<p, u>> \in F => <<Added(p, t, new), u>> \in F
  /\ \A p \in P : \A t \in Tasks \ Ready(p) : \A d \in Nat :
       \A u \in Ready(p) : <<p, u>> \in F => <<CpuUsed(p, t, d), u>> \in F
  /\ \A p \in P : \A t \in Ready(p) :
       \A u \in Ready(p) : <<p, u>> \in F => <<Removed(p, t), u>> \in F

\* The object's ready queue is the simulator's.
InContract(P) == policy \in P /\ Ready(policy) = queue

\* Object p treats every ready task well.
AllReady(p, F) == \A u \in Ready(p) : <<p, u>> \in F

\* Every task ready or running is treated well.
Protected(F) == \A t \in queue \cup Busy : <<policy, t>> \in F

\* A step of one core leaves every task ready or running treated well.
OneCoreProtects(P, F) ==
  NumCores = 1 /\ Protects(P, F) /\ Protected(F) => Protected(F)'

\* The only core.
LEMMA OnlyCore ==
  ASSUME NumCores = 1, NEW b \in Cores, NEW c \in Cores
  PROVE  b = c
BY DEF Cores

\* add_task, in a handler.
LEMMA AddedFacts ==
  ASSUME NEW P, NEW F, Contract(P), NEW p \in P, NEW t \in Tasks, t \notin Ready(p)
  PROVE  /\ AddedTo(p, t) \in P /\ Ready(AddedTo(p, t)) = Ready(p) \cup {t}
         /\ Protects(P, F) /\ AllReady(p, F) => AllReady(AddedTo(p, t), F)
         /\ Protects(P, F) => \A u \in Tasks \ {t} :
              <<p, u>> \in F => <<AddedTo(p, t), u>> \in F
<1>1. (task[t].start < 0) \in BOOLEAN
  OBVIOUS
<1>2. PICK new \in BOOLEAN : AddedTo(p, t) = Added(p, t, new)
  BY <1>1 DEF AddedTo
<1>3. AddedTo(p, t) \in P /\ Ready(AddedTo(p, t)) = Ready(p) \cup {t}
  BY <1>2 DEF Contract
<1>4. Protects(P, F) => \A u \in Tasks \ {t} :
        <<p, u>> \in F => <<AddedTo(p, t), u>> \in F
  BY <1>2 DEF Protects
<1>5. Protects(P, F) => <<AddedTo(p, t), t>> \in F
  BY <1>2 DEF Protects
<1>6. Ready(p) \subseteq Tasks \ {t}
  BY DEF Contract
<1>7. Protects(P, F) /\ AllReady(p, F) => AllReady(AddedTo(p, t), F)
  BY <1>3, <1>4, <1>5, <1>6 DEF AllReady
<1>8. QED
  BY <1>3, <1>4, <1>7

\* on_cpu_used, in a handler.
LEMMA CpuUsedFacts ==
  ASSUME NEW P, NEW F, Contract(P), NEW p \in P, NEW t \in Tasks, t \notin Ready(p),
         NEW d \in Nat
  PROVE  /\ CpuUsed(p, t, d) \in P /\ Ready(CpuUsed(p, t, d)) = Ready(p)
         /\ Protects(P, F) /\ AllReady(p, F) => AllReady(CpuUsed(p, t, d), F)
<1>1. CpuUsed(p, t, d) \in P /\ Ready(CpuUsed(p, t, d)) = Ready(p)
  BY DEF Contract
<1>2. Protects(P, F) /\ AllReady(p, F) =>
        \A u \in Ready(p) : <<CpuUsed(p, t, d), u>> \in F
  BY DEF Protects, AllReady
<1>3. QED
  BY <1>1, <1>2 DEF AllReady

\* dispatch_next, called when the object is p.
LEMMA DispatchedFacts ==
  ASSUME NEW P, NEW F, Contract(P), NEW p \in P,
         NEW e, NEW c \in Cores, NEW tk, NEW q, NEW k, q = Ready(p),
         DispatchNext(e, c, tk, q, k, Decided(p)), policy' = Dispatched(p),
         running \in [Cores -> Tasks \cup {NoTask}]
  PROVE  /\ InContract(P)'
         /\ NumCores = 1 /\ Protects(P, F) /\ AllReady(p, F) => Protected(F)'
<1>1. Decided(p) \in Decisions(q)
  BY DEF DispatchNext
<1>2. CASE q = {}
  <2>1. queue' = {} /\ running' = [running EXCEPT ![c] = NoTask]
    BY <1>2 DEF DispatchNext
  <2>2. policy' = p
    BY <1>2 DEF Dispatched
  <2>3. NumCores = 1 => \A b \in Cores : running'[b] = NoTask
    BY <2>1, OnlyCore
  <2>4. NumCores = 1 => Busy' = {}
    BY <2>3 DEF Busy
  <2>5. QED
    BY <1>2, <2>1, <2>2, <2>4 DEF InContract, Protected
<1>3. CASE q # {}
  <2> DEFINE t == Decided(p).task
  <2>1. t \in Ready(p)
    BY <1>1, <1>3 DEF Decisions
  <2>2. queue' = Ready(p) \ {t} /\ running' = [running EXCEPT ![c] = t]
    BY <1>3 DEF DispatchNext
  <2>3. policy' = Removed(p, t)
    BY <1>3 DEF Dispatched
  <2> HIDE DEF t
  <2>4. InContract(P)'
    BY <2>1, <2>2, <2>3 DEF Contract, InContract
  <2>5. NumCores = 1 => \A b \in Cores : running'[b] \in {t, NoTask}
    BY <2>2, OnlyCore
  <2>6. NumCores = 1 => Busy' \subseteq {t}
    BY <2>5 DEF Busy
  <2>7. Protects(P, F) /\ AllReady(p, F) => \A u \in Ready(p) : <<policy', u>> \in F
    BY <2>1, <2>3 DEF Protects, AllReady
  <2>8. NumCores = 1 => (queue \cup Busy)' \subseteq Ready(p)
    BY <2>1, <2>2, <2>6
  <2>9. QED
    BY <2>4, <2>7, <2>8 DEF Protected
<1>4. QED
  BY <1>2, <1>3

\* The task of an ARRIVAL is in no queue and on no core.
LEMMA ArrivingTask ==
  ASSUME IInv, NEW e, Pop(e), e.type = "ARRIVAL"
  PROVE  e.task \in Tasks /\ e.task \notin queue /\ \A c \in Cores : running[c] # e.task
<1>1. /\ Consistent(task, queue, running, lastEvent, completed, events, now)
      /\ e \in Earliest(events) /\ e.task \in Tasks
  BY PopFacts
<1>2. e \in events
  BY <1>1 DEF Earliest
<1>3. NotArrived(e.task, queue, running, completed)
  BY <1>1, <1>2 DEF Consistent, Good, EventsGood
<1>4. QED
  BY <1>1, <1>3 DEF NotArrived

\* The task of a busy core is not queued, and was dispatched in the past.
LEMMA RunningTask ==
  ASSUME IInv, NEW e, Pop(e), NEW c \in Cores, running[c] # NoTask
  PROVE  /\ running[c] \in Tasks /\ running[c] \notin queue
         /\ running[c] \in Busy /\ Elapsed(e, c) \in Nat
<1>1. /\ Consistent(task, queue, running, lastEvent, completed, events, now)
      /\ e \in Earliest(events) /\ now <= e.time
      /\ running \in [Cores -> Tasks \cup {NoTask}]
  BY PopFacts
<1>2. Good(task, queue, running, lastEvent, completed, events, now)
  BY <1>1 DEF Consistent
<1>3. e.time \in Nat
  BY <1>1, <1>2, EarliestFacts
<1>4. /\ lastEvent[c] \in Nat /\ now \in Nat
      /\ running[c] \in Tasks /\ running[c] \notin queue
  BY <1>1, <1>2 DEF Good, TypesGood, PlacesGood
<1>5. lastEvent[c] <= now
  BY <1>2, <1>4 DEF Good, AccountsGood
<1>6. Elapsed(e, c) \in Nat
  BY <1>1, <1>3, <1>4, <1>5 DEF Elapsed
<1>7. QED
  BY <1>4, <1>6 DEF Busy

\* The object after the add_task of handle_arrival.
LEMMA ArrivalAdds ==
  ASSUME IInv, NEW P, NEW F, Contract(P), InContract(P),
         NEW e, Pop(e), e.type = "ARRIVAL"
  PROVE  /\ AfterArrival(e) \in P /\ Ready(AfterArrival(e)) = queue \cup {e.task}
         /\ Protects(P, F) /\ Protected(F) => AllReady(AfterArrival(e), F)
<1>1. policy \in P /\ Ready(policy) = queue
  BY DEF InContract
<1>2. e.task \in Tasks /\ e.task \notin Ready(policy)
  BY <1>1, ArrivingTask
<1>3. /\ AddedTo(policy, e.task) \in P
      /\ Ready(AddedTo(policy, e.task)) = Ready(policy) \cup {e.task}
      /\ Protects(P, F) /\ AllReady(policy, F) => AllReady(AddedTo(policy, e.task), F)
  BY <1>1, <1>2, AddedFacts
<1>4. Protected(F) => AllReady(policy, F)
  BY <1>1 DEF Protected, AllReady
<1>5. QED
  BY <1>1, <1>3, <1>4 DEF AfterArrival

\* handle_arrival, some core idle.
LEMMA ArrivalToIdleCorePolicy ==
  ASSUME IInv, NEW P, NEW F, Contract(P), InContract(P),
         NEW e, NEW c \in Cores, PolicyArrivalToIdleCore(e, c)
  PROVE  InContract(P)' /\ OneCoreProtects(P, F)
<1> DEFINE p == AfterArrival(e)
<1>1. /\ Pop(e) /\ e.type = "ARRIVAL"
      /\ DispatchNext(e, c, Arrived(e), queue \cup {e.task}, contextSwitches, Decided(p))
      /\ policy' = Dispatched(p)
  BY DEF PolicyArrivalToIdleCore, ArrivalToIdleCore
<1>2. /\ p \in P /\ queue \cup {e.task} = Ready(p)
      /\ Protects(P, F) /\ Protected(F) => AllReady(p, F)
  BY <1>1, ArrivalAdds
<1>3. running \in [Cores -> Tasks \cup {NoTask}]
  BY <1>1, PopFacts
<1> HIDE DEF p
<1>4. QED
  BY <1>1, <1>2, <1>3, DispatchedFacts DEF OneCoreProtects

\* handle_arrival, the task on core c preempted: the newcomer is queued, the
\* preempted task charged, and queued in its turn.
LEMMA ArrivalPreemptsPolicy ==
  ASSUME IInv, NEW P, NEW F, Contract(P), InContract(P),
         NEW e, NEW c \in Cores, PolicyArrivalPreempts(e, c)
  PROVE  InContract(P)' /\ OneCoreProtects(P, F)
<1> DEFINE p0 == AfterArrival(e)
           t == running[c]
           p1 == CpuUsed(p0, t, Elapsed(e, c))
           p == AfterPreempt(e, c)
           tk == Requeued(Charged(Arrived(e), c, e.time), c, e.time)
           q == queue \cup {e.task, running[c]}
<1>1. /\ Pop(e) /\ e.type = "ARRIVAL" /\ running[c] # NoTask
      /\ DispatchNext(e, c, tk, q, contextSwitches + 1, Decided(p))
      /\ policy' = Dispatched(p)
  BY DEF PolicyArrivalPreempts, ArrivalPreempts, Idle
<1>2. /\ p0 \in P /\ Ready(p0) = queue \cup {e.task}
      /\ Protects(P, F) /\ Protected(F) => AllReady(p0, F)
  BY <1>1, ArrivalAdds
<1>3. t \in Tasks /\ t \notin queue /\ Elapsed(e, c) \in Nat
  BY <1>1, RunningTask
<1>4. t \notin Ready(p0)
  BY <1>1, <1>2, <1>3, ArrivingTask
<1>5. p = AddedTo(p1, t)
  BY DEF AfterPreempt
<1>6. q = queue \cup {e.task} \cup {t}
  OBVIOUS
<1>7. running \in [Cores -> Tasks \cup {NoTask}]
  BY <1>1, PopFacts
<1> HIDE DEF p0, t, tk, q, p
<1>8. /\ p1 \in P /\ Ready(p1) = Ready(p0)
      /\ Protects(P, F) /\ AllReady(p0, F) => AllReady(p1, F)
  BY <1>2, <1>3, <1>4, CpuUsedFacts
<1> HIDE DEF p1
<1>9. /\ p \in P /\ Ready(p) = Ready(p1) \cup {t}
      /\ Protects(P, F) /\ AllReady(p1, F) => AllReady(p, F)
  BY <1>3, <1>4, <1>5, <1>8, AddedFacts
<1>10. q = Ready(p)
  BY <1>2, <1>6, <1>8, <1>9
<1>11. QED
  BY <1>1, <1>2, <1>7, <1>8, <1>9, <1>10, DispatchedFacts DEF OneCoreProtects

\* handle_arrival, no preemption.
LEMMA ArrivalWaitsPolicy ==
  ASSUME IInv, NEW P, NEW F, Contract(P), InContract(P), NEW e, PolicyArrivalWaits(e)
  PROVE  InContract(P)' /\ OneCoreProtects(P, F)
<1>1. /\ Pop(e) /\ e.type = "ARRIVAL" /\ \A b \in Cores : running[b] # NoTask
      /\ queue' = queue \cup {e.task} /\ running' = running
      /\ policy' = AfterArrival(e)
  BY DEF PolicyArrivalWaits, ArrivalWaits, Idle
<1>2. /\ policy' \in P /\ Ready(policy') = queue'
      /\ Protects(P, F) /\ Protected(F) => AllReady(policy', F)
  BY <1>1, ArrivalAdds
<1>3. /\ e.task \in Tasks /\ e.task \notin queue /\ policy \in P
      /\ Ready(policy) = queue /\ policy' = AddedTo(policy, e.task)
  BY <1>1, ArrivingTask DEF InContract, AfterArrival
<1>4. Protects(P, F) => \A u \in Tasks \ {e.task} :
        <<policy, u>> \in F => <<policy', u>> \in F
  BY <1>3, AddedFacts
<1>5. Busy \subseteq Tasks \ {e.task} /\ Busy' = Busy
  BY <1>1, ArrivingTask, PopFacts DEF Busy
<1>6. Protects(P, F) /\ Protected(F) => Protected(F)'
  BY <1>2, <1>4, <1>5 DEF Protected, AllReady
<1>7. QED
  BY <1>2, <1>6 DEF InContract, OneCoreProtects

\* The object after the on_cpu_used of handle_time_slice.
LEMMA SliceCharges ==
  ASSUME IInv, NEW P, NEW F, Contract(P), InContract(P), NEW e, Pop(e), Hits(e)
  PROVE  /\ e.core \in Cores /\ e.task \in Tasks /\ e.task \notin queue
         /\ AfterSlice(e) \in P /\ Ready(AfterSlice(e)) = queue
         /\ Protects(P, F) /\ Protected(F) => AllReady(AfterSlice(e), F)
<1>1. policy \in P /\ Ready(policy) = queue
  BY DEF InContract
<1>2. e.task \in Tasks /\ e.core \in Cores
  BY PopFacts
<1>3. running[e.core] = e.task /\ e.task # NoTask
  BY <1>2, NoTaskAssumption DEF Hits
<1>4. e.task \notin Ready(policy) /\ Elapsed(e, e.core) \in Nat
  BY <1>1, <1>2, <1>3, RunningTask
<1>5. /\ AfterSlice(e) \in P /\ Ready(AfterSlice(e)) = Ready(policy)
      /\ Protects(P, F) /\ AllReady(policy, F) => AllReady(AfterSlice(e), F)
  BY <1>1, <1>2, <1>4, CpuUsedFacts DEF AfterSlice
<1>6. Protected(F) => AllReady(policy, F)
  BY <1>1 DEF Protected, AllReady
<1>7. QED
  BY <1>1, <1>2, <1>4, <1>5, <1>6

\* handle_time_slice, the task done.
LEMMA SliceCompletesPolicy ==
  ASSUME IInv, NEW P, NEW F, Contract(P), InContract(P), NEW e, PolicySliceCompletes(e)
  PROVE  InContract(P)' /\ OneCoreProtects(P, F)
<1> DEFINE p == AfterSlice(e)
           tk == [Charged(task, e.core, e.time) EXCEPT ![e.task] = Complete(@, e.time)]
<1>1. /\ Pop(e) /\ Hits(e)
      /\ DispatchNext(e, e.core, tk, queue, contextSwitches, Decided(p))
      /\ policy' = Dispatched(p)
  BY DEF PolicySliceCompletes, SliceCompletes
<1>2. /\ e.core \in Cores /\ p \in P /\ queue = Ready(p)
      /\ Protects(P, F) /\ Protected(F) => AllReady(p, F)
  BY <1>1, SliceCharges
<1>3. running \in [Cores -> Tasks \cup {NoTask}]
  BY <1>1, PopFacts
<1> HIDE DEF p, tk
<1>4. QED
  BY <1>1, <1>2, <1>3, DispatchedFacts DEF OneCoreProtects

\* handle_time_slice, the task to go on.
LEMMA SliceExpiresPolicy ==
  ASSUME IInv, NEW P, NEW F, Contract(P), InContract(P), NEW e, PolicySliceExpires(e)
  PROVE  InContract(P)' /\ OneCoreProtects(P, F)
<1> DEFINE p0 == AfterSlice(e)
           p == AddedTo(p0, e.task)
           tk == Requeued(Charged(task, e.core, e.time), e.core, e.time)
           q == queue \cup {e.task}
<1>1. /\ Pop(e) /\ Hits(e)
      /\ DispatchNext(e, e.core, tk, q, contextSwitches, Decided(p))
      /\ policy' = Dispatched(p)
  BY DEF PolicySliceExpires, SliceExpires
<1>2. /\ e.core \in Cores /\ e.task \in Tasks /\ e.task \notin Ready(p0)
      /\ p0 \in P /\ queue = Ready(p0)
      /\ Protects(P, F) /\ Protected(F) => AllReady(p0, F)
  BY <1>1, SliceCharges
<1>3. running \in [Cores -> Tasks \cup {NoTask}]
  BY <1>1, PopFacts
<1> HIDE DEF p0, tk
<1>4. /\ p \in P /\ q = Ready(p)
      /\ Protects(P, F) /\ AllReady(p0, F) => AllReady(p, F)
  BY <1>2, AddedFacts
<1> HIDE DEF p, q
<1>5. QED
  BY <1>1, <1>2, <1>3, <1>4, DispatchedFacts DEF OneCoreProtects

\* At the start no task is ready or running.
LEMMA PolicyInitFacts ==
  ASSUME NEW P, NEW F, Contract(P), PolicyInit
  PROVE  InContract(P) /\ Protected(F)
<1>1. queue = {} /\ Busy = {}
  BY DEF PolicyInit, Init, Busy
<1>2. QED
  BY <1>1 DEF PolicyInit, Contract, InContract, Protected

\* No step breaks the contract, nor the protection on one core.
LEMMA PolicyStepFacts ==
  ASSUME IInv, NEW P, NEW F, Contract(P), InContract(P), [PolicyNext]_policyVars
  PROVE  InContract(P)' /\ OneCoreProtects(P, F)
<1>1. CASE \E e \in events, c \in Cores : PolicyArrivalToIdleCore(e, c)
  BY <1>1, ArrivalToIdleCorePolicy
<1>2. CASE \E e \in events, c \in Cores : PolicyArrivalPreempts(e, c)
  BY <1>2, ArrivalPreemptsPolicy
<1>3. CASE \E e \in events : PolicyArrivalWaits(e)
  BY <1>3, ArrivalWaitsPolicy
<1>4. CASE \E e \in events : PolicySliceCompletes(e)
  BY <1>4, SliceCompletesPolicy
<1>5. CASE \E e \in events : PolicySliceExpires(e)
  BY <1>5, SliceExpiresPolicy
<1>6. CASE policy' = policy /\ queue' = queue /\ running' = running
  BY <1>6 DEF InContract, OneCoreProtects, Protected, Busy
<1>7. CASE \E t \in Tasks : AddTask(t) /\ UNCHANGED policy
  BY <1>6, <1>7 DEF AddTask
<1>8. CASE \E stop \in StopTimes : Run(stop) /\ UNCHANGED policy
  BY <1>6, <1>8 DEF Run
<1>9. CASE \E e \in events : SliceIgnored(e) /\ UNCHANGED policy
  BY <1>6, <1>9 DEF SliceIgnored
<1>10. CASE \E e \in events : StopAtLimit(e) /\ UNCHANGED policy
  BY <1>6, <1>10 DEF StopAtLimit
<1>11. CASE (Drain \/ Returned) /\ UNCHANGED policy
  BY <1>6, <1>11 DEF Drain, Returned, vars
<1>12. CASE UNCHANGED policyVars
  BY <1>6, <1>12 DEF policyVars, vars
<1>13. QED
  BY <1>1, <1>2, <1>3, <1>4, <1>5, <1>7, <1>8, <1>9, <1>10, <1>11, <1>12
     DEF PolicyNext

\* A policy whose objects keep the contract call by call keeps it in every run:
\* its ready queue is the simulator's, and whatever it would schedule next is a
\* decision the simulator allows, so that dispatch_next never lacks a step.
THEOREM ContractKept ==
  ASSUME NEW P, Contract(P)
  PROVE  PolicySpec => [](policy \in P /\ SchedulerContract)
<1>1. PolicyInit => InContract(P)
  BY PolicyInitFacts
<1>2. IInv /\ InContract(P) /\ [PolicyNext]_policyVars => InContract(P)'
  BY PolicyStepFacts
<1>3. InContract(P) => policy \in P /\ SchedulerContract
  BY DEF InContract, Contract, SchedulerContract
<1>4. QED
  BY <1>1, <1>2, <1>3, PolicyInvariance, PTL DEF PolicySpec

\* On one core, what add_task establishes for a task and no call takes from a
\* ready task holds of every task that is ready or running.  (On more cores the
\* task of another core may lose it when a task is charged.)
THEOREM OneCoreProtected ==
  ASSUME NEW P, NEW F, Contract(P), Protects(P, F), NumCores = 1
  PROVE  PolicySpec => []Protected(F)
<1>1. PolicyInit => InContract(P) /\ Protected(F)
  BY PolicyInitFacts
<1>2. IInv /\ InContract(P) /\ Protected(F) /\ [PolicyNext]_policyVars
        => InContract(P)' /\ Protected(F)'
  BY PolicyStepFacts DEF OneCoreProtects
<1>3. QED
  BY <1>1, <1>2, PolicyInvariance, PTL DEF PolicySpec

-----------------------------------------------------------------------------
\* The records, in a handler.

\* The tasks of S have entered the ready queue at time; nothing else has
\* happened to the start and ready times of the tasks.
Entered(S, tk, nt, time) ==
  \A u \in Tasks :
    /\ nt[u].start = tk[u].start
    /\ nt[u].readyEnter = IF u \in S THEN time ELSE tk[u].readyEnter

\* mark_ready, for an arrival.
LEMMA ArrivedTimes ==
  ASSUME IInv, NEW e, Pop(e), e.type = "ARRIVAL"
  PROVE  Entered({e.task}, task, Arrived(e), e.time) /\ Arrived(e) \in [Tasks -> TaskState]
<1>1. /\ task \in [Tasks -> TaskState] /\ e.task \in Tasks
      /\ Consistent(Arrived(e), queue \cup {e.task}, running, lastEvent, completed,
                    events \ {e}, e.time)
  BY PopFacts, ArrivalFacts
<1>2. Arrived(e) \in [Tasks -> TaskState]
  BY <1>1 DEF Consistent, Good, TypesGood
<1>3. PICK nt : nt = Arrived(e)
  OBVIOUS
<1>4. nt = [task EXCEPT ![e.task] = MarkReady(@, e.time)]
  BY <1>3 DEF Arrived
<1>5. ASSUME NEW u \in Tasks
      PROVE  /\ nt[u].start = task[u].start
             /\ nt[u].readyEnter = IF u \in {e.task} THEN e.time ELSE task[u].readyEnter
  <2>1. CASE u = e.task
    <3>1. PICK r \in TaskState : r = task[u]
      BY <1>1
    <3>2. nt[u] = [r EXCEPT !.inReady = TRUE, !.readyEnter = e.time]
      BY <1>1, <1>4, <2>1, <3>1 DEF MarkReady
    <3>3. nt[u].start = r.start /\ nt[u].readyEnter = e.time
      BY <3>2 DEF TaskState
    <3>4. QED
      BY <2>1, <3>1, <3>3
  <2>2. CASE u # e.task
    BY <1>1, <1>4, <2>2
  <2>3. QED
    BY <2>1, <2>2
<1>6. QED
  BY <1>2, <1>3, <1>5 DEF Entered

\* Charging the task of core c and marking it ready.
LEMMA RequeuedTimes ==
  ASSUME NEW tk \in [Tasks -> TaskState], NEW c \in Cores, running[c] \in Tasks, NEW time
  PROVE  Entered({running[c]}, tk, Requeued(Charged(tk, c, time), c, time), time)
<1>1. PICK t \in Tasks : t = running[c]
  OBVIOUS
<1>2. PICK mt : mt = Charged(tk, c, time)
  OBVIOUS
<1>3. PICK nt : nt = Requeued(mt, c, time)
  OBVIOUS
<1>4. PICK x : mt = [tk EXCEPT ![t] = [tk[t] EXCEPT !.remaining = x]]
  BY <1>1, <1>2 DEF Charged, Execute
<1>5. nt = [mt EXCEPT ![t] = MarkReady(IncrementPreemptions(mt[t]), time)]
  BY <1>1, <1>3 DEF Requeued
<1>6. PICK r \in TaskState : r = tk[t]
  OBVIOUS
<1>7. mt[t] = [r EXCEPT !.remaining = x] /\ \A u \in Tasks \ {t} : mt[u] = tk[u]
  BY <1>4, <1>6
<1>8. nt[t] = MarkReady(IncrementPreemptions(mt[t]), time)
        /\ \A u \in Tasks \ {t} : nt[u] = tk[u]
  BY <1>4, <1>5, <1>7
<1>9. nt[t].start = r.start /\ nt[t].readyEnter = time
  <2>1. PICK m : m = mt[t]
    OBVIOUS
  <2>2. m = [r EXCEPT !.remaining = x]
    BY <1>7, <2>1
  <2>3. PICK y : nt[t] = [[m EXCEPT !.preemptions = y] EXCEPT !.inReady = TRUE,
                                                              !.readyEnter = time]
    BY <1>8, <2>1 DEF MarkReady, IncrementPreemptions
  <2>4. QED
    BY <2>2, <2>3 DEF TaskState
<1>10. QED
  BY <1>1, <1>2, <1>3, <1>6, <1>8, <1>9 DEF Entered

\* Charging the task of core c and completing it.
LEMMA CompletedTimes ==
  ASSUME NEW tk \in [Tasks -> TaskState], NEW c \in Cores, NEW t \in Tasks, running[c] = t,
         NEW time
  PROVE  Entered({}, tk, [Charged(tk, c, time) EXCEPT ![t] = Complete(@, time)], time)
<1>1. PICK mt : mt = Charged(tk, c, time)
  OBVIOUS
<1>2. PICK nt : nt = [mt EXCEPT ![t] = Complete(@, time)]
  OBVIOUS
<1>3. PICK x : mt = [tk EXCEPT ![t] = [tk[t] EXCEPT !.remaining = x]]
  BY <1>1 DEF Charged, Execute
<1>4. PICK r \in TaskState : r = tk[t]
  OBVIOUS
<1>5. mt[t] = [r EXCEPT !.remaining = x] /\ \A u \in Tasks \ {t} : mt[u] = tk[u]
  BY <1>3, <1>4
<1>6. nt[t] = [mt[t] EXCEPT !.completion = time] /\ \A u \in Tasks \ {t} : nt[u] = tk[u]
  BY <1>2, <1>3, <1>5 DEF Complete
<1>7. nt[t].start = r.start /\ nt[t].readyEnter = r.readyEnter
  BY <1>5, <1>6 DEF TaskState
<1>8. QED
  BY <1>1, <1>2, <1>4, <1>6, <1>7 DEF Entered

\* One after the other.
LEMMA EnteredThen ==
  ASSUME NEW S, NEW T, NEW tk, NEW mt, NEW nt, NEW time,
         Entered(S, tk, mt, time), Entered(T, mt, nt, time)
  PROVE  Entered(S \cup T, tk, nt, time)
BY DEF Entered

\* dispatch_next changes the record of the task it dispatches.
LEMMA DispatchedTimes ==
  ASSUME NEW e, NEW c \in Cores, NEW tk, NEW q, NEW k, NEW d, DispatchNext(e, c, tk, q, k, d),
         q \subseteq Tasks, running \in [Cores -> Tasks \cup {NoTask}],
         tk \in [Tasks -> TaskState]
  PROVE  \A u \in Tasks : u \notin Busy' => task'[u] = tk[u]
<1>1. CASE q = {}
  BY <1>1 DEF DispatchNext
<1>2. CASE q # {}
  <2>1. /\ d.task \in Tasks /\ running' = [running EXCEPT ![c] = d.task]
        /\ \A u \in Tasks : u # d.task => task'[u] = tk[u]
    BY <1>2 DEF DispatchNext, Decisions
  <2>2. d.task \in Busy'
    BY <2>1, NoTaskAssumption DEF Busy
  <2>3. QED
    BY <2>1, <2>2
<1>3. QED
  BY <1>1, <1>2

-----------------------------------------------------------------------------
\* What a task keeps from the moment it is added as a new one.

\* F relates an object to the tasks it treats well.  add_task treats a new task
\* well, and no call treats any task worse.
Preserves(P, F) ==
  /\ \A p \in P : \A t \in Tasks \ Ready(p) : <<Added(p, t, TRUE), t>> \in F
  /\ \A p \in P : \A t \in Tasks \ Ready(p) : \A new \in BOOLEAN :
       \A u \in Tasks : <<p, u>> \in F => <<Added(p, t, new), u>> \in F
  /\ \A p \in P : \A t \in Tasks \ Ready(p) : \A d \in Nat :
       \A u \in Tasks : <<p, u>> \in F => <<CpuUsed(p, t, d), u>> \in F
  /\ \A p \in P : \A t \in Ready(p) :
       \A u \in Tasks : <<p, u>> \in F => <<Removed(p, t), u>> \in F

\* Object n treats every task as well as p does.
AsWell(p, n, F) == \A u \in Tasks : <<p, u>> \in F => <<n, u>> \in F

\* A task that has not arrived has not started.
Fresh ==
  \A t \in Tasks : NotArrived(t, queue, running, completed) => task[t].start < 0

\* The step starts only tasks that it leaves on a core.
StartsOnCores == \A u \in Tasks : u \notin Busy' => task'[u].start = task[u].start

\* The step treats every task as well, and those it adds well.
TreatsWell(F) ==
  /\ AsWell(policy, policy', F)
  /\ \A u \in (queue \cup Busy)' : u \notin queue \cup Busy => <<policy', u>> \in F

\* dispatch_next, called when the object is p: it takes a task of the ready
\* queue, and the object treats every task as well.
LEMMA DispatchTreats ==
  ASSUME NEW P, NEW F, Contract(P), Preserves(P, F), NEW p \in P,
         NEW e, NEW c \in Cores, NEW tk, NEW q, NEW k, q = Ready(p),
         DispatchNext(e, c, tk, q, k, Decided(p)), policy' = Dispatched(p),
         running \in [Cores -> Tasks \cup {NoTask}]
  PROVE  (queue \cup Busy)' \subseteq q \cup Busy /\ AsWell(p, policy', F)
<1>1. Decided(p) \in Decisions(q)
  BY DEF DispatchNext
<1>2. CASE q = {}
  <2>1. queue' = {} /\ running' = [running EXCEPT ![c] = NoTask]
    BY <1>2 DEF DispatchNext
  <2>2. policy' = p
    BY <1>2 DEF Dispatched
  <2>3. Busy' \subseteq Busy
    BY <2>1 DEF Busy
  <2>4. QED
    BY <2>1, <2>2, <2>3 DEF AsWell
<1>3. CASE q # {}
  <2> DEFINE t == Decided(p).task
  <2>1. t \in Ready(p)
    BY <1>1, <1>3 DEF Decisions
  <2>2. queue' = Ready(p) \ {t} /\ running' = [running EXCEPT ![c] = t]
    BY <1>3 DEF DispatchNext
  <2>3. policy' = Removed(p, t)
    BY <1>3 DEF Dispatched
  <2> HIDE DEF t
  <2>4. Busy' \subseteq Busy \cup {t}
    BY <2>2 DEF Busy
  <2>5. AsWell(p, policy', F)
    BY <2>1, <2>3 DEF Preserves, AsWell
  <2>6. QED
    BY <2>1, <2>2, <2>4, <2>5
<1>4. QED
  BY <1>2, <1>3

\* add_task of a task that is not ready.
LEMMA AddedTreats ==
  ASSUME NEW P, NEW F, Contract(P), Preserves(P, F), NEW p \in P,
         NEW t \in Tasks, t \notin Ready(p)
  PROVE  /\ AddedTo(p, t) \in P /\ Ready(AddedTo(p, t)) = Ready(p) \cup {t}
         /\ AsWell(p, AddedTo(p, t), F)
         /\ task[t].start < 0 => <<AddedTo(p, t), t>> \in F
<1>0. (task[t].start < 0) \in BOOLEAN
  OBVIOUS
<1>1. PICK new \in BOOLEAN : new = (task[t].start < 0)
  BY <1>0
<1>2. AddedTo(p, t) = Added(p, t, new)
  BY <1>1 DEF AddedTo
<1>3. AddedTo(p, t) \in P /\ Ready(AddedTo(p, t)) = Ready(p) \cup {t}
  BY AddedFacts
<1>4. \A u \in Tasks : <<p, u>> \in F => <<Added(p, t, new), u>> \in F
  BY DEF Preserves
<1>5. <<Added(p, t, TRUE), t>> \in F
  BY DEF Preserves
<1>6. task[t].start < 0 => new = TRUE
  BY <1>1
<1>7. QED
  BY <1>2, <1>3, <1>4, <1>5, <1>6 DEF AsWell

\* on_cpu_used of a task that is not ready.
LEMMA CpuUsedTreats ==
  ASSUME NEW P, NEW F, Contract(P), Preserves(P, F), NEW p \in P,
         NEW t \in Tasks, t \notin Ready(p), NEW d \in Nat
  PROVE  /\ CpuUsed(p, t, d) \in P /\ Ready(CpuUsed(p, t, d)) = Ready(p)
         /\ AsWell(p, CpuUsed(p, t, d), F)
<1>1. CpuUsed(p, t, d) \in P /\ Ready(CpuUsed(p, t, d)) = Ready(p)
  BY CpuUsedFacts
<1>2. \A u \in Tasks : <<p, u>> \in F => <<CpuUsed(p, t, d), u>> \in F
  BY DEF Preserves
<1>3. QED
  BY <1>1, <1>2 DEF AsWell

\* The add_task of handle_arrival.
LEMMA ArrivalTreats ==
  ASSUME IInv, NEW P, NEW F, Contract(P), Preserves(P, F), InContract(P), Fresh,
         NEW e, Pop(e), e.type = "ARRIVAL"
  PROVE  /\ AfterArrival(e) \in P /\ Ready(AfterArrival(e)) = queue \cup {e.task}
         /\ AsWell(policy, AfterArrival(e), F) /\ <<AfterArrival(e), e.task>> \in F
         /\ e.task \in Tasks
<1>1. policy \in P /\ Ready(policy) = queue
  BY DEF InContract
<1>2. /\ Consistent(task, queue, running, lastEvent, completed, events, now)
      /\ e \in Earliest(events) /\ e.task \in Tasks
  BY PopFacts
<1>3. e \in events
  BY <1>2 DEF Earliest
<1>4. NotArrived(e.task, queue, running, completed)
  BY <1>2, <1>3 DEF Consistent, Good, EventsGood
<1>5. task[e.task].start < 0 /\ e.task \notin Ready(policy)
  BY <1>1, <1>2, <1>4 DEF Fresh, NotArrived
<1>6. QED
  BY <1>1, <1>2, <1>5, AddedTreats DEF AfterArrival

\* handle_arrival, some core idle.
LEMMA ArrivalToIdleCoreTreats ==
  ASSUME IInv, NEW P, NEW F, Contract(P), Preserves(P, F), InContract(P), Fresh,
         NEW e, NEW c \in Cores, PolicyArrivalToIdleCore(e, c)
  PROVE  TreatsWell(F) /\ StartsOnCores
<1> DEFINE p == AfterArrival(e)
<1>1. /\ Pop(e) /\ e.type = "ARRIVAL"
      /\ DispatchNext(e, c, Arrived(e), queue \cup {e.task}, contextSwitches, Decided(p))
      /\ policy' = Dispatched(p)
  BY DEF PolicyArrivalToIdleCore, ArrivalToIdleCore
<1>2. /\ p \in P /\ queue \cup {e.task} = Ready(p) /\ e.task \in Tasks
      /\ AsWell(policy, p, F) /\ <<p, e.task>> \in F
  BY <1>1, ArrivalTreats
<1>3. /\ running \in [Cores -> Tasks \cup {NoTask}]
      /\ Entered({e.task}, task, Arrived(e), e.time) /\ Arrived(e) \in [Tasks -> TaskState]
  BY <1>1, PopFacts, ArrivedTimes
<1> HIDE DEF p
<1>4. (queue \cup Busy)' \subseteq queue \cup {e.task} \cup Busy /\ AsWell(p, policy', F)
  BY <1>1, <1>2, <1>3, DispatchTreats
<1>5. queue \cup {e.task} \subseteq Tasks
  BY <1>2 DEF Contract
<1>6. \A u \in Tasks : u \notin Busy' => task'[u] = Arrived(e)[u]
  BY <1>1, <1>3, <1>5, DispatchedTimes
<1>7. StartsOnCores
  BY <1>3, <1>6 DEF StartsOnCores, Entered
<1>8. TreatsWell(F)
  BY <1>2, <1>4 DEF TreatsWell, AsWell
<1>9. QED
  BY <1>7, <1>8

\* The records at the end of a preemption, of a slice and of a task.
LEMMA PreemptTimes ==
  ASSUME IInv, NEW e, NEW c \in Cores, Pop(e), e.type = "ARRIVAL", running[c] # NoTask,
         NEW tk, tk = Requeued(Charged(Arrived(e), c, e.time), c, e.time)
  PROVE  Entered({e.task, running[c]}, task, tk, e.time) /\ tk \in [Tasks -> TaskState]
<1> DEFINE tk0 == Arrived(e)
           q0 == queue \cup {e.task}
           q == queue \cup {e.task, running[c]}
           run == [running EXCEPT ![c] = NoTask]
           evs == events \ {e}
<1>1. Consistent(tk0, q0, running, lastEvent, completed, evs, e.time)
  BY ArrivalFacts
<1>2. RequeueStep(tk0, q0, running, lastEvent, c, e.time, tk, q, run)
  BY DEF RequeueStep, Requeued, Charged
<1>3. /\ Entered({e.task}, task, tk0, e.time) /\ tk0 \in [Tasks -> TaskState]
      /\ running \in [Cores -> Tasks \cup {NoTask}] /\ running[c] \in Tasks
  BY ArrivedTimes, PopFacts
<1> HIDE DEF tk0, q0, q, evs, run
<1>4. Interrupted(c, tk0, q0, running, lastEvent, completed, evs, e.time)
  BY <1>1, ArrivalInterrupts
<1>5. Consistent(tk, q, run, lastEvent, completed, evs, e.time)
  BY <1>2, <1>4, RequeueConsistent
<1>6. tk \in [Tasks -> TaskState]
  BY <1>5 DEF Consistent, Good, TypesGood
<1>7. Entered({running[c]}, tk0, tk, e.time)
  BY <1>3, RequeuedTimes DEF tk0
<1>8. Entered({e.task} \cup {running[c]}, task, tk, e.time)
  BY <1>3, <1>7, EnteredThen
<1>9. {e.task} \cup {running[c]} = {e.task, running[c]}
  OBVIOUS
<1>10. QED
  BY <1>6, <1>8, <1>9

LEMMA ExpireTimes ==
  ASSUME IInv, NEW e, Pop(e), Hits(e),
         NEW tk, tk = Requeued(Charged(task, e.core, e.time), e.core, e.time)
  PROVE  Entered({e.task}, task, tk, e.time) /\ tk \in [Tasks -> TaskState]
<1> DEFINE c == e.core
           q == queue \cup {e.task}
           run == [running EXCEPT ![c] = NoTask]
           evs == events \ {e}
<1>1. /\ Interrupted(c, task, queue, running, lastEvent, completed, evs, e.time)
      /\ c \in Cores /\ e.task = running[c]
  BY SliceFacts
<1>2. RequeueStep(task, queue, running, lastEvent, c, e.time, tk, q, run)
  BY <1>1 DEF RequeueStep, Requeued, Charged
<1>3. task \in [Tasks -> TaskState] /\ running[c] \in Tasks
  BY <1>1, PopFacts
<1>4. tk = Requeued(Charged(task, c, e.time), c, e.time)
  OBVIOUS
<1> HIDE DEF c, q, run, evs
<1>5. Consistent(tk, q, run, lastEvent, completed, evs, e.time)
  BY <1>1, <1>2, RequeueConsistent
<1>6. tk \in [Tasks -> TaskState]
  BY <1>5 DEF Consistent, Good, TypesGood
<1>7. Entered({running[c]}, task, tk, e.time)
  BY <1>1, <1>3, <1>4, RequeuedTimes
<1>8. QED
  BY <1>1, <1>6, <1>7

LEMMA CompleteTimes ==
  ASSUME IInv, NEW e, Pop(e), Hits(e),
         NEW tk, tk = [Charged(task, e.core, e.time) EXCEPT ![e.task] = Complete(@, e.time)],
         IsCompleted(Charged(task, e.core, e.time)[e.task])
  PROVE  Entered({}, task, tk, e.time) /\ tk \in [Tasks -> TaskState]
<1> DEFINE c == e.core
           mt == Charged(task, c, e.time)
           run == [running EXCEPT ![c] = NoTask]
           evs == events \ {e}
           done == completed \cup {e.task}
<1>1. /\ Interrupted(c, task, queue, running, lastEvent, completed, evs, e.time)
      /\ c \in Cores /\ e.task = running[c]
  BY SliceFacts
<1>2. CompleteStep(task, running, lastEvent, completed, c, e.time, tk, run, done)
  BY <1>1 DEF CompleteStep, Charged
<1>3. task \in [Tasks -> TaskState] /\ e.task \in Tasks
  BY PopFacts
<1>4. tk = [Charged(task, c, e.time) EXCEPT ![e.task] = Complete(@, e.time)]
  OBVIOUS
<1> HIDE DEF c, mt, run, evs, done
<1>5. Consistent(tk, queue, run, lastEvent, done, evs, e.time)
  BY <1>1, <1>2, CompleteConsistent
<1>6. tk \in [Tasks -> TaskState]
  BY <1>5 DEF Consistent, Good, TypesGood
<1>7. Entered({}, task, tk, e.time)
  BY <1>1, <1>3, <1>4, CompletedTimes
<1>8. QED
  BY <1>6, <1>7

\* handle_arrival, the task on core c preempted.
LEMMA ArrivalPreemptsTreats ==
  ASSUME IInv, NEW P, NEW F, Contract(P), Preserves(P, F), InContract(P), Fresh,
         NEW e, NEW c \in Cores, PolicyArrivalPreempts(e, c)
  PROVE  TreatsWell(F) /\ StartsOnCores
<1> DEFINE p0 == AfterArrival(e)
           t == running[c]
           p1 == CpuUsed(p0, t, Elapsed(e, c))
           p == AfterPreempt(e, c)
           tk == Requeued(Charged(Arrived(e), c, e.time), c, e.time)
           q == queue \cup {e.task, running[c]}
<1>1. /\ Pop(e) /\ e.type = "ARRIVAL" /\ running[c] # NoTask
      /\ DispatchNext(e, c, tk, q, contextSwitches + 1, Decided(p))
      /\ policy' = Dispatched(p)
  BY DEF PolicyArrivalPreempts, ArrivalPreempts, Idle
<1>2. /\ p0 \in P /\ Ready(p0) = queue \cup {e.task} /\ e.task \in Tasks
      /\ AsWell(policy, p0, F) /\ <<p0, e.task>> \in F
  BY <1>1, ArrivalTreats
<1>3. t \in Tasks /\ t \notin queue /\ Elapsed(e, c) \in Nat /\ t \in Busy
  BY <1>1, RunningTask
<1>4. t \notin Ready(p0)
  BY <1>1, <1>2, <1>3, ArrivingTask
<1>5. p = AddedTo(p1, t)
  BY DEF AfterPreempt
<1>6. q = queue \cup {e.task} \cup {t}
  OBVIOUS
<1>7. /\ running \in [Cores -> Tasks \cup {NoTask}]
      /\ Entered({e.task, t}, task, tk, e.time) /\ tk \in [Tasks -> TaskState]
  BY <1>1, PopFacts, PreemptTimes
<1> HIDE DEF p0, t, tk, q, p
<1>8. p1 \in P /\ Ready(p1) = Ready(p0) /\ AsWell(p0, p1, F)
  BY <1>2, <1>3, <1>4, CpuUsedTreats
<1> HIDE DEF p1
<1>9. p \in P /\ Ready(p) = Ready(p1) \cup {t} /\ AsWell(p1, p, F)
  BY <1>3, <1>4, <1>5, <1>8, AddedTreats, ZenonT(40)
<1>10. q = Ready(p)
  BY <1>2, <1>6, <1>8, <1>9
<1>11. (queue \cup Busy)' \subseteq q \cup Busy /\ AsWell(p, policy', F)
  BY <1>1, <1>7, <1>9, <1>10, DispatchTreats
<1>12. q \subseteq Tasks
  BY <1>9, <1>10 DEF Contract
<1>13. \A u \in Tasks : u \notin Busy' => task'[u] = tk[u]
  BY <1>1, <1>7, <1>12, DispatchedTimes
<1>14. StartsOnCores
  BY <1>7, <1>13 DEF StartsOnCores, Entered
<1>15. AsWell(p0, policy', F)
  BY <1>8, <1>9, <1>11 DEF AsWell
<1>16. TreatsWell(F)
  BY <1>2, <1>3, <1>6, <1>11, <1>15 DEF TreatsWell, AsWell
<1>17. QED
  BY <1>14, <1>16

\* handle_arrival, no preemption.
LEMMA ArrivalWaitsTreats ==
  ASSUME IInv, NEW P, NEW F, Contract(P), Preserves(P, F), InContract(P), Fresh,
         NEW e, PolicyArrivalWaits(e)
  PROVE  TreatsWell(F) /\ StartsOnCores
<1>1. /\ Pop(e) /\ e.type = "ARRIVAL"
      /\ queue' = queue \cup {e.task} /\ running' = running /\ task' = Arrived(e)
      /\ policy' = AfterArrival(e)
  BY DEF PolicyArrivalWaits, ArrivalWaits
<1>2. AsWell(policy, policy', F) /\ <<policy', e.task>> \in F
  BY <1>1, ArrivalTreats
<1>3. Entered({e.task}, task, task', e.time)
  BY <1>1, ArrivedTimes
<1>4. Busy' = Busy
  BY <1>1 DEF Busy
<1>5. QED
  BY <1>1, <1>2, <1>3, <1>4 DEF TreatsWell, StartsOnCores, Entered

\* The on_cpu_used of handle_time_slice.
LEMMA SliceTreats ==
  ASSUME IInv, NEW P, NEW F, Contract(P), Preserves(P, F), InContract(P),
         NEW e, Pop(e), Hits(e)
  PROVE  /\ e.core \in Cores /\ e.task \in Tasks /\ e.task \notin queue /\ e.task \in Busy
         /\ AfterSlice(e) \in P /\ Ready(AfterSlice(e)) = queue
         /\ AsWell(policy, AfterSlice(e), F)
<1>1. policy \in P /\ Ready(policy) = queue
  BY DEF InContract
<1>2. e.task \in Tasks /\ e.core \in Cores
  BY PopFacts
<1>3. running[e.core] = e.task /\ e.task # NoTask
  BY <1>2, NoTaskAssumption DEF Hits
<1>4. e.task \notin Ready(policy) /\ Elapsed(e, e.core) \in Nat /\ e.task \in Busy
  BY <1>1, <1>2, <1>3, RunningTask
<1>5. /\ AfterSlice(e) \in P /\ Ready(AfterSlice(e)) = Ready(policy)
      /\ AsWell(policy, AfterSlice(e), F)
  BY <1>1, <1>2, <1>4, CpuUsedTreats DEF AfterSlice
<1>6. QED
  BY <1>1, <1>2, <1>4, <1>5

\* handle_time_slice, the task done.
LEMMA SliceCompletesTreats ==
  ASSUME IInv, NEW P, NEW F, Contract(P), Preserves(P, F), InContract(P),
         NEW e, PolicySliceCompletes(e)
  PROVE  TreatsWell(F) /\ StartsOnCores
<1> DEFINE p == AfterSlice(e)
           tk == [Charged(task, e.core, e.time) EXCEPT ![e.task] = Complete(@, e.time)]
<1>1. /\ Pop(e) /\ Hits(e)
      /\ IsCompleted(Charged(task, e.core, e.time)[e.task])
      /\ DispatchNext(e, e.core, tk, queue, contextSwitches, Decided(p))
      /\ policy' = Dispatched(p)
  BY DEF PolicySliceCompletes, SliceCompletes
<1>2. e.core \in Cores /\ p \in P /\ queue = Ready(p) /\ AsWell(policy, p, F)
  BY <1>1, SliceTreats
<1>3. /\ running \in [Cores -> Tasks \cup {NoTask}] /\ queue \subseteq Tasks
      /\ Entered({}, task, tk, e.time) /\ tk \in [Tasks -> TaskState]
  BY <1>1, <1>2, PopFacts, CompleteTimes DEF Contract
<1> HIDE DEF p, tk
<1>4. (queue \cup Busy)' \subseteq queue \cup Busy /\ AsWell(p, policy', F)
  BY <1>1, <1>2, <1>3, DispatchTreats
<1>5. \A u \in Tasks : u \notin Busy' => task'[u] = tk[u]
  BY <1>1, <1>2, <1>3, DispatchedTimes
<1>6. StartsOnCores
  BY <1>3, <1>5 DEF StartsOnCores, Entered
<1>7. TreatsWell(F)
  BY <1>2, <1>4 DEF TreatsWell, AsWell
<1>8. QED
  BY <1>6, <1>7

\* handle_time_slice, the task to go on.
LEMMA SliceExpiresTreats ==
  ASSUME IInv, NEW P, NEW F, Contract(P), Preserves(P, F), InContract(P),
         NEW e, PolicySliceExpires(e)
  PROVE  TreatsWell(F) /\ StartsOnCores
<1> DEFINE p0 == AfterSlice(e)
           p == AddedTo(p0, e.task)
           tk == Requeued(Charged(task, e.core, e.time), e.core, e.time)
           q == queue \cup {e.task}
<1>1. /\ Pop(e) /\ Hits(e)
      /\ DispatchNext(e, e.core, tk, q, contextSwitches, Decided(p))
      /\ policy' = Dispatched(p)
  BY DEF PolicySliceExpires, SliceExpires
<1>2. /\ e.core \in Cores /\ e.task \in Tasks /\ e.task \notin Ready(p0) /\ e.task \in Busy
      /\ p0 \in P /\ queue = Ready(p0) /\ AsWell(policy, p0, F)
  BY <1>1, SliceTreats
<1>3. /\ running \in [Cores -> Tasks \cup {NoTask}]
      /\ Entered({e.task}, task, tk, e.time) /\ tk \in [Tasks -> TaskState]
  BY <1>1, PopFacts, ExpireTimes
<1> HIDE DEF p0, tk
<1>4. p \in P /\ q = Ready(p) /\ AsWell(p0, p, F)
  BY <1>2, AddedTreats
<1>5. q = queue \cup {e.task}
  OBVIOUS
<1> HIDE DEF p, q
<1>6. (queue \cup Busy)' \subseteq q \cup Busy /\ AsWell(p, policy', F)
  BY <1>1, <1>2, <1>3, <1>4, DispatchTreats
<1>7. q \subseteq Tasks
  BY <1>4 DEF Contract
<1>8. \A u \in Tasks : u \notin Busy' => task'[u] = tk[u]
  BY <1>1, <1>2, <1>3, <1>7, DispatchedTimes
<1>9. StartsOnCores
  BY <1>3, <1>8 DEF StartsOnCores, Entered
<1>10. TreatsWell(F)
  BY <1>2, <1>4, <1>5, <1>6 DEF TreatsWell, AsWell
<1>11. QED
  BY <1>9, <1>10

\* Every step treats every task well.
LEMMA StepTreats ==
  ASSUME IInv, NEW P, NEW F, Contract(P), Preserves(P, F), InContract(P), Fresh,
         [PolicyNext]_policyVars
  PROVE  TreatsWell(F) /\ StartsOnCores
<1>1. CASE \E e \in events, c \in Cores : PolicyArrivalToIdleCore(e, c)
  BY <1>1, ArrivalToIdleCoreTreats
<1>2. CASE \E e \in events, c \in Cores : PolicyArrivalPreempts(e, c)
  BY <1>2, ArrivalPreemptsTreats
<1>3. CASE \E e \in events : PolicyArrivalWaits(e)
  BY <1>3, ArrivalWaitsTreats
<1>4. CASE \E e \in events : PolicySliceCompletes(e)
  BY <1>4, SliceCompletesTreats
<1>5. CASE \E e \in events : PolicySliceExpires(e)
  BY <1>5, SliceExpiresTreats
<1>6. CASE policy' = policy /\ queue' = queue /\ running' = running /\ task' = task
  BY <1>6 DEF TreatsWell, StartsOnCores, AsWell, Busy
<1>7. CASE \E t \in Tasks : AddTask(t) /\ UNCHANGED policy
  BY <1>6, <1>7 DEF AddTask
<1>8. CASE \E stop \in StopTimes : Run(stop) /\ UNCHANGED policy
  BY <1>6, <1>8 DEF Run
<1>9. CASE \E e \in events : SliceIgnored(e) /\ UNCHANGED policy
  BY <1>6, <1>9 DEF SliceIgnored
<1>10. CASE \E e \in events : StopAtLimit(e) /\ UNCHANGED policy
  BY <1>6, <1>10 DEF StopAtLimit
<1>11. CASE (Drain \/ Returned) /\ UNCHANGED policy
  BY <1>6, <1>11 DEF Drain, Returned, vars
<1>12. CASE UNCHANGED policyVars
  BY <1>6, <1>12 DEF policyVars, vars
<1>13. QED
  BY <1>1, <1>2, <1>3, <1>4, <1>5, <1>7, <1>8, <1>9, <1>10, <1>11, <1>12
     DEF PolicyNext

\* No task that has not arrived is started.
LEMMA StepFresh ==
  ASSUME IInv, Fresh, StartsOnCores, [PolicyNext]_policyVars
  PROVE  Fresh'
<1> SUFFICES ASSUME NEW t \in Tasks, NotArrived(t, queue', running', completed')
             PROVE  task'[t].start < 0
  BY DEF Fresh
<1>1. NotArrived(t, queue, running, completed)
  <2>1. Advances \/ Stutters
    BY PolicyStep, StepFacts
  <2>2. CASE Advances
    BY <2>2 DEF Advances, PoolStep
  <2>3. CASE Stutters
    BY <2>3 DEF Stutters
  <2>4. QED
    BY <2>1, <2>2, <2>3
<1>2. t \notin Busy'
  BY DEF NotArrived, Busy
<1>3. QED
  BY <1>1, <1>2 DEF Fresh, StartsOnCores

\* At the start no task has started.
LEMMA InitFresh == PolicyInit => Fresh
<1> SUFFICES ASSUME PolicyInit, NEW t \in Tasks
             PROVE  task[t].start < 0
  BY DEF Fresh
<1>1. \E a \in Arrivals, x \in Executions : task[t] = NewTask(a, x)
  BY DEF PolicyInit, Init
<1>2. QED
  BY <1>1 DEF NewTask, Never

\* No step takes from a task that is ready or running what add_task gave it.
LEMMA StepProtected ==
  ASSUME IInv, NEW P, NEW F, Contract(P), Preserves(P, F), InContract(P), Fresh,
         Protected(F), [PolicyNext]_policyVars
  PROVE  InContract(P)' /\ Protected(F)' /\ Fresh'
<1>1. InContract(P)' /\ TreatsWell(F) /\ StartsOnCores
  BY PolicyStepFacts, StepTreats
<1>2. queue \cup Busy \subseteq Tasks
  BY DEF IInv, Sound, Good, TypesGood, Busy
<1>3. Protected(F)'
  BY <1>1, <1>2 DEF Protected, TreatsWell, AsWell
<1>4. Fresh'
  BY <1>1, StepFresh
<1>5. QED
  BY <1>1, <1>3, <1>4

\* What add_task establishes for a new task and no call takes from a task holds
\* of every task that is ready or running, on any number of cores.
THEOREM AlwaysProtected ==
  ASSUME NEW P, NEW F, Contract(P), Preserves(P, F)
  PROVE  PolicySpec => []Protected(F)
<1>1. PolicyInit => InContract(P) /\ Protected(F) /\ Fresh
  BY PolicyInitFacts, InitFresh
<1>2. IInv /\ InContract(P) /\ Protected(F) /\ Fresh /\ [PolicyNext]_policyVars
        => InContract(P)' /\ Protected(F)' /\ Fresh'
  BY StepProtected
<1>3. QED
  BY <1>1, <1>2, PolicyInvariance, PTL DEF PolicySpec

-----------------------------------------------------------------------------
\* From dispatch to dispatch, on one core.

\* F holds of an object while a task runs and G when that task has been charged:
\* a charge of at most b[p] leads from F to G, and the dispatch from G to F;
\* add_task keeps both.
Alternates(P, b, F, G) ==
  /\ b \in [P -> Nat]
  /\ \A p \in P : Ready(p) = {} => p \in F /\ p \in G
  /\ \A p \in P : \A t \in Tasks \ Ready(p) : \A new \in BOOLEAN :
       /\ b[Added(p, t, new)] = b[p]
       /\ p \in F => Added(p, t, new) \in F
       /\ p \in G => Added(p, t, new) \in G
  /\ \A p \in P : \A t \in Tasks \ Ready(p) : \A d \in Nat :
       /\ b[CpuUsed(p, t, d)] = b[p]
       /\ p \in F /\ d <= b[p] => CpuUsed(p, t, d) \in G
  /\ \A p \in P : Ready(p) # {} =>
       /\ SliceLength(Decided(p).slice) <= b[p]
       /\ b[Removed(p, Decided(p).task)] = b[p]
       /\ p \in G => Removed(p, Decided(p).task) \in F

\* While a task runs, the slice in effect ends in time and is noticed.
InTurn(b, F) ==
  /\ policy \in F
  /\ ~Idle(0) =>
       /\ phase # "setup"
       /\ phase = "running" =>
            \E e \in events : /\ e.type = "TIME_SLICE" /\ e.task = running[0]
                              /\ e.time <= lastEvent[0] + b[policy]

\* add_task, in a handler.
LEMMA AddedInTurn ==
  ASSUME NEW P, NEW b, NEW F, NEW G, Contract(P), Alternates(P, b, F, G),
         NEW p \in P, NEW t \in Tasks, t \notin Ready(p), NEW n, n = AddedTo(p, t)
  PROVE  /\ n \in P /\ Ready(n) = Ready(p) \cup {t} /\ b[n] = b[p]
         /\ p \in F => n \in F
         /\ p \in G => n \in G
<1>1. (task[t].start < 0) \in BOOLEAN
  OBVIOUS
<1>2. PICK new \in BOOLEAN : n = Added(p, t, new)
  BY <1>1 DEF AddedTo
<1>3. n \in P /\ Ready(n) = Ready(p) \cup {t}
  BY <1>2 DEF Contract
<1>4. b[n] = b[p] /\ (p \in F => n \in F) /\ (p \in G => n \in G)
  BY <1>2 DEF Alternates
<1>5. QED
  BY <1>3, <1>4

\* The task on the core is charged for no more than the slice.
LEMMA ChargedInTurn ==
  ASSUME IInv, NumCores = 1, NEW P, NEW b, NEW F, NEW G, Contract(P), InContract(P),
         Alternates(P, b, F, G), InTurn(b, F),
         NEW e, Pop(e), NEW c \in Cores, running[c] # NoTask,
         NEW p \in P, p \in F, b[p] = b[policy], running[c] \notin Ready(p),
         NEW n, n = CpuUsed(p, running[c], Elapsed(e, c))
  PROVE  n \in P /\ Ready(n) = Ready(p) /\ n \in G
<1>1. 0 \in Cores /\ c = 0 /\ phase = "running" /\ e \in Earliest(events)
  BY OnlyCore, CoresAssumption DEF Cores, Pop
<1>2. PICK d \in Nat : d = Elapsed(e, c)
  BY RunningTask
<1>3. running[c] \in Tasks
  BY RunningTask
<1>4. PICK s \in events : s.time <= lastEvent[0] + b[policy] /\ e.time <= s.time
  BY <1>1 DEF InTurn, Idle, Earliest
<1>5. lastEvent[0] \in Nat /\ s.time \in Nat /\ e.time \in Nat
  <2>1. e \in events
    BY <1>1 DEF Earliest
  <2>2. QED
    BY <1>1, <2>1 DEF IInv, Sound, Good, TypesGood, Event
<1>6. b[policy] \in Nat
  BY DEF Alternates, InContract
<1>7. d = e.time - lastEvent[0]
  BY <1>1, <1>2 DEF Elapsed
<1>8. d <= b[p]
  BY <1>4, <1>5, <1>6, <1>7
<1>9. n = CpuUsed(p, running[c], d)
  BY <1>2
<1>10. n \in P /\ Ready(n) = Ready(p)
  BY <1>3, <1>9 DEF Contract
<1>11. n \in G
  BY <1>3, <1>8, <1>9 DEF Alternates
<1>12. QED
  BY <1>10, <1>11

\* dispatch_next, called when the object is p.
LEMMA DispatchedInTurn ==
  ASSUME NumCores = 1, NEW P, NEW b, NEW F, NEW G, Contract(P), Alternates(P, b, F, G),
         NEW p \in P, p \in G, NEW e, Pop(e), e.time \in Nat,
         NEW c \in Cores, NEW tk \in [Tasks -> TaskState], NEW q, NEW k, q = Ready(p),
         DispatchNext(e, c, tk, q, k, Decided(p)), policy' = Dispatched(p),
         running \in [Cores -> Tasks \cup {NoTask}], lastEvent \in [Cores -> Nat]
  PROVE  InTurn(b, F)'
<1>1. 0 \in Cores /\ c = 0
  BY OnlyCore, CoresAssumption DEF Cores
<1>2. phase' = "running"
  BY DEF Pop
<1>3. CASE q = {}
  <2>1. running' = [running EXCEPT ![c] = NoTask]
    BY <1>3 DEF DispatchNext
  <2>2. running'[0] = NoTask
    BY <1>1, <2>1
  <2>3. policy' = p /\ p \in F
    BY <1>3 DEF Dispatched, Alternates
  <2>4. QED
    BY <2>2, <2>3 DEF InTurn, Idle
<1>4. CASE q # {}
  <2>1. PICK t, s : t = Decided(p).task /\ s = Decided(p).slice
    OBVIOUS
  <2>2. t \in q /\ q \subseteq Tasks /\ s \in Slices
    BY <1>4, <2>1 DEF Contract, Decisions
  <2>3. PICK len \in Nat : len = SliceLength(s)
    BY <2>2, SliceAssumption DEF SliceLength
  <2>4. PICK end : end = SliceEnd(tk[t], s, e.time)
    OBVIOUS
  <2>5. PICK ev : ev = SliceEvent(t, end, c, tk[t].preemptions)
    OBVIOUS
  <2>6. /\ running' = [running EXCEPT ![c] = t]
        /\ lastEvent' = [lastEvent EXCEPT ![c] = e.time]
        /\ ev \in events'
    BY <1>4, <2>1, <2>4, <2>5 DEF DispatchNext
  <2>7. running'[0] = t /\ lastEvent'[0] = e.time
    BY <1>1, <2>6
  <2>8. PICK n : n = Removed(p, t)
    OBVIOUS
  <2>9. policy' = n /\ Ready(p) # {}
    BY <1>4, <2>1, <2>8 DEF Dispatched
  <2>10. len <= b[p] /\ b[n] = b[p] /\ n \in F /\ b[p] \in Nat
    <3>1. Ready(p) # {} =>
            /\ SliceLength(Decided(p).slice) <= b[p]
            /\ b[Removed(p, Decided(p).task)] = b[p]
            /\ p \in G => Removed(p, Decided(p).task) \in F
      BY DEF Alternates
    <3>2. b[p] \in Nat
      BY DEF Alternates
    <3>3. QED
      BY <2>1, <2>3, <2>8, <2>9, <3>1, <3>2
  <2>11. ev.type = "TIME_SLICE" /\ ev.task = t /\ ev.time = end
    BY <2>5 DEF SliceEvent
  <2>12. end <= e.time + b[p]
    <3>1. PICK r \in Nat : r = tk[t].remaining
      BY <2>2 DEF TaskState
    <3>2. end = e.time + (IF r < len THEN r ELSE len)
      BY <2>3, <2>4, <3>1 DEF SliceEnd
    <3>3. QED
      BY <2>3, <2>10, <3>1, <3>2
  <2>13. ev.task = running'[0] /\ ev.time <= lastEvent'[0] + b[policy']
    BY <2>7, <2>9, <2>10, <2>11, <2>12
  <2>14. QED
    BY <1>2, <2>6, <2>9, <2>10, <2>11, <2>13 DEF InTurn
<1>5. QED
  BY <1>3, <1>4

\* What every handler starts from.
HandlerTypes(e) ==
  /\ e.time \in Nat /\ running \in [Cores -> Tasks \cup {NoTask}]
  /\ lastEvent \in [Cores -> Nat]

LEMMA HandlerTyped ==
  ASSUME IInv, NEW e, Pop(e)
  PROVE  HandlerTypes(e)
<1>1. e.time \in Nat
  BY PopFacts, EarliestFacts DEF Consistent
<1>2. running \in [Cores -> Tasks \cup {NoTask}] /\ lastEvent \in [Cores -> Nat]
  BY DEF IInv, Sound, Good, TypesGood
<1>3. QED
  BY <1>1, <1>2 DEF HandlerTypes

\* handle_arrival, the core idle: nobody else is ready.
LEMMA ArrivalToIdleCoreInTurn ==
  ASSUME IInv, NumCores = 1, NEW P, NEW b, NEW F, NEW G, Contract(P), InContract(P),
         Alternates(P, b, F, G),
         NEW e, NEW c \in Cores, PolicyArrivalToIdleCore(e, c)
  PROVE  InTurn(b, F)'
<1>1. PICK p, tk : p = AfterArrival(e) /\ tk = Arrived(e)
  OBVIOUS
<1>2. /\ Pop(e) /\ e.type = "ARRIVAL" /\ Idle(c)
      /\ DispatchNext(e, c, tk, queue \cup {e.task}, contextSwitches, Decided(p))
      /\ policy' = Dispatched(p)
  BY <1>1 DEF PolicyArrivalToIdleCore, ArrivalToIdleCore
<1>3. policy \in P /\ Ready(policy) = queue /\ queue = {}
  BY <1>2 DEF InContract, IInv, WorkConserving
<1>4. policy \in G
  BY <1>3 DEF Alternates
<1>5. p \in P /\ Ready(p) = queue \cup {e.task} /\ p \in G
  <2>1. p = AddedTo(policy, e.task) /\ e.task \in Tasks /\ e.task \notin Ready(policy)
    BY <1>1, <1>2, <1>3, ArrivingTask DEF AfterArrival
  <2>2. QED
    BY <1>3, <1>4, <2>1, AddedInTurn
<1>6. tk \in [Tasks -> TaskState]
  BY <1>1, <1>2, ArrivedTimes
<1>7. HandlerTypes(e)
  BY <1>2, HandlerTyped
<1>8. QED
  BY <1>2, <1>5, <1>6, <1>7, DispatchedInTurn DEF HandlerTypes

\* The object after the add_task of handle_arrival.
LEMMA ArrivalInTurn ==
  ASSUME IInv, NEW P, NEW b, NEW F, NEW G, Contract(P), InContract(P),
         Alternates(P, b, F, G), InTurn(b, F),
         NEW e, Pop(e), e.type = "ARRIVAL", NEW p, p = AfterArrival(e)
  PROVE  p \in P /\ Ready(p) = queue \cup {e.task} /\ b[p] = b[policy] /\ p \in F
<1>1. policy \in P /\ Ready(policy) = queue /\ policy \in F
  BY DEF InContract, InTurn
<1>2. p = AddedTo(policy, e.task) /\ e.task \in Tasks /\ e.task \notin Ready(policy)
  BY <1>1, ArrivingTask DEF AfterArrival
<1>3. QED
  BY <1>1, <1>2, AddedInTurn

\* handle_arrival, the running task preempted.
LEMMA ArrivalPreemptsInTurn ==
  ASSUME IInv, NumCores = 1, NEW P, NEW b, NEW F, NEW G, Contract(P), InContract(P),
         Alternates(P, b, F, G), InTurn(b, F),
         NEW e, NEW c \in Cores, PolicyArrivalPreempts(e, c)
  PROVE  InTurn(b, F)'
<1>1. PICK p0 : p0 = AfterArrival(e)
  OBVIOUS
<1>2. PICK t : t = running[c]
  OBVIOUS
<1>3. PICK p1 : p1 = CpuUsed(p0, t, Elapsed(e, c))
  OBVIOUS
<1>4. PICK p : p = AddedTo(p1, t)
  OBVIOUS
<1>5. PICK tk : tk = Requeued(Charged(Arrived(e), c, e.time), c, e.time)
  OBVIOUS
<1>6. p = AfterPreempt(e, c)
  BY <1>1, <1>2, <1>3, <1>4 DEF AfterPreempt
<1>7. /\ Pop(e) /\ e.type = "ARRIVAL" /\ t # NoTask
      /\ DispatchNext(e, c, tk, queue \cup {e.task, t}, contextSwitches + 1, Decided(p))
      /\ policy' = Dispatched(p)
  BY <1>2, <1>5, <1>6 DEF PolicyArrivalPreempts, ArrivalPreempts, Idle
<1>8. p0 \in P /\ Ready(p0) = queue \cup {e.task} /\ b[p0] = b[policy] /\ p0 \in F
  BY <1>1, <1>7, ArrivalInTurn
<1>9. t \in Tasks /\ t \notin Ready(p0)
  BY <1>2, <1>7, <1>8, RunningTask, ArrivingTask
<1>10. p1 \in P /\ Ready(p1) = Ready(p0) /\ p1 \in G
  BY <1>2, <1>3, <1>7, <1>8, <1>9, ChargedInTurn
<1>11. p \in P /\ Ready(p) = Ready(p1) \cup {t} /\ p \in G
  BY <1>4, <1>9, <1>10, AddedInTurn
<1>12. tk \in [Tasks -> TaskState]
  BY <1>2, <1>5, <1>7, PreemptTimes
<1>13. queue \cup {e.task, t} = Ready(p)
  BY <1>8, <1>10, <1>11
<1>14. HandlerTypes(e)
  BY <1>7, HandlerTyped
<1>15. QED
  BY <1>7, <1>11, <1>12, <1>13, <1>14, DispatchedInTurn DEF HandlerTypes

\* handle_arrival, no preemption.
LEMMA ArrivalWaitsInTurn ==
  ASSUME IInv, NEW P, NEW b, NEW F, NEW G, Contract(P), InContract(P),
         Alternates(P, b, F, G), InTurn(b, F), NEW e, PolicyArrivalWaits(e)
  PROVE  InTurn(b, F)'
<1>1. PICK p : p = AfterArrival(e)
  OBVIOUS
<1>2. /\ Pop(e) /\ e.type = "ARRIVAL" /\ events' = events \ {e} /\ running' = running
      /\ lastEvent' = lastEvent /\ policy' = p /\ phase = "running" /\ phase' = phase
  BY <1>1 DEF PolicyArrivalWaits, ArrivalWaits, Pop
<1>3. b[p] = b[policy] /\ p \in F
  BY <1>1, <1>2, ArrivalInTurn
<1>4. QED
  BY <1>2, <1>3 DEF InTurn, Idle

\* The on_cpu_used of handle_time_slice.
LEMMA SliceInTurn ==
  ASSUME IInv, NumCores = 1, NEW P, NEW b, NEW F, NEW G, Contract(P), InContract(P),
         Alternates(P, b, F, G), InTurn(b, F),
         NEW e, Pop(e), Hits(e), NEW p, p = AfterSlice(e)
  PROVE  /\ p \in P /\ Ready(p) = queue /\ p \in G
         /\ e.core \in Cores /\ e.task \in Tasks /\ e.task \notin queue
<1>1. policy \in P /\ Ready(policy) = queue /\ policy \in F
  BY DEF InContract, InTurn
<1>2. e.core \in Cores /\ e.task \in Tasks /\ running[e.core] = e.task
  BY PopFacts DEF Hits
<1>3. running[e.core] # NoTask
  BY <1>2, NoTaskAssumption
<1>4. e.task \notin queue
  BY <1>2, <1>3, RunningTask
<1>5. p = CpuUsed(policy, running[e.core], Elapsed(e, e.core))
  BY <1>2 DEF AfterSlice
<1>6. running[e.core] \notin Ready(policy)
  BY <1>1, <1>2, <1>4
<1>7. p \in P /\ Ready(p) = Ready(policy) /\ p \in G
  BY <1>1, <1>2, <1>3, <1>5, <1>6, ChargedInTurn
<1>8. QED
  BY <1>1, <1>2, <1>4, <1>7

\* handle_time_slice, the task done.
LEMMA SliceCompletesInTurn ==
  ASSUME IInv, NumCores = 1, NEW P, NEW b, NEW F, NEW G, Contract(P), InContract(P),
         Alternates(P, b, F, G), InTurn(b, F), NEW e, PolicySliceCompletes(e)
  PROVE  InTurn(b, F)'
<1>1. PICK p : p = AfterSlice(e)
  OBVIOUS
<1>2. PICK tk : tk = [Charged(task, e.core, e.time) EXCEPT ![e.task] = Complete(@, e.time)]
  OBVIOUS
<1>3. /\ Pop(e) /\ Hits(e)
      /\ IsCompleted(Charged(task, e.core, e.time)[e.task])
      /\ DispatchNext(e, e.core, tk, queue, contextSwitches, Decided(p))
      /\ policy' = Dispatched(p)
  BY <1>1, <1>2 DEF PolicySliceCompletes, SliceCompletes
<1>4. p \in P /\ queue = Ready(p) /\ p \in G /\ e.core \in Cores
  BY <1>1, <1>3, SliceInTurn
<1>5. tk \in [Tasks -> TaskState]
  BY <1>2, <1>3, CompleteTimes
<1>6. HandlerTypes(e)
  BY <1>3, HandlerTyped
<1>7. QED
  BY <1>3, <1>4, <1>5, <1>6, DispatchedInTurn DEF HandlerTypes

\* handle_time_slice, the task to go on.
LEMMA SliceExpiresInTurn ==
  ASSUME IInv, NumCores = 1, NEW P, NEW b, NEW F, NEW G, Contract(P), InContract(P),
         Alternates(P, b, F, G), InTurn(b, F), NEW e, PolicySliceExpires(e)
  PROVE  InTurn(b, F)'
<1>1. PICK p0 : p0 = AfterSlice(e)
  OBVIOUS
<1>2. PICK p : p = AddedTo(p0, e.task)
  OBVIOUS
<1>3. PICK tk : tk = Requeued(Charged(task, e.core, e.time), e.core, e.time)
  OBVIOUS
<1>4. /\ Pop(e) /\ Hits(e)
      /\ DispatchNext(e, e.core, tk, queue \cup {e.task}, contextSwitches, Decided(p))
      /\ policy' = Dispatched(p)
  BY <1>1, <1>2, <1>3 DEF PolicySliceExpires, SliceExpires
<1>5. /\ p0 \in P /\ Ready(p0) = queue /\ p0 \in G
      /\ e.core \in Cores /\ e.task \in Tasks /\ e.task \notin queue
  BY <1>1, <1>4, SliceInTurn
<1>6. p \in P /\ queue \cup {e.task} = Ready(p) /\ p \in G
  BY <1>2, <1>5, AddedInTurn
<1>7. tk \in [Tasks -> TaskState]
  BY <1>3, <1>4, ExpireTimes
<1>8. HandlerTypes(e)
  BY <1>4, HandlerTyped
<1>9. QED
  BY <1>4, <1>5, <1>6, <1>7, <1>8, DispatchedInTurn DEF HandlerTypes

\* A step that changes neither what runs nor the policy.
LEMMA QuietInTurn ==
  ASSUME NEW b, NEW F, InTurn(b, F),
         policy' = policy, running' = running, lastEvent' = lastEvent,
         phase # "setup" /\ ~Idle(0) =>
           /\ phase' # "setup"
           /\ phase' = "running" =>
                /\ phase = "running"
                /\ \A s \in events :
                     s.type = "TIME_SLICE" /\ s.task = running[0] => s \in events'
  PROVE  InTurn(b, F)'
BY DEF InTurn, Idle

\* An event that is not the running task's.
LEMMA SliceIgnoredInTurn ==
  ASSUME IInv, NumCores = 1, NEW b, NEW F, InTurn(b, F),
         NEW e, SliceIgnored(e), policy' = policy
  PROVE  InTurn(b, F)'
<1>1. /\ Pop(e) /\ running[e.core] # e.task
      /\ running' = running /\ lastEvent' = lastEvent /\ events' = events \ {e}
      /\ phase = "running" /\ phase' = phase
  BY DEF SliceIgnored, Hits, Pop
<1>2. running[0] # e.task
  <2>1. e.core \in Cores /\ 0 \in Cores
    BY <1>1, PopFacts, CoresAssumption DEF Cores
  <2>2. e.core = 0
    BY <2>1, OnlyCore
  <2>3. QED
    BY <1>1, <2>2
<1>3. QED
  BY <1>1, <1>2, QuietInTurn

\* No step breaks the turn.
LEMMA StepInTurn ==
  ASSUME IInv, NumCores = 1, NEW P, NEW b, NEW F, NEW G, Contract(P), InContract(P),
         Alternates(P, b, F, G), InTurn(b, F), [PolicyNext]_policyVars
  PROVE  InTurn(b, F)'
<1>1. CASE \E e \in events, c \in Cores : PolicyArrivalToIdleCore(e, c)
  BY <1>1, ArrivalToIdleCoreInTurn
<1>2. CASE \E e \in events, c \in Cores : PolicyArrivalPreempts(e, c)
  BY <1>2, ArrivalPreemptsInTurn
<1>3. CASE \E e \in events : PolicyArrivalWaits(e)
  BY <1>3, ArrivalWaitsInTurn
<1>4. CASE \E e \in events : PolicySliceCompletes(e)
  BY <1>4, SliceCompletesInTurn
<1>5. CASE \E e \in events : PolicySliceExpires(e)
  BY <1>5, SliceExpiresInTurn
<1>6. CASE \E e \in events : SliceIgnored(e) /\ UNCHANGED policy
  BY <1>6, SliceIgnoredInTurn
<1>7. CASE \E e \in events : StopAtLimit(e) /\ UNCHANGED policy
  BY <1>7, QuietInTurn DEF StopAtLimit
<1>8. CASE \E t \in Tasks : AddTask(t) /\ UNCHANGED policy
  BY <1>8, QuietInTurn DEF AddTask
<1>9. CASE \E stop \in StopTimes : Run(stop) /\ UNCHANGED policy
  BY <1>9, QuietInTurn DEF Run
<1>10. CASE Drain /\ UNCHANGED policy
  BY <1>10, QuietInTurn DEF Drain
<1>11. CASE (Returned /\ UNCHANGED policy) \/ UNCHANGED policyVars
  BY <1>11, QuietInTurn DEF Returned, policyVars, vars
<1>12. QED
  BY <1>1, <1>2, <1>3, <1>4, <1>5, <1>6, <1>7, <1>8, <1>9, <1>10, <1>11 DEF PolicyNext

\* Nobody runs at first, and nobody is ready.
LEMMA InitInTurn ==
  ASSUME NEW P, NEW b, NEW F, NEW G, Contract(P), Alternates(P, b, F, G), NumCores = 1
  PROVE  PolicyInit => InContract(P) /\ InTurn(b, F)
<1>1. PolicyInit => InContract(P)
  BY PolicyInitFacts
<1>2. PolicyInit => Idle(0)
  <2>1. 0 \in Cores
    BY CoresAssumption DEF Cores
  <2>2. QED
    BY <2>1 DEF PolicyInit, Init, Idle
<1>3. PolicyInit => policy \in F
  BY DEF PolicyInit, Contract, Alternates
<1>4. QED
  BY <1>1, <1>2, <1>3 DEF InTurn

\* On one core, what holds of an object without ready tasks, survives arrivals,
\* is weakened by a charge of at most a slice and restored by the dispatch that
\* follows holds at every time.
THEOREM OneCoreAlternates ==
  ASSUME NEW P, NEW b, NEW F, NEW G, Contract(P), Alternates(P, b, F, G), NumCores = 1
  PROVE  PolicySpec => [](policy \in F)
<1>1. PolicyInit => InContract(P) /\ InTurn(b, F)
  BY InitInTurn
<1>2. IInv /\ InContract(P) /\ InTurn(b, F) /\ [PolicyNext]_policyVars
        => InContract(P)' /\ InTurn(b, F)'
  BY PolicyStepFacts, StepInTurn
<1>3. InTurn(b, F) => policy \in F
  BY DEF InTurn
<1>4. QED
  BY <1>1, <1>2, <1>3, PolicyInvariance, PTL DEF PolicySpec

-----------------------------------------------------------------------------
\* What the policies compute with.

\* A non-empty set of natural numbers has a least element.
LEMMA LeastNatural ==
  ASSUME NEW S \in SUBSET Nat, S # {}
  PROVE  \E x \in S : \A y \in S : x <= y
<1> DEFINE R == OpToRel(<, Nat)
<1>1. \A ss : ss \in R <=> ss \in Nat \X Nat /\ ss[1] < ss[2]
  BY DEF OpToRel
<1>2. IsWellFoundedOn(R, Nat)
  BY NatLessThanWellFounded
<1> HIDE DEF R
<1>3. PICK x \in S : \A y \in S : ~(<<y, x>> \in R)
  BY <1>2, WFMin
<1>4. ASSUME NEW y \in S
      PROVE  x <= y
  <2>1. x \in Nat /\ y \in Nat
    OBVIOUS
  <2>2. ~(y < x)
    BY <1>1, <1>3, <2>1
  <2>3. QED
    BY <2>1, <2>2
<1>5. QED
  BY <1>4

\* Min of a set of natural numbers.
LEMMA MinLeast ==
  ASSUME NEW S \in SUBSET Nat, S # {}
  PROVE  Min(S) \in S /\ \A y \in S : Min(S) <= y
  BY LeastNatural DEF Min

\* Max of two numbers.
LEMMA MaxOfTwo ==
  ASSUME NEW a \in Int, NEW b \in Int, NEW m, m = Max({a, b})
  PROVE  m \in {a, b} /\ a <= m /\ b <= m
<1>1. \E x \in {a, b} : \A y \in {a, b} : x >= y
  <2>1. a >= b \/ b >= a
    OBVIOUS
  <2>2. a >= a /\ b >= b
    OBVIOUS
  <2>3. QED BY <2>1, <2>2
<1>2. m \in {a, b} /\ \A y \in {a, b} : m >= y
  BY <1>1, Zenon DEF Max
<1>3. QED
  BY <1>2

\* The value g raised to the least value of f over S, as update_global_pass and
\* update_min_vruntime do.
Updated(S, f, g) == IF S = {} THEN g ELSE Max({g, Min({f[u] : u \in S})})

\* It is raised above no value of f.
LEMMA UpdatedFacts ==
  ASSUME NEW S, NEW f \in [Tasks -> Nat], S \subseteq Tasks, NEW g \in Nat,
         NEW h, h = Updated(S, f, g)
  PROVE  h \in Nat /\ \A u \in S : h = g \/ h <= f[u]
<1>1. CASE S = {}
  BY <1>1 DEF Updated
<1>2. CASE S # {}
  <2>1. PICK T : T = {f[u] : u \in S}
    OBVIOUS
  <2>2. PICK m : m = Min(T)
    OBVIOUS
  <2>3. h = Max({g, m})
    BY <1>2, <2>1, <2>2 DEF Updated
  <2>4. T \in SUBSET Nat /\ T # {} /\ \A u \in S : f[u] \in T /\ f[u] \in Nat
    BY <1>2, <2>1
  <2>5. m \in T /\ \A y \in T : m <= y
    BY <2>2, <2>4, MinLeast
  <2>6. m \in Nat
    BY <2>4, <2>5
  <2>7. h \in {g, m}
    BY <2>3, <2>6, MaxOfTwo
  <2>8. QED
    BY <2>4, <2>5, <2>6, <2>7
<1>3. QED
  BY <1>1, <1>2

=============================================================================
