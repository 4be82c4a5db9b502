----------------------- MODULE MultiCoreSimulator_proofs -----------------------
(***************************************************************************)
(* Proofs about the multi-queue simulator, for any finite workload, any    *)
(* number of cores, either balancer, stealing or not, and any schedulers.  *)
(*                                                                         *)
(* The elementary steps of SimulatorBase_proofs apply with the tasks of    *)
(* all queues as the ready tasks; what is added here is which queue they   *)
(* are in.                                                                 *)
(***************************************************************************)
EXTENDS MultiCoreSimulator, SimulatorBase_proofs, FiniteSetTheorems

\* The ready tasks of all queues.
All(q) == UNION {q[c] : c \in Cores}

\* No task is in two queues.
Apart(q) == \A b, c \in Cores : b # c => q[b] \cap q[c] = {}

IInv ==
  /\ balancer \in Balancers /\ stealing \in StealingModes
  /\ Sound(phase, stopTime, task, All(queue), running, lastEvent, completed, events, now)
  /\ queue \in [Cores -> SUBSET Tasks] /\ Apart(queue)
  /\ nextCore \in Cores
  /\ contextSwitches \in Nat /\ preemptions \in Nat /\ workSteals \in Nat
  /\ OwnQueueServed
  /\ NoIdleBesideLongQueue

\* The tasks of S are no other core's than c.
OnlyOf(c, S) == \A t \in S : \A b \in Cores : b # c => t \notin Home(b)

\* Core c is about to dispatch from queues q.  If another core idles beside it,
\* neither c, once it has taken a task, nor anyone else has a long queue.
NoLongQueue(c, q) ==
  stealing /\ balancer = "LeastLoaded" /\ (\E a \in Cores : a # c /\ running[a] = NoTask) =>
    Ready(q, c) <= 2 /\ \A b \in Cores : b # c => Ready(q, b) <= 1

\* The handler of e has reached task records tk, queues q and running tasks run,
\* and is about to call dispatch_next(c).
Freed(e, c, tk, q, run) ==
  /\ Consistent(tk, All(q), run, lastEvent, completed', events \ {e}, e.time)
  /\ Handled(task, All(queue), running, lastEvent, completed,
             tk, All(q), run, lastEvent, completed', e.time)
  /\ q \in [Cores -> SUBSET Tasks] /\ Apart(q)
  /\ run[c] = NoTask /\ \A b \in Cores : b # c => run[b] = running[b] /\ q[b] = queue[b]
  /\ queue[c] \subseteq q[c] /\ OnlyOf(c, q[c])
  /\ NoLongQueue(c, q)

\* The step is one of the pool.
Advances ==
  PoolStep(task, All(queue), running, lastEvent, completed, now,
           task', All(queue'), running', lastEvent', completed', now')

\* Task t is stolen by core c from core b.
Stolen(t, b, c) ==
  /\ stealing /\ workSteals' = workSteals + 1
  /\ queue[c] = {} /\ running'[c] = t
  /\ t \in queue[b] /\ queue'[b] # {}
  /\ \A a \in Cores : Ready(queue, a) <= Ready(queue, b)

Migrations ==
  \A b, c \in Cores : b # c => \A t \in Home(b) \cap Home(c)' : Stolen(t, b, c)

\* Core c has one more ready task in queues p than in queues q.
OneMore(c, p, q) == Ready(p, c) = Ready(q, c) + 1

\* Queues q with task t added to that of core c.
Added(q, c, t) == [q EXCEPT ![c] = @ \cup {t}]

\* From queues q to queues nq task t has become ready; it is not ready any more.
Joins(t, q, nq) == All(nq) = All(q) \cup {t}
Leaves(t, q, nq) == All(nq) = All(q) \ {t}

-----------------------------------------------------------------------------
\* Queues.

\* A task is ready if it is in some queue.
LEMMA AllIn ==
  ASSUME NEW q, NEW t
  PROVE  t \in All(q) <=> \E c \in Cores : t \in q[c]
BY DEF All

\* Queue lengths are natural numbers.
LEMMA ReadyNat ==
  ASSUME NEW q \in [Cores -> SUBSET Tasks], NEW c \in Cores
  PROVE  IsFiniteSet(q[c]) /\ Ready(q, c) \in Nat /\ (q[c] = {} <=> Ready(q, c) = 0)
<1>1. q[c] \in SUBSET Tasks
  OBVIOUS
<1>2. IsFiniteSet(q[c])
  BY <1>1, FS_Subset, FiniteWorkload
<1>3. QED
  BY <1>2, FS_CardinalityType, FS_EmptySet DEF Ready

\* Adding a task to core c's queue.
LEMMA Enqueue ==
  ASSUME NEW q \in [Cores -> SUBSET Tasks], Apart(q), NEW c \in Cores,
         NEW t \in Tasks, t \notin All(q),
         NEW nq, nq = Added(q, c, t)
  PROVE  /\ nq \in [Cores -> SUBSET Tasks] /\ Apart(nq)
         /\ Joins(t, q, nq)
         /\ nq[c] = q[c] \cup {t} /\ \A b \in Cores : b # c => nq[b] = q[b]
         /\ OneMore(c, nq, q)
<1>1. /\ nq \in [Cores -> SUBSET Tasks]
      /\ nq[c] = q[c] \cup {t} /\ \A b \in Cores : b # c => nq[b] = q[b]
  BY DEF Added
<1>2. \A b \in Cores : t \notin q[b]
  BY AllIn
<1>3. Apart(nq)
  <2> SUFFICES ASSUME NEW a \in Cores, NEW b \in Cores, a # b
               PROVE  nq[a] \cap nq[b] = {}
    BY DEF Apart
  <2>1. q[a] \cap q[b] = {} /\ t \notin q[a] /\ t \notin q[b]
    BY <1>2 DEF Apart
  <2>2. QED
    BY <1>1, <2>1
<1>4. ASSUME NEW x
      PROVE  x \in All(nq) <=> x \in All(q) \cup {t}
  BY <1>1, AllIn
<1>5. OneMore(c, nq, q)
  <2>1. IsFiniteSet(q[c]) /\ t \notin q[c]
    BY <1>2, ReadyNat
  <2>2. QED
    BY <1>1, <2>1, FS_AddElement DEF Ready, OneMore
<1>6. Joins(t, q, nq)
  BY <1>4 DEF Joins
<1>7. QED
  BY <1>1, <1>3, <1>5, <1>6

\* Taking a task from core b's queue.
LEMMA Dequeue ==
  ASSUME NEW q \in [Cores -> SUBSET Tasks], Apart(q), NEW b \in Cores,
         NEW t \in q[b],
         NEW nq, nq = [q EXCEPT ![b] = @ \ {t}]
  PROVE  /\ nq \in [Cores -> SUBSET Tasks] /\ Apart(nq)
         /\ Leaves(t, q, nq) /\ t \in All(q)
         /\ nq[b] = q[b] \ {t} /\ \A a \in Cores : a # b => nq[a] = q[a]
         /\ OneMore(b, q, nq)
<1>1. /\ nq \in [Cores -> SUBSET Tasks]
      /\ nq[b] = q[b] \ {t} /\ \A a \in Cores : a # b => nq[a] = q[a]
  OBVIOUS
<1>2. \A a \in Cores : a # b => t \notin q[a]
  BY DEF Apart
<1>3. Apart(nq)
  <2> SUFFICES ASSUME NEW a \in Cores, NEW c \in Cores, a # c
               PROVE  nq[a] \cap nq[c] = {}
    BY DEF Apart
  <2>1. q[a] \cap q[c] = {}
    BY DEF Apart
  <2>2. QED
    BY <1>1, <2>1
<1>4. ASSUME NEW x
      PROVE  x \in All(nq) <=> x \in All(q) \ {t}
  BY <1>1, <1>2, AllIn
<1>5. OneMore(b, q, nq)
  <2>1. IsFiniteSet(q[b]) /\ Ready(q, b) \in Nat
    BY ReadyNat
  <2>2. Ready(nq, b) = Ready(q, b) - 1
    BY <1>1, <2>1, FS_RemoveElement DEF Ready
  <2>3. QED
    BY <2>1, <2>2 DEF OneMore
<1>6. t \in All(q)
  BY AllIn
<1>7. Leaves(t, q, nq)
  BY <1>4 DEF Leaves
<1>8. QED
  BY <1>1, <1>3, <1>5, <1>6, <1>7

-----------------------------------------------------------------------------
\* dispatch_next and try_work_steal.

\* Where there is a core to steal from, there is a first one with the longest
\* queue: the search of find_busiest_core does not come back empty-handed.
LEMMA SomeBusiest ==
  ASSUME NEW c \in Cores, NEW q \in [Cores -> SUBSET Tasks],
         NEW v \in Victims(c, q)
  PROVE  \E b \in Cores : IsBusiest(b, c, q)
<1> DEFINE V == Victims(c, q)
           Before(a, b) == Ready(q, a) > Ready(q, b)
                             \/ (Ready(q, a) = Ready(q, b) /\ a < b)
           U(b) == {a \in V : Before(a, b)}
           T == {U(b) : b \in V}
<1>1. IsFiniteSet(Cores) /\ Cores \subseteq Nat /\ V \subseteq Cores
  BY FS_Interval, CoresAssumption DEF Cores, Victims
<1>2. ASSUME NEW b \in Cores
      PROVE  Ready(q, b) \in Nat
  BY FS_Subset, FS_CardinalityType, FiniteWorkload DEF Ready
<1>3. T \subseteq FiniteSubsetsOf(Cores)
  <2> SUFFICES ASSUME NEW b \in V
               PROVE  U(b) \in FiniteSubsetsOf(Cores)
    OBVIOUS
  <2>1. U(b) \in SUBSET Cores
    BY <1>1
  <2>2. IsFiniteSet(U(b))
    BY <1>1, <2>1, FS_Subset
  <2>3. QED
    BY <2>1, <2>2 DEF FiniteSubsetsOf
<1>4. U(v) \in T
  OBVIOUS
<1> HIDE DEF T
<1>5. PICK x \in T : \A y \in T : ~(<<y, x>> \in StrictSubsetOrdering(Cores))
  BY <1>3, <1>4, FS_StrictSubsetOrderingWellFounded, WFMin
<1>6. PICK b \in V : x = U(b)
  BY DEF T
<1>7. ASSUME NEW a \in V
      PROVE  ~Before(a, b)
  <2> SUFFICES ASSUME Before(a, b)
               PROVE  FALSE
    OBVIOUS
  <2>1. a \in Nat /\ b \in Nat /\ Ready(q, a) \in Nat /\ Ready(q, b) \in Nat
    BY <1>1, <1>2
  <2>2. a \in U(b) /\ a \notin U(a)
    BY <2>1
  <2>3. U(a) \subseteq U(b)
    <3> SUFFICES ASSUME NEW z \in V, Before(z, a)
                 PROVE  Before(z, b)
      OBVIOUS
    <3>1. z \in Nat /\ Ready(q, z) \in Nat
      BY <1>1, <1>2
    <3>2. QED
      BY <2>1, <3>1
  <2>4. U(a) \in SUBSET Cores /\ U(b) \in SUBSET Cores /\ U(a) \in T
    BY <1>1 DEF T
  <2> HIDE DEF U
  <2>5. <<U(a), U(b)>> \in StrictSubsetOrdering(Cores)
    BY <2>2, <2>3, <2>4 DEF StrictSubsetOrdering
  <2>6. QED
    BY <1>5, <1>6, <2>4, <2>5
<1>8. \A a \in V : Ready(q, a) < Ready(q, b) \/ (Ready(q, a) = Ready(q, b) /\ b <= a)
  <2> SUFFICES ASSUME NEW a \in V
               PROVE  Ready(q, a) < Ready(q, b) \/ (Ready(q, a) = Ready(q, b) /\ b <= a)
    OBVIOUS
  <2>1. a \in Nat /\ b \in Nat /\ Ready(q, a) \in Nat /\ Ready(q, b) \in Nat
    BY <1>1, <1>2
  <2>2. QED
    BY <1>7, <2>1
<1>9. QED
  BY <1>1, <1>8 DEF IsBusiest

\* A core supplies itself if it has a task, and is supplied by a core with more
\* than one otherwise.
LEMMA SuppliesFacts ==
  ASSUME NEW q \in [Cores -> SUBSET Tasks], NEW b \in Cores, NEW c \in Cores,
         Supplies(b, c, q), b # c
  PROVE  /\ q[c] = {} /\ stealing /\ Ready(q, b) > 1
         /\ \A a \in Cores : Ready(q, a) <= Ready(q, b)
<1>1. q[c] = {} /\ stealing /\ IsBusiest(b, c, q)
  BY DEF Supplies
<1>2. Ready(q, b) > 1
  BY <1>1 DEF IsBusiest, Victims
<1>3. ASSUME NEW a \in Cores
      PROVE  Ready(q, a) <= Ready(q, b)
  <2>1. Ready(q, a) \in Nat /\ Ready(q, b) \in Nat
    BY ReadyNat
  <2>2. CASE a \in Victims(c, q)
    BY <1>1, <2>1, <2>2 DEF IsBusiest
  <2>3. CASE a = c
    BY <1>1, <1>2, <2>1, <2>3, ReadyNat
  <2>4. CASE a # c /\ a \notin Victims(c, q)
    BY <1>2, <2>1, <2>4 DEF Victims
  <2>5. QED
    BY <2>2, <2>3, <2>4
<1>4. QED
  BY <1>1, <1>2, <1>3

\* If nobody supplies core c, it has no task, and if it may steal no queue is long.
LEMMA NobodySupplies ==
  ASSUME NEW q \in [Cores -> SUBSET Tasks], NEW c \in Cores,
         \A b \in Cores : ~Supplies(b, c, q)
  PROVE  q[c] = {} /\ (stealing => \A b \in Cores : Ready(q, b) <= 1)
<1>1. q[c] = {}
  BY DEF Supplies
<1>2. ASSUME stealing, NEW b \in Cores
      PROVE  Ready(q, b) <= 1
  <2>1. \A a \in Cores : ~IsBusiest(a, c, q)
    BY <1>1, <1>2 DEF Supplies
  <2>2. b \notin Victims(c, q)
    BY <2>1, SomeBusiest
  <2>3. Ready(q, b) \in Nat /\ Ready(q, c) = 0
    BY <1>1, ReadyNat
  <2>4. QED
    BY <2>2, <2>3 DEF Victims
<1>3. QED
  BY <1>1, <1>2

\* What is known when an event has been popped.
LEMMA PopFacts ==
  ASSUME IInv, NEW e, Pop(e)
  PROVE  /\ Consistent(task, All(queue), running, lastEvent, completed, events, now)
         /\ Sound("running", stopTime, task, All(queue), running, lastEvent, completed,
                  events, now)
         /\ phase' = "running" /\ stopTime' = stopTime /\ now' = e.time
         /\ balancer' = balancer /\ stealing' = stealing
         /\ e \in Earliest(events) /\ e.time <= stopTime /\ now <= e.time
         /\ e.task \in Tasks /\ e.core \in Cores
         /\ running \in [Cores -> Tasks \cup {NoTask}]
         /\ PlacesGood(task, All(queue), running, completed)
<1>1. phase = "running" /\ e \in Earliest(events) /\ e.time <= stopTime
  BY DEF Pop
<1>2. Sound("running", stopTime, task, All(queue), running, lastEvent, completed,
            events, now)
  BY <1>1 DEF IInv
<1>3. Consistent(task, All(queue), running, lastEvent, completed, events, now)
  BY <1>2 DEF Sound, Consistent
<1>4. Good(task, All(queue), running, lastEvent, completed, events, now)
  BY <1>3 DEF Consistent
<1>5. e.task \in Tasks /\ e.core \in Cores /\ now <= e.time
  BY <1>1, <1>4, EarliestFacts
<1>6. /\ running \in [Cores -> Tasks \cup {NoTask}]
      /\ PlacesGood(task, All(queue), running, completed)
  BY <1>4 DEF Good, TypesGood
<1>7. /\ phase' = "running" /\ stopTime' = stopTime /\ now' = e.time
      /\ balancer' = balancer /\ stealing' = stealing
  BY <1>1 DEF Pop, config
<1>8. QED
  BY <1>1, <1>2, <1>3, <1>5, <1>6, <1>7

\* A task is at home on one core at most.
LEMMA HomesApart ==
  ASSUME Apart(queue), PlacesGood(task, All(queue), running, completed),
         NEW b \in Cores, NEW c \in Cores, b # c
  PROVE  Home(b) \cap Home(c) = {}
<1>1. queue[b] \cap queue[c] = {}
  BY DEF Apart
<1>2. running[b] = running[c] => running[b] = NoTask
  BY DEF PlacesGood
<1>3. running[b] \notin queue[c] /\ running[c] \notin queue[b]
  BY AllIn DEF PlacesGood
<1>4. QED
  BY <1>1, <1>2, <1>3 DEF Home

\* A handler that leaves the simulation consistent and the queues in order
\* preserves the invariant and is a step of the pool.
LEMMA HandlerInv ==
  ASSUME IInv, NEW e, Pop(e),
         Consistent(task', All(queue'), running', lastEvent', completed', events', e.time),
         Handled(task, All(queue), running, lastEvent, completed,
                 task', All(queue'), running', lastEvent', completed', e.time),
         queue' \in [Cores -> SUBSET Tasks], Apart(queue'),
         nextCore' \in Cores,
         contextSwitches' \in Nat, preemptions' \in Nat, workSteals' \in Nat,
         OwnQueueServed', NoIdleBesideLongQueue'
  PROVE  IInv' /\ Advances
<1>1. /\ Sound("running", stopTime, task, All(queue), running, lastEvent, completed,
               events, now)
      /\ phase' = "running" /\ stopTime' = stopTime /\ now' = e.time
      /\ balancer' = balancer /\ stealing' = stealing
      /\ e.time <= stopTime /\ now <= e.time
  BY PopFacts
<1>2. Sound("running", stopTime, task', All(queue'), running', lastEvent', completed',
            events', e.time)
  BY <1>1, SoundHandled
<1>3. Sound(phase', stopTime', task', All(queue'), running', lastEvent', completed',
            events', now')
  BY <1>1, <1>2
<1>4. balancer' \in Balancers /\ stealing' \in StealingModes
  BY <1>1 DEF IInv
<1>5. Apart(queue)' /\ All(queue)' = All(queue')
  BY DEF Apart, All
<1>6. IInv'
  BY <1>3, <1>4, <1>5 DEF IInv
<1>7. /\ Good(task, All(queue), running, lastEvent, completed, events, now)
      /\ Good(task', All(queue'), running', lastEvent', completed', events', e.time)
  BY <1>1 DEF Sound, Consistent
<1>8. PoolStep(task, All(queue), running, lastEvent, completed, now,
               task', All(queue'), running', lastEvent', completed', e.time)
  BY <1>1, <1>7, ConsistentChargeable, HandlerPoolStep
<1>9. Advances
  BY <1>1, <1>8 DEF Advances
<1>10. QED
  BY <1>6, <1>9

\* Task t of core b's queue is dispatched on core c: which tasks moved.
LEMMA DispatchMigrates ==
  ASSUME IInv, NEW e, Pop(e), NEW b \in Cores, NEW c \in Cores,
         NEW tk, NEW q, NEW run, Freed(e, c, tk, q, run),
         Supplies(b, c, q), NEW t \in q[b],
         queue' = [q EXCEPT ![b] = @ \ {t}],
         running' = [run EXCEPT ![c] = t],
         run \in [Cores -> Tasks \cup {NoTask}],
         workSteals' = IF b = c THEN workSteals ELSE workSteals + 1
  PROVE  Migrations
<1>1. /\ q \in [Cores -> SUBSET Tasks] /\ Apart(q) /\ Apart(queue)
      /\ queue \in [Cores -> SUBSET Tasks]
      /\ PlacesGood(task, All(queue), running, completed)
      /\ \A a \in Cores : a # c => run[a] = running[a] /\ q[a] = queue[a]
      /\ queue[c] \subseteq q[c] /\ OnlyOf(c, q[c])
  BY PopFacts DEF IInv, Freed
<1>2. /\ queue'[b] = q[b] \ {t} /\ \A a \in Cores : a # b => queue'[a] = q[a]
      /\ queue'[c] \subseteq q[c]
      /\ running'[c] = t /\ \A a \in Cores : a # c => running'[a] = run[a]
  BY <1>1
<1> SUFFICES ASSUME NEW y \in Cores, NEW x \in Cores, y # x,
                    NEW z \in Home(y), z \in Home(x)'
             PROVE  Stolen(z, y, x)
  BY DEF Migrations
<1>3. z \in queue'[x] \/ (z = running'[x] /\ z # NoTask)
  BY DEF Home
<1>4. x = c
  <2> SUFFICES ASSUME x # c
               PROVE  FALSE
    OBVIOUS
  <2>1. queue'[x] \subseteq queue[x] /\ running'[x] = running[x]
    BY <1>1, <1>2
  <2>2. z \in Home(x)
    BY <1>3, <2>1 DEF Home
  <2>3. QED
    BY <1>1, <2>2, HomesApart
<1>5. z \notin q[c]
  BY <1>1, <1>4 DEF OnlyOf
<1>6. z = t /\ b # c
  BY <1>2, <1>3, <1>4, <1>5
<1>7. /\ q[c] = {} /\ stealing /\ Ready(q, b) > 1
      /\ \A a \in Cores : Ready(q, a) <= Ready(q, b)
  BY <1>1, <1>6, SuppliesFacts
<1>8. queue[c] = {} /\ q = queue
  BY <1>1, <1>7
<1>9. y = b
  <2>1. z \in Home(b)
    BY <1>6, <1>8 DEF Home
  <2>2. QED
    BY <1>1, <2>1, HomesApart
<1>10. queue'[b] # {}
  <2>1. queue' \in [Cores -> SUBSET Tasks]
    BY <1>1, <1>2
  <2>2. OneMore(b, q, queue')
    BY <1>1, Dequeue
  <2>3. Ready(q, b) \in Nat /\ Ready(queue', b) \in Nat
    BY <1>1, <2>1, ReadyNat
  <2>4. Ready(queue', b) # 0
    BY <1>7, <2>2, <2>3 DEF OneMore
  <2>5. QED
    BY <2>1, <2>4, ReadyNat
<1>11. QED
  BY <1>2, <1>4, <1>6, <1>7, <1>8, <1>9, <1>10 DEF Stolen

\* What Freed says, in the terms of the lemmas that need it.
LEMMA FreedFacts ==
  ASSUME NEW e, NEW c \in Cores, NEW tk, NEW q, NEW run, Freed(e, c, tk, q, run)
  PROVE  /\ Consistent(tk, All(q), run, lastEvent, completed', events \ {e}, e.time)
         /\ Handled(task, All(queue), running, lastEvent, completed,
                    tk, All(q), run, lastEvent, completed', e.time)
         /\ run \in [Cores -> Tasks \cup {NoTask}]
         /\ q \in [Cores -> SUBSET Tasks] /\ Apart(q)
         /\ run[c] = NoTask
         /\ \A b \in Cores : b # c => run[b] = running[b] /\ q[b] = queue[b]
BY DEF Freed, Consistent, Good, TypesGood

\* dispatch_next with a core that supplies it takes a task of that core's queue,
\* one of the ready tasks.
LEMMA DispatchFacts ==
  ASSUME NEW e, NEW b \in Cores, NEW c \in Cores, NEW tk, NEW q, NEW run,
         NEW d \in Decisions(q[b]),
         running \in [Cores -> Tasks \cup {NoTask}],
         run \in [Cores -> Tasks \cup {NoTask}],
         q \in [Cores -> SUBSET Tasks], Apart(q),
         run[c] = NoTask, \A a \in Cores : a # c => run[a] = running[a],
         Dispatch(e, b, c, tk, q, d)
  PROVE  /\ d.task \in q[b] /\ d.slice \in Nat
         /\ queue' = [q EXCEPT ![b] = @ \ {d.task}]
         /\ running' = [run EXCEPT ![c] = d.task]
         /\ DispatchStep(tk, All(q), run, lastEvent, events \ {e}, c, d.task, d.slice,
                         e.time, task', All(queue'), running', lastEvent',
                         SliceEnd(tk[d.task], d.slice, e.time), events')
<1>1. d.task \in q[b] /\ d.slice \in Nat
  BY SliceAssumption DEF Decisions
<1>2. /\ task' = [tk EXCEPT ![d.task] = Start(MarkDispatched(@, e.time), e.time)]
      /\ queue' = [q EXCEPT ![b] = @ \ {d.task}]
      /\ running' = [running EXCEPT ![c] = d.task]
      /\ lastEvent' = [lastEvent EXCEPT ![c] = e.time]
      /\ events' = (events \ {e}) \cup
             {SliceEvent(d.task, SliceEnd(tk[d.task], d.slice, e.time), c,
                         tk[d.task].preemptions)}
  BY DEF Dispatch
<1>3. running' = [run EXCEPT ![c] = d.task]
  BY <1>2
<1>4. All(queue') = All(q) \ {d.task}
  <2>1. PICK t \in q[b] : t = d.task
    BY <1>1
  <2>2. PICK nq : nq = queue'
    OBVIOUS
  <2>3. nq = [q EXCEPT ![b] = @ \ {t}]
    BY <1>2, <2>1, <2>2
  <2>4. Leaves(t, q, nq)
    BY <2>3, Dequeue
  <2>5. QED
    BY <2>1, <2>2, <2>4 DEF Leaves
<1>5. QED
  BY <1>1, <1>2, <1>3, <1>4 DEF DispatchStep

\* The core that takes a task leaves no core idle beside a long queue, and none
\* with a task of its own.
LEMMA DispatchServes ==
  ASSUME IInv, NEW e, Pop(e), NEW b \in Cores, NEW c \in Cores,
         NEW tk, NEW q, NEW run, Freed(e, c, tk, q, run),
         Supplies(b, c, q), NEW t \in q[b],
         queue' = [q EXCEPT ![b] = @ \ {t}],
         running' = [run EXCEPT ![c] = t]
  PROVE  OwnQueueServed' /\ NoIdleBesideLongQueue'
<1>1. /\ q \in [Cores -> SUBSET Tasks] /\ Apart(q)
      /\ run \in [Cores -> Tasks \cup {NoTask}]
      /\ \A a \in Cores : a # c => run[a] = running[a] /\ q[a] = queue[a]
  BY DEF Freed, Consistent, Good, TypesGood
<1>2. /\ queue'[b] = q[b] \ {t} /\ \A a \in Cores : a # b => queue'[a] = q[a]
      /\ running'[c] = t /\ \A a \in Cores : a # c => running'[a] = run[a]
      /\ t # NoTask
  <2>1. t \in Tasks
    BY <1>1
  <2>2. QED
    BY <1>1, <2>1, NoTaskAssumption
<1>3. OwnQueueServed'
  <2> SUFFICES ASSUME NEW a \in Cores, running'[a] = NoTask
               PROVE  queue'[a] = {}
    BY DEF OwnQueueServed, Idle
  <2>1. a # c /\ running[a] = NoTask
    BY <1>1, <1>2
  <2>2. queue[a] = {}
    BY <2>1 DEF IInv, OwnQueueServed, Idle
  <2>3. q[a] = {}
    BY <1>1, <2>1, <2>2
  <2>4. QED
    BY <1>2, <2>3
<1>4. NoIdleBesideLongQueue'
  <2> SUFFICES ASSUME stealing, balancer = "LeastLoaded",
                      NEW a \in Cores, running'[a] = NoTask, NEW x \in Cores
               PROVE  Ready(queue', x) <= 1
    BY PopFacts DEF NoIdleBesideLongQueue, Idle
  <2>1. a # c /\ running[a] = NoTask
    BY <1>1, <1>2
  <2>2. Ready(q, c) <= 2 /\ \A y \in Cores : y # c => Ready(q, y) <= 1
    BY <2>1 DEF Freed, NoLongQueue
  <2>3. b = c
    <3> SUFFICES ASSUME b # c
                 PROVE  FALSE
      OBVIOUS
    <3>1. Ready(q, b) > 1
      BY <1>1, SuppliesFacts
    <3>2. Ready(q, b) <= 1 /\ Ready(q, b) \in Nat
      BY <1>1, <2>2, ReadyNat
    <3>3. QED
      BY <3>1, <3>2
  <2>4. CASE x = c
    <3>1. OneMore(b, q, queue')
      BY <1>1, Dequeue
    <3>2. queue' \in [Cores -> SUBSET Tasks]
      BY <1>1
    <3>3. Ready(q, b) \in Nat /\ Ready(queue', b) \in Nat
      BY <1>1, <3>2, ReadyNat
    <3>4. Ready(q, b) <= 2 /\ x = b
      BY <2>2, <2>3, <2>4
    <3>5. QED
      BY <3>1, <3>3, <3>4 DEF OneMore
  <2>5. CASE x # c
    <3>1. Ready(queue', x) = Ready(q, x)
      BY <1>2, <2>3, <2>5 DEF Ready
    <3>2. QED
      BY <2>2, <2>5, <3>1
  <2>6. QED
    BY <2>4, <2>5
<1>5. QED
  BY <1>3, <1>4

\* The handler ends with the dispatch of a task, of core c's own or stolen.
LEMMA HandlerDispatches ==
  ASSUME IInv, NEW e, Pop(e), NEW b \in Cores, NEW c \in Cores,
         NEW tk, NEW q, NEW run, Freed(e, c, tk, q, run),
         NEW d \in Decisions(q[b]), Supplies(b, c, q), Dispatch(e, b, c, tk, q, d),
         workSteals' = (IF b = c THEN workSteals ELSE workSteals + 1),
         contextSwitches' \in Nat, preemptions' \in Nat, nextCore' \in Cores
  PROVE  IInv' /\ Advances /\ Migrations
<1>1. /\ Consistent(tk, All(q), run, lastEvent, completed', events \ {e}, e.time)
      /\ Handled(task, All(queue), running, lastEvent, completed,
                 tk, All(q), run, lastEvent, completed', e.time)
      /\ run \in [Cores -> Tasks \cup {NoTask}]
      /\ q \in [Cores -> SUBSET Tasks] /\ Apart(q)
      /\ run[c] = NoTask
      /\ \A a \in Cores : a # c => run[a] = running[a] /\ q[a] = queue[a]
  BY DEF Freed, Consistent, Good, TypesGood
<1>2. /\ d.task \in q[b] /\ d.slice \in Nat
      /\ queue' = [q EXCEPT ![b] = @ \ {d.task}]
      /\ running' = [run EXCEPT ![c] = d.task]
      /\ DispatchStep(tk, All(q), run, lastEvent, events \ {e}, c, d.task, d.slice,
                      e.time, task', All(queue'), running', lastEvent',
                      SliceEnd(tk[d.task], d.slice, e.time), events')
  <2>1. running \in [Cores -> Tasks \cup {NoTask}]
    BY PopFacts
  <2>2. \A a \in Cores : a # c => run[a] = running[a]
    BY <1>1
  <2>3. QED
    BY <1>1, <2>1, <2>2, DispatchFacts
<1>3. PICK t \in q[b] : t = d.task
  BY <1>2
<1>4. PICK s \in Nat : s = d.slice
  BY <1>2
<1>5. /\ queue' = [q EXCEPT ![b] = @ \ {t}]
      /\ running' = [run EXCEPT ![c] = t]
  BY <1>2, <1>3
<1>6. t \in All(q)
  BY AllIn
<1>7. /\ Consistent(task', All(queue'), running', lastEvent', completed', events', e.time)
      /\ Moves({}, {}, tk, All(q), run, lastEvent, completed',
               task', All(queue'), running', lastEvent', completed', e.time)
  <2>1. DispatchStep(tk, All(q), run, lastEvent, events \ {e}, c, t, s,
                     e.time, task', All(queue'), running', lastEvent',
                     SliceEnd(tk[d.task], d.slice, e.time), events')
    BY <1>2, <1>3, <1>4
  <2>2. QED
    BY <1>1, <1>6, <2>1, DispatchConsistent
<1>8. Handled(task, All(queue), running, lastEvent, completed,
              task', All(queue'), running', lastEvent', completed', e.time)
  BY <1>1, <1>7, HandledThen
<1>9. OwnQueueServed' /\ NoIdleBesideLongQueue'
  BY <1>5, DispatchServes
<1>10. Migrations
  BY <1>1, <1>5, DispatchMigrates
<1>11. queue' \in [Cores -> SUBSET Tasks] /\ Apart(queue')
  <2>1. PICK nq : nq = queue'
    OBVIOUS
  <2>2. nq = [q EXCEPT ![b] = @ \ {t}]
    BY <1>5, <2>1
  <2>3. nq \in [Cores -> SUBSET Tasks] /\ Apart(nq)
    BY <1>1, <2>2, Dequeue
  <2>4. QED
    BY <2>1, <2>3
<1>12. workSteals' \in Nat
  BY DEF IInv
<1>13. IInv' /\ Advances
  BY <1>7, <1>8, <1>9, <1>11, <1>12, HandlerInv
<1>14. QED
  BY <1>10, <1>13

\* The handler ends with core c idle.
LEMMA HandlerIdles ==
  ASSUME IInv, NEW e, Pop(e), NEW c \in Cores,
         NEW tk, NEW q, NEW run, Freed(e, c, tk, q, run),
         \A b \in Cores : ~Supplies(b, c, q),
         task' = tk, queue' = q, running' = [running EXCEPT ![c] = NoTask],
         events' = events \ {e}, lastEvent' = lastEvent, workSteals' = workSteals,
         contextSwitches' \in Nat, preemptions' \in Nat, nextCore' \in Cores
  PROVE  IInv' /\ Advances /\ Migrations
<1>1. /\ Consistent(tk, All(q), run, lastEvent, completed', events \ {e}, e.time)
      /\ Handled(task, All(queue), running, lastEvent, completed,
                 tk, All(q), run, lastEvent, completed', e.time)
      /\ run \in [Cores -> Tasks \cup {NoTask}]
      /\ q \in [Cores -> SUBSET Tasks] /\ Apart(q)
      /\ run[c] = NoTask
      /\ \A a \in Cores : a # c => run[a] = running[a] /\ q[a] = queue[a]
  BY DEF Freed, Consistent, Good, TypesGood
<1>2. /\ running \in [Cores -> Tasks \cup {NoTask}]
      /\ PlacesGood(task, All(queue), running, completed)
      /\ balancer' = balancer /\ stealing' = stealing
  BY PopFacts
<1>3. running' = run
  BY <1>1, <1>2
<1>4. q[c] = {} /\ (stealing => \A b \in Cores : Ready(q, b) <= 1)
  BY <1>1, NobodySupplies
<1>5. OwnQueueServed'
  <2> SUFFICES ASSUME NEW a \in Cores, run[a] = NoTask
               PROVE  q[a] = {}
    BY <1>3 DEF OwnQueueServed, Idle
  <2>1. CASE a # c
    BY <1>1, <2>1 DEF IInv, OwnQueueServed, Idle
  <2>2. QED
    BY <1>4, <2>1
<1>6. NoIdleBesideLongQueue'
  BY <1>2, <1>4 DEF NoIdleBesideLongQueue
<1>7. Migrations
  <2> SUFFICES ASSUME NEW y \in Cores, NEW x \in Cores, y # x,
                      NEW z \in Home(y), z \in Home(x)'
               PROVE  FALSE
    BY DEF Migrations
  <2>1. z \in q[x] \/ (z = run[x] /\ z # NoTask)
    BY <1>3 DEF Home
  <2>2. x # c
    BY <1>1, <1>4, <2>1
  <2>3. z \in Home(x)
    BY <1>1, <2>1, <2>2 DEF Home
  <2>4. Apart(queue)
    BY DEF IInv
  <2>5. QED
    BY <1>2, <2>3, <2>4, HomesApart
<1>8. /\ Consistent(task', All(queue'), running', lastEvent', completed', events', e.time)
      /\ Handled(task, All(queue), running, lastEvent, completed,
                 task', All(queue'), running', lastEvent', completed', e.time)
  BY <1>1, <1>3
<1>9. queue' \in [Cores -> SUBSET Tasks] /\ Apart(queue')
  BY <1>1
<1>10. workSteals' \in Nat
  BY DEF IInv
<1>11. IInv' /\ Advances
  BY <1>5, <1>6, <1>8, <1>9, <1>10, HandlerInv
<1>12. QED
  BY <1>7, <1>11

\* The handler of e has freed core c and calls dispatch_next(c).
LEMMA HandlerEnds ==
  ASSUME IInv, NEW e, Pop(e), NEW c \in Cores,
         NEW tk, NEW q, NEW run, NEW k \in Nat, Freed(e, c, tk, q, run),
         DispatchNext(e, c, tk, q, k),
         preemptions' \in Nat, nextCore' \in Cores
  PROVE  IInv' /\ Advances /\ Migrations
<1>1. CASE \E b \in Cores : \E d \in Decisions(q[b]) :
             /\ Supplies(b, c, q)
             /\ Dispatch(e, b, c, tk, q, d)
             /\ contextSwitches' = k + 1
             /\ workSteals' = IF b = c THEN workSteals ELSE workSteals + 1
  <2>1. PICK b \in Cores : \E d \in Decisions(q[b]) :
          /\ Supplies(b, c, q)
          /\ Dispatch(e, b, c, tk, q, d)
          /\ contextSwitches' = k + 1
          /\ workSteals' = IF b = c THEN workSteals ELSE workSteals + 1
    BY <1>1
  <2>2. PICK d \in Decisions(q[b]) :
          /\ Supplies(b, c, q)
          /\ Dispatch(e, b, c, tk, q, d)
          /\ contextSwitches' = k + 1
          /\ workSteals' = IF b = c THEN workSteals ELSE workSteals + 1
    BY <2>1
  <2>3. contextSwitches' \in Nat
    BY <2>2
  <2>4. workSteals' = (IF b = c THEN workSteals ELSE workSteals + 1)
    BY <2>2
  <2>5. QED
    BY <2>2, <2>3, <2>4, HandlerDispatches
<1>2. CASE /\ \A b \in Cores : ~Supplies(b, c, q)
           /\ task' = tk
           /\ queue' = q
           /\ running' = [running EXCEPT ![c] = NoTask]
           /\ events' = events \ {e}
           /\ contextSwitches' = k
           /\ UNCHANGED <<lastEvent, workSteals>>
  BY <1>2, HandlerIdles
<1>3. QED
  BY <1>1, <1>2 DEF DispatchNext

-----------------------------------------------------------------------------
\* What the handlers know about the queues.

\* Tasks at home on core c, or nowhere, are no other core's.
LEMMA HomeOnly ==
  ASSUME Apart(queue), PlacesGood(task, All(queue), running, completed),
         NEW c \in Cores, NEW S,
         \A x \in S : x \in Home(c) \/ \A b \in Cores : x \notin Home(b)
  PROVE  OnlyOf(c, S)
<1> SUFFICES ASSUME NEW x \in S, NEW b \in Cores, b # c, x \in Home(b)
             PROVE  FALSE
  BY DEF OnlyOf
<1>1. x \in Home(c)
  OBVIOUS
<1>2. QED
  BY <1>1, HomesApart

\* A core that queues at most one more task leaves no long queue beside an idle
\* core.
LEMMA ShortQueues ==
  ASSUME IInv, NEW c \in Cores, NEW q \in [Cores -> SUBSET Tasks],
         q = queue \/ OneMore(c, q, queue),
         \A b \in Cores : b # c => q[b] = queue[b]
  PROVE  NoLongQueue(c, q)
<1> SUFFICES ASSUME stealing, balancer = "LeastLoaded",
                    NEW a \in Cores, running[a] = NoTask
             PROVE  Ready(q, c) <= 2 /\ \A b \in Cores : b # c => Ready(q, b) <= 1
  BY DEF NoLongQueue
<1>1. \A b \in Cores : Ready(queue, b) <= 1
  BY DEF IInv, NoIdleBesideLongQueue, Idle
<1>2. Ready(q, c) \in Nat /\ Ready(queue, c) \in Nat
  BY ReadyNat DEF IInv
<1>3. Ready(q, c) <= 2
  <2>1. Ready(queue, c) <= 1
    BY <1>1
  <2>2. CASE q = queue
    BY <1>2, <2>1, <2>2
  <2>3. CASE OneMore(c, q, queue)
    BY <1>2, <2>1, <2>3 DEF OneMore
  <2>4. QED
    BY <2>2, <2>3
<1>4. ASSUME NEW b \in Cores, b # c
      PROVE  Ready(q, b) <= 1
  <2>1. Ready(q, b) = Ready(queue, b)
    BY <1>4 DEF Ready
  <2>2. QED
    BY <1>1, <2>1
<1>5. QED
  BY <1>3, <1>4

\* Either balancer answers a core, and the least-loaded one none that is busier
\* than another.
LEMMA AssignedFacts ==
  ASSUME IInv, NEW c \in Cores, Assigned(c)
  PROVE  /\ nextCore' \in Cores
         /\ balancer = "LeastLoaded" => \A b \in Cores : Load(c) <= Load(b)
<1>1. nextCore \in 0 .. NumCores - 1 /\ NumCores \in Nat \ {0}
  BY CoresAssumption DEF IInv, Cores
<1>2. (nextCore + 1) % NumCores \in 0 .. NumCores - 1
  BY <1>1
<1>3. nextCore' \in Cores
  BY <1>1, <1>2 DEF Assigned, Cores
<1>4. ASSUME NEW b \in Cores
      PROVE  Load(b) \in Nat
  BY ReadyNat DEF Load, IInv
<1>5. ASSUME balancer = "LeastLoaded", NEW b \in Cores
      PROVE  Load(c) <= Load(b)
  <2>1. Load(c) \in Nat /\ Load(b) \in Nat
    BY <1>4
  <2>2. Load(c) < Load(b) \/ Load(c) = Load(b)
    BY <1>5 DEF Assigned
  <2>3. QED
    BY <2>1, <2>2
<1>6. QED
  BY <1>3, <1>5

\* If the least-loaded balancer has chosen a busy core, every core is busy.
LEMMA NoneIdle ==
  ASSUME IInv, NEW c \in Cores, Assigned(c), running[c] # NoTask,
         balancer = "LeastLoaded", NEW a \in Cores
  PROVE  running[a] # NoTask
<1> SUFFICES ASSUME running[a] = NoTask
             PROVE  FALSE
  OBVIOUS
<1>1. queue[a] = {} /\ queue \in [Cores -> SUBSET Tasks]
  BY DEF IInv, OwnQueueServed, Idle
<1>2. Ready(queue, a) = 0 /\ Ready(queue, c) \in Nat
  BY <1>1, ReadyNat
<1>3. Load(a) = 0
  BY <1>2 DEF Load, Idle
<1>4. Load(c) = Ready(queue, c) + 1
  BY DEF Load, Idle
<1>5. Load(c) <= Load(a)
  BY AssignedFacts
<1>6. QED
  BY <1>2, <1>3, <1>4, <1>5

\* The arriving task is ready on core c, and nothing else has changed.
LEMMA ArrivalFacts ==
  ASSUME IInv, NEW e, Pop(e), e.type = "ARRIVAL", NEW c \in Cores,
         NEW q, q = Enqueued(c, {e.task})
  PROVE  /\ Consistent(Arrived(e), All(q), running, lastEvent, completed,
                       events \ {e}, e.time)
         /\ Handled(task, All(queue), running, lastEvent, completed,
                    Arrived(e), All(q), running, lastEvent, completed, e.time)
         /\ q \in [Cores -> SUBSET Tasks] /\ Apart(q) /\ OneMore(c, q, queue)
         /\ \A b \in Cores : e.task \notin Home(b)
<1> DEFINE tk == Arrived(e)
<1>1. /\ Consistent(task, All(queue), running, lastEvent, completed, events, now)
      /\ e \in Earliest(events) /\ e.task \in Tasks
  BY PopFacts
<1>2. PICK t \in Tasks : t = e.task
  BY <1>1
<1>3. q = Added(queue, c, t)
  BY <1>2 DEF Enqueued, Added
<1>4. NotArrived(t, All(queue), running, completed)
  <2>1. Good(task, All(queue), running, lastEvent, completed, events, now)
    BY <1>1 DEF Consistent
  <2>2. e \in events
    BY <1>1 DEF Earliest
  <2>3. QED
    BY <1>2, <2>1, <2>2 DEF Good, EventsGood
<1>5. /\ q \in [Cores -> SUBSET Tasks] /\ Apart(q) /\ OneMore(c, q, queue)
      /\ Joins(t, queue, q)
  <2>1. queue \in [Cores -> SUBSET Tasks] /\ Apart(queue) /\ t \notin All(queue)
    BY <1>4 DEF IInv, NotArrived
  <2>2. QED
    BY <1>3, <2>1, Enqueue
<1>6. ArriveStep(task, All(queue), t, e.time, tk, All(q))
  BY <1>2, <1>5 DEF ArriveStep, Arrived, Joins
<1> HIDE DEF tk
<1>7. /\ Consistent(tk, All(q), running, lastEvent, completed, events \ {e}, e.time)
      /\ Moves({t}, {}, task, All(queue), running, lastEvent, completed,
               tk, All(q), running, lastEvent, completed, e.time)
      /\ DueAt(t, task, e.time)
  BY <1>1, <1>2, <1>6, ArrivalConsistent
<1>8. \A y \in {t} : task[y].arrival = e.time /\ y \notin completed
  BY <1>4, <1>7 DEF NotArrived, DueAt
<1>9. \A y \in {} : \E b \in Cores : running[b] = y
  OBVIOUS
<1>10. Handled(task, All(queue), running, lastEvent, completed,
               tk, All(q), running, lastEvent, completed, e.time)
  BY <1>7, <1>8, <1>9, MovesHandled
<1>11. \A b \in Cores : t \notin Home(b)
  BY <1>4, AllIn DEF NotArrived, Home
<1>12. QED
  BY <1>2, <1>5, <1>7, <1>10, <1>11 DEF tk

-----------------------------------------------------------------------------
\* The handlers.

\* handle_arrival, the assigned core idle.
LEMMA ArrivalToIdleCoreInv ==
  ASSUME IInv, NEW e, NEW c \in Cores, ArrivalToIdleCore(e, c)
  PROVE  IInv' /\ Advances /\ Migrations
<1> DEFINE tk == Arrived(e)
           q == Enqueued(c, {e.task})
<1>1. /\ Pop(e) /\ e.type = "ARRIVAL" /\ running[c] = NoTask /\ Assigned(c)
      /\ DispatchNext(e, c, tk, q, contextSwitches)
      /\ completed' = completed /\ preemptions' = preemptions
  BY DEF ArrivalToIdleCore, Idle
<1> HIDE DEF q
<1>2. q = Enqueued(c, {e.task})
  BY DEF q
<1>3. /\ Consistent(tk, All(q), running, lastEvent, completed, events \ {e}, e.time)
      /\ Handled(task, All(queue), running, lastEvent, completed,
                 tk, All(q), running, lastEvent, completed, e.time)
      /\ q \in [Cores -> SUBSET Tasks] /\ Apart(q) /\ OneMore(c, q, queue)
      /\ q[c] = queue[c] \cup {e.task}
      /\ \A b \in Cores : b # c => q[b] = queue[b]
      /\ \A b \in Cores : e.task \notin Home(b)
  <2>1. Pop(e) /\ e.type = "ARRIVAL"
    BY <1>1
  <2>2. q = Enqueued(c, {e.task})
    BY <1>2
  <2>3. /\ q[c] = queue[c] \cup {e.task}
        /\ \A b \in Cores : b # c => q[b] = queue[b]
    BY <2>2 DEF IInv, Enqueued
  <2>4. QED
    BY <2>1, <2>2, <2>3, ArrivalFacts
<1> HIDE DEF tk
<1>4. OnlyOf(c, q[c])
  <2>1. Apart(queue) /\ PlacesGood(task, All(queue), running, completed)
    BY <1>1, PopFacts DEF IInv
  <2>2. \A x \in q[c] : x \in Home(c) \/ \A b \in Cores : x \notin Home(b)
    BY <1>3 DEF Home
  <2>3. QED
    BY <2>1, <2>2, HomeOnly
<1>5. NoLongQueue(c, q)
  BY <1>3, ShortQueues
<1>6. Freed(e, c, tk, q, running)
  BY <1>1, <1>3, <1>4, <1>5 DEF Freed
<1>7. contextSwitches \in Nat /\ preemptions' \in Nat /\ nextCore' \in Cores
  BY <1>1, AssignedFacts DEF IInv
<1>8. QED
  BY <1>1, <1>6, <1>7, HandlerEnds

\* handle_arrival, the task of the assigned core preempted.
LEMMA ArrivalPreemptsInv ==
  ASSUME IInv, NEW e, NEW c \in Cores, ArrivalPreempts(e, c)
  PROVE  IInv' /\ Advances /\ Migrations
<1> DEFINE tk0 == Arrived(e)
           q0 == Enqueued(c, {e.task})
           tk == Requeued(Charged(tk0, c, e.time), c, e.time)
           q == Enqueued(c, {e.task, running[c]})
           run == [running EXCEPT ![c] = NoTask]
           evs == events \ {e}
<1>1. /\ Pop(e) /\ e.type = "ARRIVAL" /\ running[c] # NoTask /\ Assigned(c)
      /\ DispatchNext(e, c, tk, q, contextSwitches + 1)
      /\ completed' = completed /\ preemptions' = preemptions + 1
  BY DEF ArrivalPreempts, Idle
<1>2. /\ q0 = Enqueued(c, {e.task}) /\ queue \in [Cores -> SUBSET Tasks]
      /\ q = [queue EXCEPT ![c] = @ \cup {e.task, running[c]}]
  BY DEF IInv, Enqueued
<1> HIDE DEF q0, q
<1>3. /\ Consistent(tk0, All(q0), running, lastEvent, completed, evs, e.time)
      /\ Handled(task, All(queue), running, lastEvent, completed,
                 tk0, All(q0), running, lastEvent, completed, e.time)
      /\ q0 \in [Cores -> SUBSET Tasks] /\ Apart(q0) /\ OneMore(c, q0, queue)
      /\ q0[c] = queue[c] \cup {e.task}
      /\ \A b \in Cores : b # c => q0[b] = queue[b]
      /\ \A b \in Cores : e.task \notin Home(b)
  <2>1. Pop(e) /\ e.type = "ARRIVAL"
    BY <1>1
  <2>2. q0 = Enqueued(c, {e.task})
    BY <1>2
  <2>3. /\ q0[c] = queue[c] \cup {e.task}
        /\ \A b \in Cores : b # c => q0[b] = queue[b]
    BY <2>2 DEF IInv, Enqueued
  <2>4. QED
    BY <2>1, <2>2, <2>3, ArrivalFacts
<1>4. PICK u \in Tasks : u = running[c]
  BY <1>1, PopFacts
<1>5. u \notin All(q0)
  BY <1>3, <1>4 DEF Consistent, Good, PlacesGood
<1>6. q = Added(q0, c, u)
  <2>1. q[c] = q0[c] \cup {u} /\ \A b \in Cores : b # c => q[b] = q0[b]
    BY <1>2, <1>3, <1>4
  <2>2. q = [b \in Cores |-> q[b]] /\ Added(q0, c, u) = [b \in Cores |-> Added(q0, c, u)[b]]
    BY <1>2, <1>3 DEF Added
  <2>3. \A b \in Cores : Added(q0, c, u)[b] = IF b = c THEN q0[c] \cup {u} ELSE q0[b]
    BY <1>3 DEF Added
  <2>4. \A b \in Cores : q[b] = Added(q0, c, u)[b]
    BY <2>1, <2>3
  <2>5. QED
    BY <2>2, <2>4
<1>7. q \in [Cores -> SUBSET Tasks] /\ Apart(q) /\ Joins(u, q0, q)
  BY <1>3, <1>5, <1>6, Enqueue
<1>8. /\ q[c] = queue[c] \cup {e.task, running[c]}
      /\ \A b \in Cores : b # c => q[b] = queue[b]
  BY <1>2
<1>9. RequeueStep(tk0, All(q0), running, lastEvent, c, e.time, tk, All(q), run)
  BY <1>4, <1>7 DEF RequeueStep, Requeued, Charged, Joins
<1> HIDE DEF tk0, tk, evs
<1>10. Interrupted(c, tk0, All(q0), running, lastEvent, completed, evs, e.time)
  BY <1>1, <1>3, ArrivalInterrupts
<1>11. \A b \in Cores : b # c => run[b] = running[b]
  OBVIOUS
<1> HIDE DEF run
<1>12. /\ Consistent(tk, All(q), run, lastEvent, completed, evs, e.time)
       /\ Moves({}, {}, tk0, All(q0), running, lastEvent, completed,
                tk, All(q), run, lastEvent, completed, e.time)
       /\ run[c] = NoTask
  BY <1>9, <1>10, RequeueConsistent
<1>13. Handled(task, All(queue), running, lastEvent, completed,
               tk, All(q), run, lastEvent, completed, e.time)
  BY <1>3, <1>12, HandledThen
<1>14. OnlyOf(c, q[c])
  <2>1. Apart(queue) /\ PlacesGood(task, All(queue), running, completed)
    BY <1>1, PopFacts DEF IInv
  <2>2. \A x \in q[c] : x \in Home(c) \/ \A b \in Cores : x \notin Home(b)
    BY <1>1, <1>3, <1>8 DEF Home
  <2>3. QED
    BY <2>1, <2>2, HomeOnly
<1>15. NoLongQueue(c, q)
  BY <1>1, NoneIdle DEF NoLongQueue
<1>16. Freed(e, c, tk, q, run)
  BY <1>1, <1>7, <1>8, <1>11, <1>12, <1>13, <1>14, <1>15 DEF Freed, evs
<1>17. contextSwitches + 1 \in Nat /\ preemptions' \in Nat /\ nextCore' \in Cores
  BY <1>1, AssignedFacts DEF IInv
<1>18. QED
  BY <1>1, <1>16, <1>17, HandlerEnds

\* handle_arrival, the assigned core busy and no preemption.
LEMMA ArrivalWaitsInv ==
  ASSUME IInv, NEW e, NEW c \in Cores, ArrivalWaits(e, c)
  PROVE  IInv' /\ Advances /\ Migrations
<1>1. /\ Pop(e) /\ e.type = "ARRIVAL" /\ running[c] # NoTask /\ Assigned(c)
      /\ task' = Arrived(e) /\ queue' = Enqueued(c, {e.task}) /\ running' = running
      /\ lastEvent' = lastEvent /\ completed' = completed /\ events' = events \ {e}
      /\ contextSwitches' = contextSwitches /\ preemptions' = preemptions
      /\ workSteals' = workSteals
  BY DEF ArrivalWaits, Idle
<1>2. PICK q : q = Enqueued(c, {e.task})
  OBVIOUS
<1>3. /\ Consistent(Arrived(e), All(q), running, lastEvent, completed,
                    events \ {e}, e.time)
      /\ Handled(task, All(queue), running, lastEvent, completed,
                 Arrived(e), All(q), running, lastEvent, completed, e.time)
      /\ q \in [Cores -> SUBSET Tasks] /\ Apart(q) /\ OneMore(c, q, queue)
      /\ q[c] = queue[c] \cup {e.task}
      /\ \A b \in Cores : b # c => q[b] = queue[b]
      /\ \A b \in Cores : e.task \notin Home(b)
  <2>1. Pop(e) /\ e.type = "ARRIVAL"
    BY <1>1
  <2>2. q = Enqueued(c, {e.task})
    BY <1>2
  <2>3. /\ q[c] = queue[c] \cup {e.task}
        /\ \A b \in Cores : b # c => q[b] = queue[b]
    BY <2>2 DEF IInv, Enqueued
  <2>4. QED
    BY <2>1, <2>2, <2>3, ArrivalFacts
<1>4. queue' = q
  BY <1>1, <1>2
<1>5. /\ Consistent(task', All(queue'), running', lastEvent', completed', events', e.time)
      /\ Handled(task, All(queue), running, lastEvent, completed,
                 task', All(queue'), running', lastEvent', completed', e.time)
      /\ queue' \in [Cores -> SUBSET Tasks] /\ Apart(queue')
  BY <1>1, <1>3, <1>4
<1>6. OwnQueueServed'
  BY <1>1, <1>3, <1>4 DEF IInv, OwnQueueServed, Idle
<1>7. NoIdleBesideLongQueue'
  <2>1. balancer' = balancer
    BY <1>1, PopFacts
  <2>2. balancer = "LeastLoaded" => \A a \in Cores : running[a] # NoTask
    BY <1>1, NoneIdle
  <2>3. QED
    BY <1>1, <2>1, <2>2 DEF NoIdleBesideLongQueue, Idle
<1>8. contextSwitches' \in Nat /\ preemptions' \in Nat /\ workSteals' \in Nat
  BY <1>1 DEF IInv
<1>9. nextCore' \in Cores
  BY <1>1, AssignedFacts
<1>10. IInv' /\ Advances
  BY <1>1, <1>5, <1>6, <1>7, <1>8, <1>9, HandlerInv
<1>11. Migrations
  <2> SUFFICES ASSUME NEW y \in Cores, NEW x \in Cores, y # x,
                      NEW z \in Home(y), z \in Home(x)'
               PROVE  FALSE
    BY DEF Migrations
  <2>1. z \in q[x] \/ (z = running[x] /\ z # NoTask)
    BY <1>1, <1>4 DEF Home
  <2>2. z # e.task
    BY <1>3
  <2>3. z \in Home(x)
    BY <1>3, <2>1, <2>2 DEF Home
  <2>4. Apart(queue) /\ PlacesGood(task, All(queue), running, completed)
    BY <1>1, PopFacts DEF IInv
  <2>5. QED
    BY <2>3, <2>4, HomesApart
<1>12. QED
  BY <1>10, <1>11

\* A TIME_SLICE that hits interrupts its core.
LEMMA SliceFacts ==
  ASSUME IInv, NEW e, Pop(e), Hits(e)
  PROVE  /\ Interrupted(e.core, task, All(queue), running, lastEvent, completed,
                        events \ {e}, e.time)
         /\ e.core \in Cores /\ e.task = running[e.core]
         /\ running \in [Cores -> Tasks \cup {NoTask}] /\ e.task \in Tasks
         /\ PlacesGood(task, All(queue), running, completed)
<1>1. /\ Consistent(task, All(queue), running, lastEvent, completed, events, now)
      /\ e \in Earliest(events) /\ e.core \in Cores /\ e.task \in Tasks
      /\ running \in [Cores -> Tasks \cup {NoTask}]
      /\ PlacesGood(task, All(queue), running, completed)
  BY PopFacts
<1>2. e.type = "TIME_SLICE" /\ running[e.core] = e.task
  BY DEF Hits
<1>3. QED
  BY <1>1, <1>2, SliceInterrupts

\* handle_time_slice, the task done.
LEMMA SliceCompletesInv ==
  ASSUME IInv, NEW e, SliceCompletes(e)
  PROVE  IInv' /\ Advances /\ Migrations
<1> DEFINE c == e.core
           mt == Charged(task, c, e.time)
           tk == [mt EXCEPT ![e.task] = Complete(@, e.time)]
           run == [running EXCEPT ![c] = NoTask]
           evs == events \ {e}
<1>1. /\ Pop(e) /\ Hits(e) /\ IsCompleted(mt[e.task])
      /\ DispatchNext(e, c, tk, queue, contextSwitches)
      /\ completed' = completed \cup {e.task} /\ preemptions' = preemptions
      /\ nextCore' = nextCore
  BY DEF SliceCompletes
<1>2. /\ Interrupted(c, task, All(queue), running, lastEvent, completed, evs, e.time)
      /\ c \in Cores /\ e.task = running[c]
      /\ running \in [Cores -> Tasks \cup {NoTask}]
      /\ PlacesGood(task, All(queue), running, completed)
  BY <1>1, SliceFacts
<1>3. CompleteStep(task, running, lastEvent, completed, c, e.time, tk, run, completed')
  BY <1>1, <1>2 DEF CompleteStep, Charged
<1> HIDE DEF mt, tk, evs, c
<1>4. \A b \in Cores : b # c => run[b] = running[b]
  BY <1>2
<1> HIDE DEF run
<1>5. /\ Consistent(tk, All(queue), run, lastEvent, completed', evs, e.time)
      /\ Moves({}, {running[c]}, task, All(queue), running, lastEvent, completed,
               tk, All(queue), run, lastEvent, completed', e.time)
      /\ run[c] = NoTask
  BY <1>2, <1>3, CompleteConsistent
<1>6. Handled(task, All(queue), running, lastEvent, completed,
              tk, All(queue), run, lastEvent, completed', e.time)
  <2>1. \A t \in {} : task[t].arrival = e.time /\ t \notin completed'
    OBVIOUS
  <2>2. \A t \in {running[c]} : \E b \in Cores : running[b] = t
    BY <1>2
  <2>3. QED
    BY <1>5, <2>1, <2>2, MovesHandled
<1>7. queue \in [Cores -> SUBSET Tasks] /\ Apart(queue)
  BY DEF IInv
<1>8. OnlyOf(c, queue[c])
  BY <1>2, <1>7, HomeOnly DEF Home
<1>9. NoLongQueue(c, queue)
  BY <1>2, <1>7, ShortQueues
<1>10. Freed(e, c, tk, queue, run)
  BY <1>4, <1>5, <1>6, <1>7, <1>8, <1>9 DEF Freed, evs
<1>11. contextSwitches \in Nat /\ preemptions' \in Nat /\ nextCore' \in Cores
  BY <1>1 DEF IInv
<1>12. QED
  BY <1>1, <1>2, <1>10, <1>11, HandlerEnds

\* handle_time_slice, the task not done.
LEMMA SliceExpiresInv ==
  ASSUME IInv, NEW e, SliceExpires(e)
  PROVE  IInv' /\ Advances /\ Migrations
<1> DEFINE c == e.core
           tk == Requeued(Charged(task, c, e.time), c, e.time)
           q == Enqueued(c, {e.task})
           run == [running EXCEPT ![c] = NoTask]
           evs == events \ {e}
<1>1. /\ Pop(e) /\ Hits(e)
      /\ DispatchNext(e, c, tk, q, contextSwitches)
      /\ completed' = completed /\ preemptions' = preemptions + 1
      /\ nextCore' = nextCore
  BY DEF SliceExpires
<1>2. /\ Interrupted(c, task, All(queue), running, lastEvent, completed, evs, e.time)
      /\ c \in Cores /\ e.task = running[c] /\ e.task \in Tasks
      /\ running \in [Cores -> Tasks \cup {NoTask}]
      /\ PlacesGood(task, All(queue), running, completed)
  BY <1>1, SliceFacts
<1>3. queue \in [Cores -> SUBSET Tasks] /\ Apart(queue)
  BY DEF IInv
<1> HIDE DEF c
<1>4. PICK u \in Tasks : u = running[c]
  BY <1>2
<1>5. u # NoTask /\ u \notin All(queue)
  BY <1>2, <1>4, NoTaskAssumption DEF PlacesGood
<1>6. /\ q = Added(queue, c, u)
      /\ q[c] = queue[c] \cup {u} /\ \A b \in Cores : b # c => q[b] = queue[b]
  BY <1>2, <1>3, <1>4 DEF Enqueued, Added
<1> HIDE DEF q
<1>7. /\ q \in [Cores -> SUBSET Tasks] /\ Apart(q)
      /\ Joins(u, queue, q) /\ OneMore(c, q, queue)
  BY <1>2, <1>3, <1>5, <1>6, Enqueue
<1>8. RequeueStep(task, All(queue), running, lastEvent, c, e.time, tk, All(q), run)
  BY <1>4, <1>7 DEF RequeueStep, Requeued, Charged, Joins
<1> HIDE DEF tk, evs
<1>9. \A b \in Cores : b # c => run[b] = running[b]
  BY <1>2
<1> HIDE DEF run
<1>10. /\ Consistent(tk, All(q), run, lastEvent, completed', evs, e.time)
       /\ Moves({}, {}, task, All(queue), running, lastEvent, completed,
                tk, All(q), run, lastEvent, completed', e.time)
       /\ run[c] = NoTask
  BY <1>1, <1>2, <1>8, RequeueConsistent
<1>11. Handled(task, All(queue), running, lastEvent, completed,
               tk, All(q), run, lastEvent, completed', e.time)
  BY <1>10, HandledNothing, HandledThen
<1>12. OnlyOf(c, q[c])
  <2>1. \A x \in q[c] : x \in Home(c) \/ \A b \in Cores : x \notin Home(b)
    BY <1>4, <1>5, <1>6 DEF Home
  <2>2. QED
    BY <1>2, <1>3, <2>1, HomeOnly
<1>13. NoLongQueue(c, q)
  BY <1>2, <1>6, <1>7, ShortQueues
<1>14. queue[c] \subseteq q[c]
  BY <1>6
<1>15. Freed(e, c, tk, q, run)
  BY <1>6, <1>7, <1>9, <1>10, <1>11, <1>12, <1>13, <1>14 DEF Freed, evs
<1>16. contextSwitches \in Nat /\ preemptions' \in Nat /\ nextCore' \in Cores
  BY <1>1 DEF IInv
<1>17. QED
  BY <1>1, <1>2, <1>15, <1>16, HandlerEnds DEF c

\* A step that moves no task between queues and cores, and counts nothing,
\* keeps what the invariant says of them.
LEMMA QuietFacts ==
  ASSUME IInv, queue' = queue, running' = running, nextCore' = nextCore,
         balancer' = balancer, stealing' = stealing,
         contextSwitches' = contextSwitches, preemptions' = preemptions,
         workSteals' = workSteals
  PROVE  /\ balancer' \in Balancers /\ stealing' \in StealingModes
         /\ queue' \in [Cores -> SUBSET Tasks] /\ Apart(queue')
         /\ nextCore' \in Cores
         /\ contextSwitches' \in Nat /\ preemptions' \in Nat /\ workSteals' \in Nat
         /\ OwnQueueServed' /\ NoIdleBesideLongQueue'
         /\ Migrations
<1>1. /\ balancer' \in Balancers /\ stealing' \in StealingModes
      /\ queue' \in [Cores -> SUBSET Tasks] /\ Apart(queue')
      /\ nextCore' \in Cores
      /\ contextSwitches' \in Nat /\ preemptions' \in Nat /\ workSteals' \in Nat
  BY DEF IInv
<1>2. OwnQueueServed' /\ NoIdleBesideLongQueue'
  BY DEF IInv, OwnQueueServed, NoIdleBesideLongQueue, Idle
<1>3. Migrations
  <2>1. Apart(queue) /\ PlacesGood(task, All(queue), running, completed)
    BY DEF IInv, Sound, Good
  <2>2. \A c \in Cores : Home(c)' = Home(c)
    BY DEF Home
  <2>3. QED
    BY <2>1, <2>2, HomesApart DEF Migrations
<1>4. QED
  BY <1>1, <1>2, <1>3

\* handle_time_slice, the event belonging to no current dispatch.
LEMMA SliceIgnoredInv ==
  ASSUME IInv, NEW e, SliceIgnored(e)
  PROVE  IInv' /\ Advances /\ Migrations
<1>1. /\ Pop(e) /\ e.type = "TIME_SLICE" /\ running[e.core] # e.task
      /\ task' = task /\ queue' = queue /\ running' = running
      /\ lastEvent' = lastEvent /\ completed' = completed /\ events' = events \ {e}
      /\ nextCore' = nextCore
      /\ contextSwitches' = contextSwitches /\ preemptions' = preemptions
      /\ workSteals' = workSteals
  BY DEF SliceIgnored, Hits
<1>2. /\ Consistent(task, All(queue), running, lastEvent, completed, events, now)
      /\ e \in Earliest(events)
      /\ balancer' = balancer /\ stealing' = stealing
  BY <1>1, PopFacts
<1>3. Consistent(task, All(queue), running, lastEvent, completed, events \ {e}, e.time)
  BY <1>1, <1>2, SlicePasses
<1>4. Consistent(task', All(queue'), running', lastEvent', completed', events', e.time)
  BY <1>1, <1>3
<1>5. Handled(task, All(queue), running, lastEvent, completed,
              task', All(queue'), running', lastEvent', completed', e.time)
  BY <1>1, HandledNothing
<1>6. /\ queue' \in [Cores -> SUBSET Tasks] /\ Apart(queue')
      /\ nextCore' \in Cores
      /\ contextSwitches' \in Nat /\ preemptions' \in Nat /\ workSteals' \in Nat
      /\ OwnQueueServed' /\ NoIdleBesideLongQueue'
      /\ Migrations
  BY <1>1, <1>2, QuietFacts
<1>7. QED
  BY <1>1, <1>4, <1>5, <1>6, HandlerInv

-----------------------------------------------------------------------------
\* The steps outside the handlers.

\* Before run() starts the pool, and when the heap runs empty, it stands still.
Stutters ==
  /\ task' = task /\ queue' = queue /\ running' = running /\ lastEvent' = lastEvent
  /\ completed' = completed /\ now' = now

\* What a step outside the handlers leaves alone, the clock and the heap apart.
StandStill ==
  /\ task' = task /\ queue' = queue /\ running' = running /\ lastEvent' = lastEvent
  /\ completed' = completed /\ nextCore' = nextCore
  /\ balancer' = balancer /\ stealing' = stealing
  /\ contextSwitches' = contextSwitches /\ preemptions' = preemptions
  /\ workSteals' = workSteals

\* The constructor establishes the invariant.
LEMMA InitInv == Init => IInv
<1> SUFFICES ASSUME Init
             PROVE  IInv
  OBVIOUS
<1>1. task \in [Tasks -> {NewTask(a, x) : a \in Arrivals, x \in Executions}]
  BY DEF Init
<1>2. Sound("setup", 0, task, {}, [c \in Cores |-> NoTask], [c \in Cores |-> 0],
            {}, {}, 0)
  BY <1>1, SoundInit
<1>3. queue = [c \in Cores |-> {}] /\ \A c \in Cores : queue[c] = {}
  BY DEF Init
<1>4. All(queue) = {}
  BY <1>3 DEF All
<1>5. Sound(phase, stopTime, task, All(queue), running, lastEvent, completed, events, now)
  BY <1>2, <1>4 DEF Init
<1>6. queue \in [Cores -> SUBSET Tasks] /\ Apart(queue) /\ OwnQueueServed
  BY <1>3 DEF Apart, OwnQueueServed
<1>7. NoIdleBesideLongQueue
  BY <1>3, <1>6, ReadyNat DEF NoIdleBesideLongQueue
<1>8. nextCore \in Cores
  BY CoresAssumption DEF Init, Cores
<1>9. QED
  BY <1>5, <1>6, <1>7, <1>8 DEF Init, IInv

\* If it leaves the simulation sound, the invariant is preserved.
LEMMA StandStillInv ==
  ASSUME IInv, StandStill,
         Sound(phase', stopTime', task, All(queue), running, lastEvent, completed,
               events', now')
  PROVE  IInv' /\ Migrations
<1>1. /\ balancer' \in Balancers /\ stealing' \in StealingModes
      /\ queue' \in [Cores -> SUBSET Tasks] /\ Apart(queue')
      /\ nextCore' \in Cores
      /\ contextSwitches' \in Nat /\ preemptions' \in Nat /\ workSteals' \in Nat
      /\ OwnQueueServed' /\ NoIdleBesideLongQueue'
      /\ Migrations
  BY QuietFacts DEF StandStill
<1>2. Sound(phase', stopTime', task', All(queue'), running', lastEvent', completed',
            events', now')
  BY DEF StandStill
<1>3. Apart(queue)' /\ All(queue)' = All(queue')
  BY <1>1 DEF Apart, All
<1>4. QED
  BY <1>1, <1>2, <1>3 DEF IInv

\* add_task before run.
LEMMA AddTaskInv ==
  ASSUME IInv, NEW t \in Tasks, AddTask(t)
  PROVE  IInv' /\ Stutters /\ Migrations
<1>1. /\ phase = "setup" /\ phase' = phase /\ stopTime' = stopTime /\ now' = now
      /\ events' = events \cup {ArrivalEvent(t, task[t].arrival)}
      /\ StandStill
  BY DEF AddTask, Arrival, StandStill, config
<1>2. Sound("setup", stopTime, task, All(queue), running, lastEvent, completed,
            events \cup {ArrivalEvent(t, task[t].arrival)}, now)
  BY <1>1, SoundAdd DEF IInv
<1>3. Sound(phase', stopTime', task, All(queue), running, lastEvent, completed,
            events', now')
  BY <1>1, <1>2
<1>4. QED
  BY <1>1, <1>3, StandStillInv DEF Stutters, StandStill

\* run is called.
LEMMA RunInv ==
  ASSUME IInv, NEW stop \in StopTimes, Run(stop)
  PROVE  IInv' /\ Stutters /\ Migrations
<1>1. /\ phase = "setup" /\ phase' = "running" /\ stopTime' = stop /\ stop \in Nat
      /\ \A t \in Tasks : ArrivalEvent(t, task[t].arrival) \in events
      /\ events' = events /\ now' = now
      /\ StandStill
  BY WorkloadAssumption DEF Run, Arrival, StandStill, config
<1>2. Sound("running", stop, task, All(queue), running, lastEvent, completed, events, now)
  BY <1>1, SoundRun DEF IInv
<1>3. Sound(phase', stopTime', task, All(queue), running, lastEvent, completed,
            events', now')
  BY <1>1, <1>2
<1>4. QED
  BY <1>1, <1>3, StandStillInv DEF Stutters, StandStill

\* run returns at the stop time.
LEMMA StopAtLimitInv ==
  ASSUME IInv, NEW e, StopAtLimit(e)
  PROVE  IInv' /\ Advances /\ Migrations
<1>1. /\ phase = "running" /\ e \in Earliest(events) /\ e.time > stopTime
      /\ phase' = "stopped" /\ stopTime' = stopTime /\ now' = stopTime
      /\ events' = events \ {e}
      /\ StandStill
  BY DEF StopAtLimit, StandStill, config
<1>2. Sound("running", stopTime, task, All(queue), running, lastEvent, completed,
            events, now)
  BY <1>1 DEF IInv
<1>3. /\ Sound("stopped", stopTime, task, All(queue), running, lastEvent, completed,
               events \ {e}, stopTime)
      /\ PoolStep(task, All(queue), running, lastEvent, completed, now,
                  task, All(queue), running, lastEvent, completed, stopTime)
  BY <1>1, <1>2, SoundStop
<1>4. Sound(phase', stopTime', task, All(queue), running, lastEvent, completed,
            events', now')
  BY <1>1, <1>3
<1>5. Advances
  BY <1>1, <1>3 DEF Advances, StandStill
<1>6. QED
  BY <1>1, <1>4, <1>5, StandStillInv

\* run returns because the heap is empty.
LEMMA DrainInv ==
  ASSUME IInv, Drain
  PROVE  IInv' /\ Stutters /\ Migrations
<1>1. /\ phase' = "stopped" /\ stopTime' = stopTime /\ events' = events /\ now' = now
      /\ StandStill
  BY DEF Drain, StandStill, config
<1>2. Sound("stopped", stopTime, task, All(queue), running, lastEvent, completed,
            events, now)
  BY SoundDrain DEF IInv
<1>3. Sound(phase', stopTime', task, All(queue), running, lastEvent, completed,
            events', now')
  BY <1>1, <1>2
<1>4. QED
  BY <1>1, <1>3, StandStillInv DEF Stutters, StandStill

\* Nothing changes.
LEMMA UnchangedInv ==
  ASSUME IInv, UNCHANGED vars
  PROVE  IInv' /\ Stutters /\ Migrations
<1>1. /\ phase' = phase /\ stopTime' = stopTime /\ events' = events /\ now' = now
      /\ StandStill
  BY DEF vars, StandStill
<1>2. Sound(phase, stopTime, task, All(queue), running, lastEvent, completed,
            events, now)
  BY DEF IInv
<1>3. Sound(phase', stopTime', task, All(queue), running, lastEvent, completed,
            events', now')
  BY <1>1, <1>2
<1>4. QED
  BY <1>1, <1>3, StandStillInv DEF Stutters, StandStill

\* Every step preserves the invariant, is one of the pool or moves no task and
\* no time, and moves a task from core to core only by a steal.
LEMMA StepFacts ==
  ASSUME IInv, [Next]_vars
  PROVE  IInv' /\ (Advances \/ Stutters) /\ Migrations
<1>1. CASE \E t \in Tasks : AddTask(t)
  BY <1>1, AddTaskInv
<1>2. CASE \E stop \in StopTimes : Run(stop)
  BY <1>2, RunInv
<1>3. CASE \E e \in events, c \in Cores : ArrivalToIdleCore(e, c)
  BY <1>3, ArrivalToIdleCoreInv
<1>4. CASE \E e \in events, c \in Cores : ArrivalPreempts(e, c)
  BY <1>4, ArrivalPreemptsInv
<1>5. CASE \E e \in events, c \in Cores : ArrivalWaits(e, c)
  BY <1>5, ArrivalWaitsInv
<1>6. CASE \E e \in events : SliceCompletes(e)
  BY <1>6, SliceCompletesInv
<1>7. CASE \E e \in events : SliceExpires(e)
  BY <1>7, SliceExpiresInv
<1>8. CASE \E e \in events : SliceIgnored(e)
  BY <1>8, SliceIgnoredInv
<1>9. CASE \E e \in events : StopAtLimit(e)
  BY <1>9, StopAtLimitInv
<1>10. CASE Drain
  BY <1>10, DrainInv
<1>11. CASE Returned \/ UNCHANGED vars
  BY <1>11, UnchangedInv DEF Returned
<1>12. QED
  BY <1>1, <1>2, <1>3, <1>4, <1>5, <1>6, <1>7, <1>8, <1>9, <1>10, <1>11 DEF Next

-----------------------------------------------------------------------------
\* The theorems.

\* Every step of multi_core_simulator.cpp preserves the inductive invariant.
THEOREM StepInv == IInv /\ [Next]_vars => IInv'
  BY StepFacts

\* The inductive invariant holds in every reachable state.
THEOREM Invariance == Spec => []IInv
<1>1. Init => IInv
  BY InitInv
<1>2. IInv /\ [Next]_vars => IInv'
  BY StepInv
<1>3. QED
  BY <1>1, <1>2, PTL DEF Spec

\* The types are conjuncts of the invariant.
LEMMA IInvTypeOK == IInv => TypeOK
BY DEF IInv, Sound, Good, TypesGood, TypeOK

\* OnePlace follows from PlacesGood, from Apart, and for tasks yet to arrive
\* from EventsGood.
LEMMA IInvOnePlace == IInv => OnePlace
<1> SUFFICES ASSUME IInv
             PROVE  OnePlace
  OBVIOUS
<1>1. /\ PlacesGood(task, All(queue), running, completed) /\ All(queue) \subseteq Tasks
      /\ completed \subseteq Tasks /\ running \in [Cores -> Tasks \cup {NoTask}]
  BY DEF IInv, Sound, Good, TypesGood
<1>2. \A b, c \in Cores : b # c =>
        /\ running[b] = running[c] => Idle(b)
        /\ queue[b] \cap queue[c] = {}
  BY <1>1 DEF PlacesGood, Idle, IInv, Apart
<1>3. Queued = All(queue)
  BY DEF Queued, All
<1>4. Queued \cap Busy = {} /\ completed \cap (Queued \cup Busy) = {}
  BY <1>1, <1>3 DEF PlacesGood, Busy
<1>5. \A t \in Pending : NotArrived(t, All(queue), running, completed)
  BY DEF Pending, Arrival, ArrivalEvent, IInv, Sound, Good, EventsGood
<1>6. Pending \cap (Queued \cup Busy \cup completed) = {}
  BY <1>3, <1>5 DEF NotArrived, Busy
<1>7. phase = "running" => Tasks = Pending \cup Queued \cup Busy \cup completed
  <2>1. phase = "running" =>
          \A t \in Tasks : NotArrived(t, All(queue), running, completed) => t \in Pending
    BY DEF IInv, Sound, Waiting, Pending, Arrival
  <2>2. \A t \in Tasks : \A c \in Cores : running[c] = t => t \in Busy
    BY NoTaskAssumption DEF Busy
  <2>3. Pending \subseteq Tasks /\ Busy \subseteq Tasks
    BY <1>1 DEF Pending, Busy
  <2>4. QED
    BY <1>1, <1>3, <2>1, <2>2, <2>3 DEF NotArrived
<1>8. Queued = {t \in Tasks : task[t].inReady}
  BY <1>1, <1>3 DEF PlacesGood
<1>9. QED
  BY <1>2, <1>4, <1>6, <1>7, <1>8 DEF OnePlace

\* The promises of the queues are conjuncts of the invariant.
LEMMA IInvQueues == IInv => OwnQueueServed /\ NoIdleBesideLongQueue
BY DEF IInv

\* WaitAccounting is AccountsGood without its bounds.
LEMMA IInvWaitAccounting == IInv => WaitAccounting
<1> SUFFICES ASSUME IInv, NEW t \in Tasks
             PROVE  /\ t \in Queued => Accounted(task[t]) = task[t].readyEnter
                    /\ \A c \in Cores : running[c] = t =>
                         Accounted(task[t]) = lastEvent[c]
                    /\ t \in completed =>
                         /\ Accounted(task[t]) = task[t].completion
                         /\ task[t].remaining <= Eps
  BY DEF WaitAccounting, Accounted, Used, IsCompleted
<1>1. t \in Queued <=> t \in All(queue)
  BY DEF Queued, All
<1>2. QED
  BY <1>1 DEF IInv, Sound, Good, AccountsGood

\* The event HasSlice promises is live, and EventsGood puts it in the future.
LEMMA IInvSliceEventPending == IInv => SliceEventPending
<1> SUFFICES ASSUME IInv, phase = "running", NEW c \in Cores, running[c] # NoTask
             PROVE  \E e \in events :
                      /\ Live(e) /\ e.core = c
                      /\ now <= e.time
                      /\ e.time <= lastEvent[c] + task[running[c]].remaining
  BY DEF SliceEventPending, Idle
<1>1. PICK e \in events :
        /\ e.type = "TIME_SLICE" /\ e.core = c /\ e.task = running[c]
        /\ e.n = task[running[c]].preemptions
        /\ e.time <= lastEvent[c] + task[running[c]].remaining
  BY DEF IInv, Sound, Slots, HasSlice
<1>2. now <= e.time
  BY DEF IInv, Sound, Good, EventsGood
<1>3. QED
  BY <1>1, <1>2 DEF Live, Hits

\* Every field of the simulator keeps its type: in particular the round-robin
\* counter stays among the cores.
THEOREM TypeCorrect == Spec => []TypeOK
  BY IInvTypeOK, Invariance, PTL

\* No handler, and no steal, loses a task or leaves it in two places.
THEOREM TasksInOnePlace == Spec => []OnePlace
  BY IInvOnePlace, Invariance, PTL

\* Whatever the balancer and the schedulers, no idle core has a task of its own
\* waiting.
THEOREM OwnQueuesServed == Spec => []OwnQueueServed
  BY IInvQueues, Invariance, PTL

\* With stealing and the least-loaded balancer no core idles beside a queue it
\* could steal from, for any number of cores.
THEOREM NoneIdlesBesideLongQueue == Spec => []NoIdleBesideLongQueue
  BY IInvQueues, Invariance, PTL

\* The waiting time and the CPU time of a task add up to its time in the
\* system, also when it is stolen.
THEOREM TimesAddUp == Spec => []WaitAccounting
  BY IInvWaitAccounting, Invariance, PTL

\* A busy core always has the event that will free it.
THEOREM BusyCoreHasEvent == Spec => []SliceEventPending
  BY IInvSliceEventPending, Invariance, PTL

\* A task changes cores only by a steal that is counted, and made by a core
\* with nothing of its own from a longest queue.
THEOREM OnlyStealsMigrate == Spec => MigrationOnlyBySteal
<1>1. IInv /\ [Next]_vars =>
        [\A b, c \in Cores : b # c =>
           \A t \in Home(b) \cap Home(c)' :
             /\ stealing /\ workSteals' = workSteals + 1
             /\ queue[c] = {} /\ running'[c] = t
             /\ t \in queue[b] /\ queue'[b] # {}
             /\ \A a \in Cores : Ready(queue, a) <= Ready(queue, b)]_vars
  BY StepFacts DEF Migrations, Stolen
<1>2. QED
  BY <1>1, Invariance, PTL DEF Spec, MigrationOnlyBySteal

-----------------------------------------------------------------------------
\* The simulator implements the pool.

\* The ready tasks of the pool are those of all queues.
LEMMA QueuedIsAll == Queued = All(queue) /\ Queued' = All(queue')
BY DEF Queued, All

\* Served is what the shared lemmas call ServedAt.
LEMMA ServedIsServedAt ==
  ASSUME NEW t \in Tasks
  PROVE  Served(t) = ServedAt(t, task, running, lastEvent, now)
BY DEF Served, ServedAt, Used

\* The pool starts empty.
LEMMA InitPool == Init => Pool!PoolInit
<1> SUFFICES ASSUME Init
             PROVE  Pool!PoolInit
  OBVIOUS
<1>1. Sound(phase, stopTime, task, All(queue), running, lastEvent, completed, events, now)
  BY InitInv DEF IInv
<1>2. Good(task, All(queue), running, lastEvent, completed, events, now)
  BY <1>1 DEF Sound
<1>3. /\ now = 0 /\ Queued = {} /\ completed = {} /\ phase = "setup"
      /\ running = [c \in Cores |-> NoTask]
  BY DEF Init, Queued
<1>4. task \in [Tasks -> TaskState]
  BY <1>2 DEF Good, TypesGood
<1>5. ASSUME NEW t \in Tasks
      PROVE  /\ task[t].exec \in Nat /\ task[t].arrival \in Nat
             /\ Served(t) = 0
  <2>1. \A c \in Cores : running[c] # t
    BY <1>3, NoTaskAssumption
  <2>2. Served(t) = task[t].exec - task[t].remaining
    BY <1>4, <2>1, ServedIsServedAt, ServedOffCore
  <2>3. task[t].exec = task[t].remaining
    BY <1>2, <1>3, <2>1, QueuedIsAll DEF Good, AccountsGood, NotArrived
  <2>4. task[t].exec \in Nat /\ task[t].arrival \in Nat
    BY <1>4 DEF TaskState
  <2>5. QED
    BY <2>2, <2>3, <2>4
<1>6. QED
  BY <1>3, <1>5 DEF Pool!PoolInit

\* The clock moves forward and every task on a core is served meanwhile.
LEMMA AdvancesServe ==
  ASSUME IInv, Advances
  PROVE  Pool!Serve
<1>1. now' \in Nat /\ now' >= now
  <2>1. now' \in Nat /\ now <= now'
    BY DEF Advances, PoolStep
  <2>2. now \in Nat
    BY DEF IInv, Sound, Good, TypesGood
  <2>3. QED
    BY <2>1, <2>2
<1>2. ASSUME NEW t \in Tasks
      PROVE  /\ task'[t].arrival = task[t].arrival /\ task'[t].exec = task[t].exec
             /\ (\E c \in Cores : running[c] = t) =>
                  Served(t)' = Served(t) + (now' - now)
             /\ (\A c \in Cores : running[c] # t) => Served(t)' = Served(t)
             /\ Served(t)' <= task'[t].exec
  <2>1. Served(t)' = ServedAt(t, task', running', lastEvent', now')
    BY DEF Served, ServedAt, Used
  <2>2. Served(t) = ServedAt(t, task, running, lastEvent, now)
    BY ServedIsServedAt
  <2>3. QED
    BY <2>1, <2>2 DEF Advances, PoolStep
<1>3. ASSUME NEW t \in Tasks
      PROVE  t \in Pool!Serving <=> \E c \in Cores : running[c] = t
  BY NoTaskAssumption DEF Pool!Serving
<1>4. [t \in Tasks |-> Served(t)]' =
        [t \in Tasks |-> IF t \in Pool!Serving THEN [y \in Tasks |-> Served(y)][t] + (now' - now)
                                               ELSE [y \in Tasks |-> Served(y)][t]]
  BY <1>2, <1>3
<1>5. \A t \in Tasks : [y \in Tasks |-> Served(y)]'[t] <= [y \in Tasks |-> task[y].exec][t]
  BY <1>2
<1>6. /\ [t \in Tasks |-> task[t].exec]' = [t \in Tasks |-> task[t].exec]
      /\ [t \in Tasks |-> task[t].arrival]' = [t \in Tasks |-> task[t].arrival]
  BY <1>2
<1>7. QED
  BY <1>1, <1>4, <1>5, <1>6 DEF Pool!Serve

\* The cores are reassigned: arrivals enter at their release times, tasks leave
\* when their work is done.
LEMMA AdvancesReassign ==
  ASSUME IInv, IInv', Advances
  PROVE  Pool!Reassign
<1>0. Queued = All(queue) /\ Queued' = All(queue')
  BY QueuedIsAll
<1>1. ASSUME NEW t
      PROVE  t \in (Queued \cup Pool!Serving \cup completed) <=>
               t \in Tasks /\ ~NotArrived(t, All(queue), running, completed)
  BY <1>0, NoTaskAssumption
     DEF Pool!Serving, NotArrived, IInv, Sound, Good, TypesGood
<1>2. ASSUME NEW t
      PROVE  t \in (Queued \cup Pool!Serving \cup completed)' <=>
               t \in Tasks /\ ~NotArrived(t, All(queue'), running', completed')
  BY <1>0, NoTaskAssumption
     DEF Pool!Serving, NotArrived, IInv, Sound, Good, TypesGood
<1>3. completed \subseteq completed' /\ completed' \subseteq Tasks
  BY DEF Advances, PoolStep, IInv, Sound, Good, TypesGood
<1>4. ASSUME NEW t \in Tasks
      PROVE  /\ NotArrived(t, All(queue'), running', completed') =>
                  NotArrived(t, All(queue), running, completed)
             /\ NotArrived(t, All(queue), running, completed)
                  /\ ~NotArrived(t, All(queue'), running', completed') =>
                    task[t].arrival = now' /\ t \notin completed'
             /\ t \in completed' /\ t \notin completed =>
                  /\ \E c \in Cores : running[c] = t
                  /\ Served(t)' + Eps >= task'[t].exec
             /\ task'[t].exec = task[t].exec
  <2>1. Served(t)' = ServedAt(t, task', running', lastEvent', now')
    BY DEF Served, ServedAt, Used
  <2>2. QED
    BY <2>1 DEF Advances, PoolStep
<1>5. (Queued \cup Pool!Serving \cup completed)
        \subseteq (Queued \cup Pool!Serving \cup completed)'
  BY <1>1, <1>2, <1>4
<1>6. \A t \in Pool!Entering :
        [y \in Tasks |-> task[y].arrival][t] = now' /\ t \notin completed'
  <2> SUFFICES ASSUME NEW t \in Pool!Entering
               PROVE  [y \in Tasks |-> task[y].arrival][t] = now' /\ t \notin completed'
    OBVIOUS
  <2>1. /\ t \in (Queued \cup Pool!Serving \cup completed)'
        /\ t \notin (Queued \cup Pool!Serving \cup completed)
    BY DEF Pool!Entering
  <2>2. QED
    BY <1>1, <1>2, <1>4, <2>1
<1>7. \A t \in Pool!Leaving :
        t \in Pool!Serving /\ [y \in Tasks |-> Served(y)]'[t] + Eps
                                >= [y \in Tasks |-> task[y].exec][t]
  <2> SUFFICES ASSUME NEW t \in Pool!Leaving
               PROVE  t \in Pool!Serving /\ [y \in Tasks |-> Served(y)]'[t] + Eps
                                              >= [y \in Tasks |-> task[y].exec][t]
    OBVIOUS
  <2>1. t \in Tasks /\ t \in completed' /\ t \notin completed
    BY <1>3 DEF Pool!Leaving
  <2>2. t \in Pool!Serving
    BY <1>4, <2>1, NoTaskAssumption DEF Pool!Serving
  <2>3. QED
    BY <1>4, <2>1, <2>2
<1>8. Pool!Exclusive'
  <2>1. PlacesGood(task', All(queue'), running', completed')
    BY DEF IInv, Sound, Good
  <2>2. QED
    BY <1>0, <2>1 DEF PlacesGood, Pool!Exclusive
<1>9. QED
  BY <1>3, <1>5, <1>6, <1>7, <1>8 DEF Pool!Reassign

\* A step that moves no task and no time leaves the pool alone.
LEMMA StuttersPool == Stutters => UNCHANGED Pool!poolVars
<1> SUFFICES ASSUME Stutters
             PROVE  UNCHANGED Pool!poolVars
  OBVIOUS
<1>1. \A t \in Tasks : Served(t)' = Served(t)
  BY DEF Stutters, Served
<1>2. QED
  BY <1>1, QueuedIsAll DEF Stutters, Pool!poolVars

\* Every step of the simulator is a step of the pool, or none.
LEMMA StepPool == IInv /\ [Next]_vars => [Pool!PoolNext]_(Pool!poolVars)
<1> SUFFICES ASSUME IInv, [Next]_vars
             PROVE  Pool!PoolNext \/ UNCHANGED Pool!poolVars
  OBVIOUS
<1>1. IInv' /\ (Advances \/ Stutters)
  BY StepFacts
<1>2. CASE Advances
  BY <1>1, <1>2, AdvancesServe, AdvancesReassign DEF Pool!PoolNext
<1>3. CASE Stutters
  BY <1>3, StuttersPool
<1>4. QED
  BY <1>1, <1>2, <1>3

\* multi_core_simulator.cpp, with its queues, balancers and steals, implements
\* the pool that serves its tasks as a fluid.
THEOREM SimulatorImplementsPool == Spec => ImplementsPool
<1>1. Init => Pool!PoolInit
  BY InitPool
<1>2. IInv /\ [Next]_vars => [Pool!PoolNext]_(Pool!poolVars)
  BY StepPool
<1>3. QED
  BY <1>1, <1>2, Invariance, PTL DEF Spec, ImplementsPool, Pool!PoolSpec

=============================================================================
