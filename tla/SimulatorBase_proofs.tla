------------------------- MODULE SimulatorBase_proofs -------------------------
(***************************************************************************)
(* What the proofs about the two simulators share.                         *)
(*                                                                         *)
(* A handler is a sequence of elementary steps on the task records, the    *)
(* ready tasks, the cores and the heap: pop an event, mark a task ready,   *)
(* charge the task of a core and take it off, dispatch a task.  Between    *)
(* these steps the simulator is in no reachable state of its               *)
(* specification, so what the steps preserve is stated over explicit       *)
(* arguments: tk task records, q ready tasks, run the task of each core,   *)
(* last when it was dispatched, done the completed tasks, evs the heap,    *)
(* time the current time.                                                  *)
(***************************************************************************)
EXTENDS SimulatorBase, TLAPS

\* Every task is in one place.
PlacesGood(tk, q, run, done) ==
  /\ \A b, c \in Cores : b # c /\ run[b] = run[c] => run[b] = NoTask
  /\ \A c \in Cores : run[c] \notin q /\ run[c] \notin done
  /\ q \cap done = {}
  /\ \A t \in Tasks : tk[t].inReady <=> t \in q

NotArrived(t, q, run, done) ==
  t \notin q /\ t \notin done /\ \A c \in Cores : run[c] # t

Accounted(r) == r.arrival + r.wait + (r.exec - r.remaining)

\* The time of every task is accounted for.
AccountsGood(tk, q, run, last, done, time) ==
  \A t \in Tasks :
    /\ tk[t].remaining <= tk[t].exec
    /\ t \in q => Accounted(tk[t]) = tk[t].readyEnter /\ tk[t].readyEnter <= time
    /\ \A c \in Cores : run[c] = t => Accounted(tk[t]) = last[c] /\ last[c] <= time
    /\ t \in done => /\ Accounted(tk[t]) = tk[t].completion
                     /\ tk[t].remaining <= Eps
    /\ NotArrived(t, q, run, done) => tk[t].wait = 0 /\ tk[t].remaining = tk[t].exec

\* Events lie in the future; an ARRIVAL belongs to a task that has not arrived;
\* a TIME_SLICE, live or not, is due no later than its task can be over.
EventsGood(tk, q, run, last, done, evs, time) ==
  \A e \in evs :
    /\ time <= e.time
    /\ e.type = "ARRIVAL" =>
         /\ e = ArrivalEvent(e.task, tk[e.task].arrival)
         /\ NotArrived(e.task, q, run, done)
    /\ e.type = "TIME_SLICE" =>
         /\ ~NotArrived(e.task, q, run, done)
         /\ e.task \in q => e.time <= time + tk[e.task].remaining
         /\ \A c \in Cores : run[c] = e.task => e.time <= last[c] + tk[e.task].remaining
         /\ e.task \in done => e.time <= tk[e.task].completion + Eps

TypesGood(tk, q, run, last, done, evs, time) ==
  /\ tk \in [Tasks -> TaskState]
  /\ q \subseteq Tasks
  /\ run \in [Cores -> Tasks \cup {NoTask}]
  /\ last \in [Cores -> Nat]
  /\ done \subseteq Tasks
  /\ evs \subseteq Event(Tasks, Cores)
  /\ time \in Nat

Good(tk, q, run, last, done, evs, time) ==
  /\ TypesGood(tk, q, run, last, done, evs, time)
  /\ PlacesGood(tk, q, run, done)
  /\ AccountsGood(tk, q, run, last, done, time)
  /\ EventsGood(tk, q, run, last, done, evs, time)

\* The event of the dispatch on core c.
HasSlice(c, tk, run, last, evs) ==
  \E e \in evs :
    /\ e.type = "TIME_SLICE" /\ e.core = c /\ e.task = run[c]
    /\ e.n = tk[run[c]].preemptions
    /\ e.time <= last[c] + tk[run[c]].remaining

Slots(tk, run, last, evs) ==
  \A c \in Cores : run[c] # NoTask => HasSlice(c, tk, run, last, evs)

\* A task that has not arrived has its ARRIVAL in the heap.
Waiting(tk, q, run, done, evs) ==
  \A t \in Tasks :
    NotArrived(t, q, run, done) => ArrivalEvent(t, tk[t].arrival) \in evs

\* When the last task completed, the clock stood at its completion.
ClockBound(tk, done, time) ==
  done = Tasks /\ Tasks # {} => \E t \in Tasks : time <= tk[t].completion + Eps

\* What holds between two elementary steps of a running simulation.
Consistent(tk, q, run, last, done, evs, time) ==
  /\ Good(tk, q, run, last, done, evs, time)
  /\ Slots(tk, run, last, evs)
  /\ Waiting(tk, q, run, done, evs)
  /\ ClockBound(tk, done, time)

\* The part of the inductive invariants that the two simulators share, ph and
\* stop being the phase and the stop time: nobody has arrived before run() is
\* called, and while it executes every core has what it needs to go on.
Sound(ph, stop, tk, q, run, last, done, evs, time) ==
  /\ ph \in {"setup", "running", "stopped"} /\ stop \in Nat
  /\ Good(tk, q, run, last, done, evs, time)
  /\ ClockBound(tk, done, time)
  /\ ph = "setup" => time = 0 /\ \A t \in Tasks : NotArrived(t, q, run, done)
  /\ ph = "running" => /\ time <= stop
                       /\ Slots(tk, run, last, evs)
                       /\ Waiting(tk, q, run, done, evs)

\* The CPU time of a task with record r that has been on a core since a time.
ServedSince(r, since, time) == (r.exec - r.remaining) + (time - since)

\* The CPU time task t has had at time.
ServedAt(t, tk, run, last, time) ==
  (tk[t].exec - tk[t].remaining) +
    (IF \E c \in Cores : run[c] = t
     THEN time - last[CHOOSE c \in Cores : run[c] = t] ELSE 0)

\* How far elementary steps at one time go: the tasks of A arrive, those of L
\* leave, and no task gains or loses CPU time.
Moves(A, L, tk, q, run, last, done, nt, nq, nrun, nlast, ndone, time) ==
  /\ \A t \in Tasks :
       /\ nt[t].arrival = tk[t].arrival /\ nt[t].exec = tk[t].exec
       /\ t \notin L => nt[t].completion = tk[t].completion
       /\ ServedAt(t, nt, nrun, nlast, time) = ServedAt(t, tk, run, last, time)
       /\ NotArrived(t, nq, nrun, ndone) <=> NotArrived(t, q, run, done) /\ t \notin A
  /\ ndone = done \cup L

\* What the elementary steps of one handler come to: it takes no time, a task
\* that arrived does so at its arrival time, and one that left was on a core.
Handled(tk, q, run, last, done, nt, nq, nrun, nlast, ndone, time) ==
  /\ \A t \in Tasks :
       /\ nt[t].arrival = tk[t].arrival /\ nt[t].exec = tk[t].exec
       /\ ServedAt(t, nt, nrun, nlast, time) = ServedAt(t, tk, run, last, time)
       /\ NotArrived(t, nq, nrun, ndone) => NotArrived(t, q, run, done)
       /\ NotArrived(t, q, run, done) /\ ~NotArrived(t, nq, nrun, ndone) =>
            tk[t].arrival = time /\ t \notin ndone
       /\ t \in ndone /\ t \notin done => \E c \in Cores : run[c] = t
  /\ done \subseteq ndone

\* A step of the pool: from one scheduling point to the next, the tasks on the
\* cores are served for the time that passed, and only they; then a handler
\* reassigns the cores.
PoolStep(tk, q, run, last, done, time, nt, nq, nrun, nlast, ndone, ntime) ==
  /\ time <= ntime /\ ntime \in Nat
  /\ \A t \in Tasks :
       /\ nt[t].arrival = tk[t].arrival /\ nt[t].exec = tk[t].exec
       /\ (\E c \in Cores : run[c] = t) =>
            ServedAt(t, nt, nrun, nlast, ntime) =
              ServedAt(t, tk, run, last, time) + (ntime - time)
       /\ (\A c \in Cores : run[c] # t) =>
            ServedAt(t, nt, nrun, nlast, ntime) = ServedAt(t, tk, run, last, time)
       /\ ServedAt(t, nt, nrun, nlast, ntime) <= nt[t].exec
       /\ NotArrived(t, nq, nrun, ndone) => NotArrived(t, q, run, done)
       /\ NotArrived(t, q, run, done) /\ ~NotArrived(t, nq, nrun, ndone) =>
            tk[t].arrival = ntime /\ t \notin ndone
       /\ t \in ndone /\ t \notin done =>
            /\ \E c \in Cores : run[c] = t
            /\ ServedAt(t, nt, nrun, nlast, ntime) + Eps >= nt[t].exec
  /\ done \subseteq ndone

\* The elementary steps, as relations between the arguments of Good: task t
\* becomes ready; the task on core c is charged and becomes ready again, or is
\* charged and completes; task t is dispatched on core c for slice s.
ArriveStep(tk, q, t, time, nt, nq) ==
  /\ nt = [tk EXCEPT ![t] = MarkReady(@, time)]
  /\ nq = q \cup {t}

RequeueStep(tk, q, run, last, c, time, nt, nq, nrun) ==
  /\ nt = [[tk EXCEPT ![run[c]] = Execute(@, time - last[c])]
              EXCEPT ![run[c]] = MarkReady(IncrementPreemptions(@), time)]
  /\ nq = q \cup {run[c]}
  /\ nrun = [run EXCEPT ![c] = NoTask]

CompleteStep(tk, run, last, done, c, time, nt, nrun, ndone) ==
  /\ IsCompleted([tk EXCEPT ![run[c]] = Execute(@, time - last[c])][run[c]])
  /\ nt = [[tk EXCEPT ![run[c]] = Execute(@, time - last[c])]
              EXCEPT ![run[c]] = Complete(@, time)]
  /\ nrun = [run EXCEPT ![c] = NoTask]
  /\ ndone = done \cup {run[c]}

DispatchStep(tk, q, run, last, evs, c, t, s, time, nt, nq, nrun, nlast, end, nevs) ==
  /\ nt = [tk EXCEPT ![t] = Start(MarkDispatched(@, time), time)]
  /\ nq = q \ {t}
  /\ nrun = [run EXCEPT ![c] = t]
  /\ nlast = [last EXCEPT ![c] = time]
  /\ end = SliceEnd(tk[t], s, time)
  /\ nevs = evs \cup {SliceEvent(t, end, c, tk[t].preemptions)}

\* Core c can be charged: its task is not past its remaining time.
Chargeable(tk, run, last, c, time) ==
  run[c] # NoTask /\ time <= last[c] + tk[run[c]].remaining

\* Time is the arrival time of task t.
DueAt(t, tk, time) == tk[t].arrival = time

\* Task t arrives at time, its event no longer among evs.
Arriving(tk, q, run, done, evs, t, time) ==
  /\ NotArrived(t, q, run, done)
  /\ tk[t].arrival = time
  /\ \A f \in evs : f.type = "ARRIVAL" => f.task # t

\* Only the record of task u differs.
SameBut(u, tk, nt) == \A y \in Tasks : y # u => nt[y] = tk[y]

\* The slice of the task on core c is over, or the task is preempted: whatever
\* became of its own event, the other cores have theirs.
Interrupted(c, tk, q, run, last, done, evs, time) ==
  /\ Good(tk, q, run, last, done, evs, time)
  /\ Chargeable(tk, run, last, c, time)
  /\ \A b \in Cores : b # c /\ run[b] # NoTask => HasSlice(b, tk, run, last, evs)
  /\ Waiting(tk, q, run, done, evs)

-----------------------------------------------------------------------------
\* The operators of Task, field by field.

\* mark_ready touches the flag and the time of entry only.
LEMMA MarkReadyFields ==
  ASSUME NEW r \in TaskState, NEW time \in Nat
  PROVE  LET s == MarkReady(r, time) IN
         /\ s \in TaskState
         /\ s.arrival = r.arrival /\ s.exec = r.exec /\ s.remaining = r.remaining
         /\ s.start = r.start /\ s.completion = r.completion /\ s.wait = r.wait
         /\ s.preemptions = r.preemptions
         /\ s.inReady = TRUE /\ s.readyEnter = time
  BY DEF MarkReady, TaskState

\* A task charged for no more than its remaining time loses exactly that: the
\* clamp of execute is not used.
LEMMA ExecuteFields ==
  ASSUME NEW r \in TaskState, NEW d \in Nat, d <= r.remaining
  PROVE  LET s == Execute(r, d) IN
         /\ s \in TaskState
         /\ s.remaining = r.remaining - d
         /\ s.arrival = r.arrival /\ s.exec = r.exec
         /\ s.start = r.start /\ s.completion = r.completion /\ s.wait = r.wait
         /\ s.preemptions = r.preemptions
         /\ s.inReady = r.inReady /\ s.readyEnter = r.readyEnter
  BY DEF Execute, TaskState

\* complete sets the completion time only.
LEMMA CompleteFields ==
  ASSUME NEW r \in TaskState, NEW time \in Nat
  PROVE  LET s == Complete(r, time) IN
         /\ s \in TaskState
         /\ s.completion = time
         /\ s.arrival = r.arrival /\ s.exec = r.exec /\ s.remaining = r.remaining
         /\ s.start = r.start /\ s.wait = r.wait
         /\ s.preemptions = r.preemptions
         /\ s.inReady = r.inReady /\ s.readyEnter = r.readyEnter
  BY DEF Complete, TaskState

\* increment_preemptions touches the counter only.
LEMMA IncrementFields ==
  ASSUME NEW r \in TaskState
  PROVE  LET s == IncrementPreemptions(r) IN
         /\ s \in TaskState
         /\ s.preemptions = r.preemptions + 1
         /\ s.arrival = r.arrival /\ s.exec = r.exec /\ s.remaining = r.remaining
         /\ s.start = r.start /\ s.completion = r.completion /\ s.wait = r.wait
         /\ s.inReady = r.inReady /\ s.readyEnter = r.readyEnter
  BY DEF IncrementPreemptions, TaskState

\* Dispatching a ready task adds the time since it became ready to its wait.
LEMMA DispatchedFields ==
  ASSUME NEW r \in TaskState, NEW time \in Nat, r.inReady, r.readyEnter <= time
  PROVE  LET s == Start(MarkDispatched(r, time), time) IN
         /\ s \in TaskState
         /\ s.wait = r.wait + (time - r.readyEnter)
         /\ s.arrival = r.arrival /\ s.exec = r.exec /\ s.remaining = r.remaining
         /\ s.completion = r.completion /\ s.preemptions = r.preemptions
         /\ s.inReady = FALSE /\ s.readyEnter = r.readyEnter
<1> DEFINE w == r.wait + (IF time > r.readyEnter THEN time - r.readyEnter ELSE 0)
           m == MarkDispatched(r, time)
<1>1. w \in Nat /\ w = r.wait + (time - r.readyEnter)
  BY DEF TaskState
<1>2. m = [r EXCEPT !.wait = w, !.inReady = FALSE]
  BY Zenon DEF MarkDispatched
<1> HIDE DEF w, m
<1>3. /\ m \in TaskState
      /\ m.wait = w
      /\ m.arrival = r.arrival /\ m.exec = r.exec /\ m.remaining = r.remaining
      /\ m.start = r.start
      /\ m.completion = r.completion /\ m.preemptions = r.preemptions
      /\ m.inReady = FALSE /\ m.readyEnter = r.readyEnter
  BY <1>1, <1>2 DEF TaskState
<1> DEFINE s == Start(m, time)
<1>4. s = m \/ s = [m EXCEPT !.start = time]
  BY DEF Start
<1> HIDE DEF s
<1>5. /\ s \in TaskState
      /\ s.wait = w
      /\ s.arrival = r.arrival /\ s.exec = r.exec /\ s.remaining = r.remaining
      /\ s.completion = r.completion /\ s.preemptions = r.preemptions
      /\ s.inReady = FALSE /\ s.readyEnter = r.readyEnter
  BY <1>3, <1>4 DEF TaskState
<1>6. QED
  BY <1>1, <1>5 DEF s, m

-----------------------------------------------------------------------------
\* The CPU time of a task while the clock stands.

\* A task on a core has had its charged time and the time since its dispatch.
LEMMA ServedOnCore ==
  ASSUME NEW t, NEW tk, NEW run, NEW last, NEW time,
         NEW c \in Cores, run[c] = t,
         \A b \in Cores : b # c => run[b] # t
  PROVE  ServedAt(t, tk, run, last, time) = ServedSince(tk[t], last[c], time)
<1>1. (CHOOSE b \in Cores : run[b] = t) = c
  OBVIOUS
<1>2. QED
  BY <1>1 DEF ServedAt, ServedSince

\* A task on no core has had what it was charged for.
LEMMA ServedOffCore ==
  ASSUME NEW t, NEW tk, NEW run, NEW last, NEW time,
         tk[t] \in TaskState,
         \A c \in Cores : run[c] # t
  PROVE  ServedAt(t, tk, run, last, time) = tk[t].exec - tk[t].remaining
<1>1. ServedAt(t, tk, run, last, time) = (tk[t].exec - tk[t].remaining) + 0
  BY DEF ServedAt
<1>2. tk[t].exec - tk[t].remaining \in Int
  BY DEF TaskState
<1>3. QED
  BY <1>1, <1>2

\* A task whose record and core do not change has had the same CPU time.
LEMMA ServedSame ==
  ASSUME NEW tk, NEW q, NEW run, NEW last, NEW done, NEW time,
         NEW nt, NEW nq, NEW nrun, NEW nlast, NEW ndone,
         PlacesGood(tk, q, run, done), PlacesGood(nt, nq, nrun, ndone),
         NEW t \in Tasks, tk[t] \in TaskState, nt[t] = tk[t],
         \A b \in Cores : nrun[b] = t => run[b] = t,
         \A b \in Cores : run[b] = t => nrun[b] = t /\ nlast[b] = last[b]
  PROVE  ServedAt(t, nt, nrun, nlast, time) = ServedAt(t, tk, run, last, time)
<1>1. CASE \E c \in Cores : run[c] = t
  <2>1. PICK c \in Cores : run[c] = t
    BY <1>1
  <2>2. nrun[c] = t /\ nlast[c] = last[c] /\ t # NoTask
    BY <2>1, NoTaskAssumption
  <2>3. \A b \in Cores : b # c => run[b] # t
    BY <2>1, <2>2 DEF PlacesGood
  <2>4. \A b \in Cores : b # c => nrun[b] # t
    BY <2>2 DEF PlacesGood
  <2>5. ServedAt(t, tk, run, last, time) = ServedSince(tk[t], last[c], time)
    BY <2>1, <2>3, ServedOnCore
  <2>6. ServedAt(t, nt, nrun, nlast, time) = ServedSince(nt[t], nlast[c], time)
    BY <2>2, <2>4, ServedOnCore
  <2>7. QED
    BY <2>2, <2>5, <2>6
<1>2. CASE \A c \in Cores : run[c] # t
  BY <1>2, ServedOffCore
<1>3. QED
  BY <1>1, <1>2

-----------------------------------------------------------------------------
\* The elementary steps of the handlers preserve Good.

\* Popping the earliest event moves the clock forward to it.
LEMMA PopGood ==
  ASSUME NEW tk, NEW q, NEW run, NEW last, NEW done, NEW evs, NEW time,
         Good(tk, q, run, last, done, evs, time),
         NEW e \in Earliest(evs)
  PROVE  /\ Good(tk, q, run, last, done, evs \ {e}, e.time)
         /\ time <= e.time /\ e.time \in Nat
<1>1. /\ e \in evs /\ evs \subseteq Event(Tasks, Cores)
      /\ \A f \in evs : e.time <= f.time
  BY DEF Earliest, Good, TypesGood
<1>2. e.time \in Nat /\ time <= e.time /\ time \in Nat
  BY <1>1 DEF Event, Good, TypesGood, EventsGood
<1>3. TypesGood(tk, q, run, last, done, evs \ {e}, e.time)
  BY <1>1, <1>2 DEF Good, TypesGood
<1>4. AccountsGood(tk, q, run, last, done, e.time)
  <2> SUFFICES ASSUME NEW t \in Tasks
               PROVE  /\ t \in q => tk[t].readyEnter <= e.time
                      /\ \A c \in Cores : run[c] = t => last[c] <= e.time
    BY DEF Good, AccountsGood
  <2>1. /\ t \in q => tk[t].readyEnter <= time
        /\ \A c \in Cores : run[c] = t => last[c] <= time
    BY DEF Good, AccountsGood
  <2>2. tk[t].readyEnter \in Nat /\ \A c \in Cores : last[c] \in Nat
    BY DEF Good, TypesGood, TaskState
  <2>3. QED
    BY <1>2, <2>1, <2>2
<1>5. EventsGood(tk, q, run, last, done, evs \ {e}, e.time)
  <2> SUFFICES ASSUME NEW f \in evs,
                      f.type = "TIME_SLICE", f.task \in q
               PROVE  f.time <= e.time + tk[f.task].remaining
    BY <1>1 DEF Good, EventsGood
  <2>1. f.time <= time + tk[f.task].remaining
    BY DEF Good, EventsGood
  <2>2. f.time \in Nat /\ tk[f.task].remaining \in Nat
    BY <1>1 DEF Event, Good, TypesGood, TaskState
  <2>3. QED
    BY <1>2, <2>1, <2>2
<1>6. QED
  BY <1>2, <1>3, <1>4, <1>5 DEF Good

\* An arriving task enters the ready queue.
LEMMA ArriveGood ==
  ASSUME NEW tk, NEW q, NEW run, NEW last, NEW done, NEW evs, NEW time,
         Good(tk, q, run, last, done, evs, time),
         NEW t \in Tasks,
         Arriving(tk, q, run, done, evs, t, time),
         NEW nt, NEW nq, ArriveStep(tk, q, t, time, nt, nq)
  PROVE  /\ Good(nt, nq, run, last, done, evs, time)
         /\ Moves({t}, {}, tk, q, run, last, done, nt, nq, run, last, done, time)
<1> DEFINE r == MarkReady(tk[t], time)
<1>0. /\ tk \in [Tasks -> TaskState] /\ tk[t] \in TaskState /\ time \in Nat
      /\ evs \subseteq Event(Tasks, Cores)
      /\ nt = [tk EXCEPT ![t] = MarkReady(@, time)] /\ nq = q \cup {t}
      /\ NotArrived(t, q, run, done) /\ tk[t].arrival = time
      /\ \A f \in evs : f.type = "ARRIVAL" => f.task # t
  BY DEF Good, TypesGood, ArriveStep, Arriving
<1>1. /\ r \in TaskState
      /\ r.arrival = tk[t].arrival /\ r.exec = tk[t].exec /\ r.remaining = tk[t].remaining
      /\ r.completion = tk[t].completion /\ r.wait = tk[t].wait
      /\ r.inReady = TRUE /\ r.readyEnter = time
  BY <1>0, MarkReadyFields
<1> HIDE DEF r
<1>2. /\ nt \in [Tasks -> TaskState]
      /\ nt[t] = r
      /\ \A x \in Tasks : x # t => nt[x] = tk[x]
  BY <1>0, <1>1 DEF r
<1>3. TypesGood(nt, nq, run, last, done, evs, time)
  BY <1>0, <1>2 DEF Good, TypesGood
<1>4. PlacesGood(nt, nq, run, done)
  BY <1>0, <1>1, <1>2 DEF Good, PlacesGood, NotArrived
<1>5. AccountsGood(nt, nq, run, last, done, time)
  <2>1. Accounted(r) = time
    BY <1>0, <1>1 DEF Good, AccountsGood, Accounted, TaskState
  <2>2. r.remaining <= r.exec
    BY <1>1 DEF Good, AccountsGood
  <2>3. QED
    BY <1>0, <1>1, <1>2, <2>1, <2>2 DEF Good, AccountsGood, NotArrived
<1>6. EventsGood(nt, nq, run, last, done, evs, time)
  <2>1. \A f \in evs : f.task # t
    BY <1>0 DEF Good, EventsGood, Event
  <2>2. \A f \in evs : f.task \in Tasks /\ nt[f.task] = tk[f.task]
    BY <1>0, <1>2, <2>1 DEF Event
  <2>3. QED
    BY <1>0, <2>1, <2>2 DEF Good, EventsGood, NotArrived
<1>7. Moves({t}, {}, tk, q, run, last, done, nt, nq, run, last, done, time)
  <2>1. \A y \in Tasks : ServedAt(y, nt, run, last, time) = ServedAt(y, tk, run, last, time)
    BY <1>1, <1>2 DEF ServedAt
  <2>2. \A y \in Tasks :
          NotArrived(y, nq, run, done) <=> NotArrived(y, q, run, done) /\ y # t
    BY <1>0 DEF NotArrived
  <2>3. \A y \in Tasks : /\ nt[y].arrival = tk[y].arrival /\ nt[y].exec = tk[y].exec
                         /\ nt[y].completion = tk[y].completion
    BY <1>1, <1>2
  <2>4. QED
    BY <2>1, <2>2, <2>3 DEF Moves
<1>8. QED
  BY <1>3, <1>4, <1>5, <1>6, <1>7 DEF Good

\* A preempted or expired task is charged, leaves its core and is ready again.
LEMMA RequeueGood ==
  ASSUME NEW tk, NEW q, NEW run, NEW last, NEW done, NEW evs, NEW time,
         Good(tk, q, run, last, done, evs, time),
         NEW c \in Cores,
         Chargeable(tk, run, last, c, time),
         NEW nt, NEW nq, NEW nrun,
         RequeueStep(tk, q, run, last, c, time, nt, nq, nrun)
  PROVE  /\ Good(nt, nq, nrun, last, done, evs, time)
         /\ Moves({}, {}, tk, q, run, last, done, nt, nq, nrun, last, done, time)
<1> DEFINE u == run[c]
           x == Execute(tk[u], time - last[c])
           i == IncrementPreemptions(x)
           r == MarkReady(i, time)
<1>0. /\ tk \in [Tasks -> TaskState] /\ u \in Tasks /\ tk[u] \in TaskState
      /\ time \in Nat /\ last[c] \in Nat
      /\ evs \subseteq Event(Tasks, Cores)
      /\ run \in [Cores -> Tasks \cup {NoTask}]
      /\ u # NoTask /\ time <= last[c] + tk[u].remaining
      /\ nq = q \cup {u} /\ nrun = [run EXCEPT ![c] = NoTask]
  BY DEF Good, TypesGood, Chargeable, RequeueStep
<1>1. time - last[c] \in Nat /\ tk[u].remaining \in Nat
      /\ time - last[c] <= tk[u].remaining
  <2>1. last[c] <= time
    BY <1>0 DEF Good, AccountsGood
  <2>2. tk[u].remaining \in Nat
    BY <1>0 DEF TaskState
  <2>3. QED
    BY <1>0, <2>1, <2>2
<1>2. /\ x \in TaskState
      /\ x.remaining = tk[u].remaining - (time - last[c])
      /\ x.arrival = tk[u].arrival /\ x.exec = tk[u].exec
      /\ x.completion = tk[u].completion /\ x.wait = tk[u].wait
      /\ x.preemptions = tk[u].preemptions
  BY <1>0, <1>1, ExecuteFields
<1> HIDE DEF x
<1>3. /\ i \in TaskState
      /\ i.remaining = tk[u].remaining - (time - last[c])
      /\ i.arrival = tk[u].arrival /\ i.exec = tk[u].exec
      /\ i.completion = tk[u].completion /\ i.wait = tk[u].wait
  BY <1>2, IncrementFields
<1> HIDE DEF i
<1>4. /\ r \in TaskState
      /\ r.remaining = tk[u].remaining - (time - last[c])
      /\ r.arrival = tk[u].arrival /\ r.exec = tk[u].exec
      /\ r.completion = tk[u].completion /\ r.wait = tk[u].wait
      /\ r.inReady = TRUE /\ r.readyEnter = time
  BY <1>0, <1>3, MarkReadyFields
<1> HIDE DEF r
<1>5. /\ nt \in [Tasks -> TaskState]
      /\ nt[u] = r
      /\ \A y \in Tasks : y # u => nt[y] = tk[y]
  <2>1. nt = [tk EXCEPT ![u] = r]
    BY <1>0 DEF RequeueStep, r, i, x
  <2>2. QED
    BY <1>0, <1>4, <2>1
<1>6. /\ nrun \in [Cores -> Tasks \cup {NoTask}]
      /\ nrun[c] = NoTask
      /\ \A b \in Cores : b # c => nrun[b] = run[b]
      /\ \A b \in Cores : b # c => run[b] # u
      /\ u \notin q /\ u \notin done /\ NoTask \notin Tasks
  BY <1>0, NoTaskAssumption DEF Good, PlacesGood
<1>7. \A b \in Cores : nrun[b] # u
  BY <1>0, <1>6
<1>8. TypesGood(nt, nq, nrun, last, done, evs, time)
  BY <1>0, <1>5, <1>6 DEF Good, TypesGood
<1>9. PlacesGood(nt, nq, nrun, done)
  <2>1. NoTask \notin q /\ NoTask \notin done
    BY <1>6 DEF Good, TypesGood
  <2>2. \A y \in Tasks : nt[y].inReady <=> y \in nq
    BY <1>0, <1>4, <1>5 DEF Good, PlacesGood
  <2>3. \A a, b \in Cores : a # b /\ nrun[a] = nrun[b] => nrun[a] = NoTask
    BY <1>0, <1>6 DEF Good, PlacesGood
  <2>4. \A b \in Cores : nrun[b] \notin nq /\ nrun[b] \notin done
    BY <1>0, <1>6, <1>7, <2>1 DEF Good, PlacesGood
  <2>5. QED
    BY <1>0, <1>6, <2>2, <2>3, <2>4 DEF Good, PlacesGood
<1>10. \A y \in Tasks : y # u => /\ y \in nq <=> y \in q
                                 /\ \A b \in Cores : nrun[b] = y => run[b] = y /\ b # c
                                 /\ \A b \in Cores : run[b] = y => nrun[b] = y
  BY <1>0, <1>6
<1>11. AccountsGood(nt, nq, nrun, last, done, time)
  <2>1. Accounted(r) = time /\ r.remaining <= r.exec
    <3>1. Accounted(tk[u]) = last[c] /\ tk[u].remaining <= tk[u].exec
      BY <1>0 DEF Good, AccountsGood
    <3>2. QED
      BY <1>0, <1>1, <1>4, <3>1 DEF Accounted, TaskState
  <2> SUFFICES ASSUME NEW y \in Tasks
               PROVE  /\ nt[y].remaining <= nt[y].exec
                      /\ y \in nq =>
                           Accounted(nt[y]) = nt[y].readyEnter /\ nt[y].readyEnter <= time
                      /\ \A b \in Cores : nrun[b] = y =>
                           Accounted(nt[y]) = last[b] /\ last[b] <= time
                      /\ y \in done => /\ Accounted(nt[y]) = nt[y].completion
                                       /\ nt[y].remaining <= Eps
                      /\ NotArrived(y, nq, nrun, done) =>
                           nt[y].wait = 0 /\ nt[y].remaining = nt[y].exec
    BY DEF AccountsGood
  <2>2. CASE y = u
    BY <1>0, <1>4, <1>5, <1>6, <1>7, <2>1, <2>2 DEF NotArrived
  <2>3. CASE y # u
    BY <1>5, <1>10, <2>3 DEF Good, AccountsGood, NotArrived
  <2>4. QED
    BY <2>2, <2>3
<1>12. EventsGood(nt, nq, nrun, last, done, evs, time)
  <2> SUFFICES ASSUME NEW f \in evs
               PROVE  /\ time <= f.time
                      /\ f.type = "ARRIVAL" =>
                           /\ f = ArrivalEvent(f.task, nt[f.task].arrival)
                           /\ NotArrived(f.task, nq, nrun, done)
                      /\ f.type = "TIME_SLICE" =>
                           /\ ~NotArrived(f.task, nq, nrun, done)
                           /\ f.task \in nq => f.time <= time + nt[f.task].remaining
                           /\ \A b \in Cores : nrun[b] = f.task =>
                                f.time <= last[b] + nt[f.task].remaining
                           /\ f.task \in done => f.time <= nt[f.task].completion + Eps
    BY DEF EventsGood
  <2>1. f.task \in Tasks /\ f.time \in Nat /\ time <= f.time
    BY <1>0 DEF Event, Good, EventsGood
  <2>2. CASE f.task = u
    <3>1. f.type # "ARRIVAL"
      BY <1>0, <2>2 DEF Good, EventsGood, NotArrived
    <3>2. f.type = "TIME_SLICE" => f.time <= last[c] + tk[u].remaining
      BY <2>2 DEF Good, EventsGood
    <3>3. f.type = "TIME_SLICE" => f.time <= time + nt[u].remaining
      BY <1>0, <1>1, <1>4, <1>5, <2>1, <3>2
    <3>4. QED
      BY <1>0, <1>6, <1>7, <2>1, <2>2, <3>1, <3>3 DEF NotArrived
  <2>3. CASE f.task # u
    BY <1>5, <1>10, <2>1, <2>3 DEF Good, EventsGood, NotArrived
  <2>4. QED
    BY <2>2, <2>3
<1>13. Moves({}, {}, tk, q, run, last, done, nt, nq, nrun, last, done, time)
  <2>1. ServedAt(u, nt, nrun, last, time) = ServedAt(u, tk, run, last, time)
    <3>1. ServedAt(u, nt, nrun, last, time) = nt[u].exec - nt[u].remaining
      BY <1>4, <1>5, <1>7, ServedOffCore
    <3>2. ServedAt(u, tk, run, last, time) = ServedSince(tk[u], last[c], time)
      <4>1. \A b \in Cores : b # c => run[b] # u
        BY <1>6
      <4>2. QED
        BY <4>1, ServedOnCore
    <3>3. tk[u].exec \in Nat /\ nt[u].exec = tk[u].exec
          /\ nt[u].remaining = tk[u].remaining - (time - last[c])
      BY <1>0, <1>4, <1>5 DEF TaskState
    <3>4. QED
      BY <1>1, <3>1, <3>2, <3>3 DEF ServedSince
  <2>2. ASSUME NEW y \in Tasks, y # u
        PROVE  ServedAt(y, nt, nrun, last, time) = ServedAt(y, tk, run, last, time)
    <3>1. PlacesGood(tk, q, run, done) /\ tk[y] \in TaskState /\ nt[y] = tk[y]
      BY <1>0, <1>5, <2>2 DEF Good
    <3>2. QED
      BY <1>9, <1>10, <2>2, <3>1, ServedSame
  <2>3. \A y \in Tasks : NotArrived(y, nq, nrun, done) <=> NotArrived(y, q, run, done)
    BY <1>0, <1>10 DEF NotArrived
  <2>4. \A y \in Tasks : /\ nt[y].arrival = tk[y].arrival /\ nt[y].exec = tk[y].exec
                         /\ y \notin {} => nt[y].completion = tk[y].completion
    BY <1>4, <1>5
  <2>5. QED
    BY <1>0, <2>1, <2>2, <2>3, <2>4 DEF Moves
<1>14. QED
  BY <1>8, <1>9, <1>11, <1>12, <1>13 DEF Good

\* A task whose remaining time is within Eps is charged, completed, and leaves
\* its core.
LEMMA CompleteGood ==
  ASSUME NEW tk, NEW q, NEW run, NEW last, NEW done, NEW evs, NEW time,
         Good(tk, q, run, last, done, evs, time),
         NEW c \in Cores,
         Chargeable(tk, run, last, c, time),
         NEW nt, NEW nrun, NEW ndone,
         CompleteStep(tk, run, last, done, c, time, nt, nrun, ndone)
  PROVE  /\ Good(nt, q, nrun, last, ndone, evs, time)
         /\ Moves({}, {run[c]}, tk, q, run, last, done, nt, q, nrun, last, ndone, time)
<1> DEFINE u == run[c]
           x == Execute(tk[u], time - last[c])
           r == Complete(x, time)
<1>0. /\ tk \in [Tasks -> TaskState] /\ u \in Tasks /\ tk[u] \in TaskState
      /\ time \in Nat /\ last[c] \in Nat
      /\ evs \subseteq Event(Tasks, Cores)
      /\ run \in [Cores -> Tasks \cup {NoTask}]
      /\ u # NoTask /\ time <= last[c] + tk[u].remaining
      /\ ndone = done \cup {u} /\ nrun = [run EXCEPT ![c] = NoTask]
  BY DEF Good, TypesGood, Chargeable, CompleteStep
<1>1. time - last[c] \in Nat /\ tk[u].remaining \in Nat
      /\ time - last[c] <= tk[u].remaining
  <2>1. last[c] <= time
    BY <1>0 DEF Good, AccountsGood
  <2>2. tk[u].remaining \in Nat
    BY <1>0 DEF TaskState
  <2>3. QED
    BY <1>0, <2>1, <2>2
<1>2. /\ x \in TaskState
      /\ x.remaining = tk[u].remaining - (time - last[c])
      /\ x.arrival = tk[u].arrival /\ x.exec = tk[u].exec
      /\ x.wait = tk[u].wait /\ x.inReady = tk[u].inReady
  BY <1>0, <1>1, ExecuteFields
<1>3. x.remaining <= Eps
  BY <1>0 DEF IsCompleted, CompleteStep
<1> HIDE DEF x
<1>4. /\ r \in TaskState
      /\ r.remaining = tk[u].remaining - (time - last[c])
      /\ r.remaining <= Eps
      /\ r.arrival = tk[u].arrival /\ r.exec = tk[u].exec
      /\ r.completion = time /\ r.wait = tk[u].wait
      /\ r.inReady = tk[u].inReady
  BY <1>0, <1>2, <1>3, CompleteFields
<1> HIDE DEF r
<1>5. /\ nt \in [Tasks -> TaskState]
      /\ nt[u] = r
      /\ \A y \in Tasks : y # u => nt[y] = tk[y]
  <2>1. nt = [tk EXCEPT ![u] = r]
    BY <1>0 DEF CompleteStep, r, x
  <2>2. QED
    BY <1>0, <1>4, <2>1
<1>6. /\ nrun \in [Cores -> Tasks \cup {NoTask}]
      /\ nrun[c] = NoTask
      /\ \A b \in Cores : b # c => nrun[b] = run[b]
      /\ \A b \in Cores : b # c => run[b] # u
      /\ u \notin q /\ u \notin done /\ NoTask \notin Tasks
  BY <1>0, NoTaskAssumption DEF Good, PlacesGood
<1>7. \A b \in Cores : nrun[b] # u
  BY <1>0, <1>6
<1>8. TypesGood(nt, q, nrun, last, ndone, evs, time)
  BY <1>0, <1>5, <1>6 DEF Good, TypesGood
<1>9. PlacesGood(nt, q, nrun, ndone)
  <2>1. NoTask \notin q /\ NoTask \notin done
    BY <1>6 DEF Good, TypesGood
  <2>2. \A y \in Tasks : nt[y].inReady <=> y \in q
    BY <1>0, <1>4, <1>5 DEF Good, PlacesGood
  <2>3. \A a, b \in Cores : a # b /\ nrun[a] = nrun[b] => nrun[a] = NoTask
    BY <1>0, <1>6 DEF Good, PlacesGood
  <2>4. \A b \in Cores : nrun[b] \notin q /\ nrun[b] \notin ndone
    BY <1>0, <1>6, <1>7, <2>1 DEF Good, PlacesGood
  <2>5. QED
    BY <1>0, <1>6, <2>2, <2>3, <2>4 DEF Good, PlacesGood
<1>10. \A y \in Tasks : y # u => /\ y \in ndone <=> y \in done
                                 /\ \A b \in Cores : nrun[b] = y => run[b] = y /\ b # c
                                 /\ \A b \in Cores : run[b] = y => nrun[b] = y
  BY <1>0, <1>6
<1>11. AccountsGood(nt, q, nrun, last, ndone, time)
  <2>1. Accounted(r) = time /\ r.remaining <= r.exec
    <3>1. Accounted(tk[u]) = last[c] /\ tk[u].remaining <= tk[u].exec
      BY <1>0 DEF Good, AccountsGood
    <3>2. QED
      BY <1>0, <1>1, <1>4, <3>1 DEF Accounted, TaskState
  <2> SUFFICES ASSUME NEW y \in Tasks
               PROVE  /\ nt[y].remaining <= nt[y].exec
                      /\ y \in q =>
                           Accounted(nt[y]) = nt[y].readyEnter /\ nt[y].readyEnter <= time
                      /\ \A b \in Cores : nrun[b] = y =>
                           Accounted(nt[y]) = last[b] /\ last[b] <= time
                      /\ y \in ndone =>
                           /\ Accounted(nt[y]) = nt[y].completion
                           /\ nt[y].remaining <= Eps
                      /\ NotArrived(y, q, nrun, ndone) =>
                           nt[y].wait = 0 /\ nt[y].remaining = nt[y].exec
    BY DEF AccountsGood
  <2>2. CASE y = u
    BY <1>0, <1>4, <1>5, <1>6, <1>7, <2>1, <2>2 DEF NotArrived
  <2>3. CASE y # u
    BY <1>5, <1>10, <2>3 DEF Good, AccountsGood, NotArrived
  <2>4. QED
    BY <2>2, <2>3
<1>12. EventsGood(nt, q, nrun, last, ndone, evs, time)
  <2> SUFFICES ASSUME NEW f \in evs
               PROVE  /\ time <= f.time
                      /\ f.type = "ARRIVAL" =>
                           /\ f = ArrivalEvent(f.task, nt[f.task].arrival)
                           /\ NotArrived(f.task, q, nrun, ndone)
                      /\ f.type = "TIME_SLICE" =>
                           /\ ~NotArrived(f.task, q, nrun, ndone)
                           /\ f.task \in q => f.time <= time + nt[f.task].remaining
                           /\ \A b \in Cores : nrun[b] = f.task =>
                                f.time <= last[b] + nt[f.task].remaining
                           /\ f.task \in ndone =>
                                f.time <= nt[f.task].completion + Eps
    BY DEF EventsGood
  <2>1. f.task \in Tasks /\ f.time \in Nat /\ time <= f.time
    BY <1>0 DEF Event, Good, EventsGood
  <2>2. CASE f.task = u
    <3>1. f.type # "ARRIVAL"
      BY <1>0, <2>2 DEF Good, EventsGood, NotArrived
    <3>2. f.type = "TIME_SLICE" => f.time <= last[c] + tk[u].remaining
      BY <2>2 DEF Good, EventsGood
    <3>3. f.type = "TIME_SLICE" => f.time <= nt[u].completion + Eps
      <4>1. nt[u].completion = time
        BY <1>4, <1>5
      <4>2. last[c] + tk[u].remaining <= time + Eps
        BY <1>0, <1>1, <1>4, EpsAssumption
      <4>3. QED
        BY <1>0, <1>1, <2>1, <3>2, <4>1, <4>2, EpsAssumption
    <3>4. QED
      BY <1>0, <1>6, <1>7, <2>1, <2>2, <3>1, <3>3 DEF NotArrived
  <2>3. CASE f.task # u
    BY <1>5, <1>10, <2>1, <2>3 DEF Good, EventsGood, NotArrived
  <2>4. QED
    BY <2>2, <2>3
<1>13. Moves({}, {u}, tk, q, run, last, done, nt, q, nrun, last, ndone, time)
  <2>1. ServedAt(u, nt, nrun, last, time) = ServedAt(u, tk, run, last, time)
    <3>1. ServedAt(u, nt, nrun, last, time) = nt[u].exec - nt[u].remaining
      BY <1>4, <1>5, <1>7, ServedOffCore
    <3>2. ServedAt(u, tk, run, last, time) = ServedSince(tk[u], last[c], time)
      <4>1. \A b \in Cores : b # c => run[b] # u
        BY <1>6
      <4>2. QED
        BY <4>1, ServedOnCore
    <3>3. tk[u].exec \in Nat /\ nt[u].exec = tk[u].exec
          /\ nt[u].remaining = tk[u].remaining - (time - last[c])
      BY <1>0, <1>4, <1>5 DEF TaskState
    <3>4. QED
      BY <1>1, <3>1, <3>2, <3>3 DEF ServedSince
  <2>2. ASSUME NEW y \in Tasks, y # u
        PROVE  ServedAt(y, nt, nrun, last, time) = ServedAt(y, tk, run, last, time)
    <3>1. PlacesGood(tk, q, run, done) /\ tk[y] \in TaskState /\ nt[y] = tk[y]
      BY <1>0, <1>5, <2>2 DEF Good
    <3>2. QED
      BY <1>9, <1>10, <2>2, <3>1, ServedSame
  <2>3. \A y \in Tasks : NotArrived(y, q, nrun, ndone) <=> NotArrived(y, q, run, done)
    BY <1>0, <1>10 DEF NotArrived
  <2>4. \A y \in Tasks : /\ nt[y].arrival = tk[y].arrival /\ nt[y].exec = tk[y].exec
                         /\ y \notin {u} => nt[y].completion = tk[y].completion
    BY <1>4, <1>5
  <2>5. QED
    BY <1>0, <2>1, <2>2, <2>3, <2>4 DEF Moves
<1>14. QED
  BY <1>8, <1>9, <1>11, <1>12, <1>13 DEF Good

\* A task of the ready queue is dispatched on an idle core, and its slice
\* event enters the heap.
LEMMA DispatchGood ==
  ASSUME NEW tk, NEW q, NEW run, NEW last, NEW done, NEW evs, NEW time,
         Good(tk, q, run, last, done, evs, time),
         NEW c \in Cores,
         run[c] = NoTask,
         NEW t \in q,
         NEW s \in Nat,
         NEW nt, NEW nq, NEW nrun, NEW nlast, NEW end, NEW nevs,
         DispatchStep(tk, q, run, last, evs, c, t, s, time,
                      nt, nq, nrun, nlast, end, nevs)
  PROVE  /\ Good(nt, nq, nrun, nlast, done, nevs, time)
         /\ Moves({}, {}, tk, q, run, last, done, nt, nq, nrun, nlast, done, time)
         /\ end <= time + tk[t].remaining
<1> DEFINE r == Start(MarkDispatched(tk[t], time), time)
           ev == SliceEvent(t, end, c, tk[t].preemptions)
<1>0. /\ tk \in [Tasks -> TaskState] /\ t \in Tasks /\ tk[t] \in TaskState
      /\ time \in Nat
      /\ evs \subseteq Event(Tasks, Cores)
      /\ run \in [Cores -> Tasks \cup {NoTask}] /\ last \in [Cores -> Nat]
      /\ t # NoTask
      /\ nt = [tk EXCEPT ![t] = r] /\ nq = q \ {t}
      /\ nrun = [run EXCEPT ![c] = t] /\ nlast = [last EXCEPT ![c] = time]
      /\ end = SliceEnd(tk[t], s, time) /\ nevs = evs \cup {ev}
  BY NoTaskAssumption DEF Good, TypesGood, DispatchStep
<1>1. /\ tk[t].inReady /\ t \notin done /\ \A b \in Cores : run[b] # t
      /\ Accounted(tk[t]) = tk[t].readyEnter /\ tk[t].readyEnter <= time
      /\ tk[t].remaining <= tk[t].exec
  BY <1>0 DEF Good, PlacesGood, AccountsGood
<1>2. /\ r \in TaskState
      /\ r.wait = tk[t].wait + (time - tk[t].readyEnter)
      /\ r.arrival = tk[t].arrival /\ r.exec = tk[t].exec
      /\ r.remaining = tk[t].remaining /\ r.completion = tk[t].completion
      /\ r.inReady = FALSE
  BY <1>0, <1>1, DispatchedFields
<1> HIDE DEF r
<1>3. /\ nt \in [Tasks -> TaskState]
      /\ nt[t] = r
      /\ \A y \in Tasks : y # t => nt[y] = tk[y]
  BY <1>0, <1>2 DEF r
<1>4. /\ nrun \in [Cores -> Tasks \cup {NoTask}]
      /\ nlast \in [Cores -> Nat]
      /\ nrun[c] = t /\ nlast[c] = time
      /\ \A b \in Cores : b # c => nrun[b] = run[b] /\ nlast[b] = last[b]
  BY <1>0
<1>5. end \in Nat /\ time <= end /\ end <= time + tk[t].remaining
  <2>1. SliceLength(s) \in Nat
    BY SliceAssumption DEF SliceLength
  <2>2. tk[t].remaining \in Nat
    BY <1>0 DEF TaskState
  <2>3. QED
    BY <1>0, <2>1, <2>2 DEF SliceEnd
<1>6. /\ ev \in Event(Tasks, Cores)
      /\ ev.type = "TIME_SLICE" /\ ev.time = end /\ ev.task = t
  <2>1. tk[t].preemptions \in Nat
    BY <1>0 DEF TaskState
  <2>2. QED
    BY <1>0, <1>5, <2>1 DEF SliceEvent, Event
<1> HIDE DEF ev
<1>7. TypesGood(nt, nq, nrun, nlast, done, nevs, time)
  BY <1>0, <1>3, <1>4, <1>6 DEF Good, TypesGood
<1>8. PlacesGood(nt, nq, nrun, done)
  <2>1. \A y \in Tasks : nt[y].inReady <=> y \in nq
    BY <1>0, <1>2, <1>3 DEF Good, PlacesGood
  <2>2. \A a, b \in Cores : a # b /\ nrun[a] = nrun[b] => nrun[a] = NoTask
    BY <1>0, <1>1, <1>4 DEF Good, PlacesGood
  <2>3. \A b \in Cores : nrun[b] \notin nq /\ nrun[b] \notin done
    BY <1>0, <1>1, <1>4 DEF Good, PlacesGood
  <2>4. QED
    BY <1>0, <2>1, <2>2, <2>3 DEF Good, PlacesGood
<1>9. \A y \in Tasks : y # t => /\ y \in nq <=> y \in q
                                /\ \A b \in Cores : nrun[b] = y => run[b] = y /\ b # c
                                /\ \A b \in Cores : run[b] = y => nrun[b] = y
  BY <1>0, <1>4, NoTaskAssumption
<1>10. AccountsGood(nt, nq, nrun, nlast, done, time)
  <2>1. Accounted(r) = time
    BY <1>0, <1>1, <1>2 DEF Accounted, TaskState
  <2> SUFFICES ASSUME NEW y \in Tasks
               PROVE  /\ nt[y].remaining <= nt[y].exec
                      /\ y \in nq =>
                           Accounted(nt[y]) = nt[y].readyEnter /\ nt[y].readyEnter <= time
                      /\ \A b \in Cores : nrun[b] = y =>
                           Accounted(nt[y]) = nlast[b] /\ nlast[b] <= time
                      /\ y \in done => /\ Accounted(nt[y]) = nt[y].completion
                                       /\ nt[y].remaining <= Eps
                      /\ NotArrived(y, nq, nrun, done) =>
                           nt[y].wait = 0 /\ nt[y].remaining = nt[y].exec
    BY DEF AccountsGood
  <2>2. CASE y = t
    BY <1>0, <1>1, <1>2, <1>3, <1>4, <2>1, <2>2 DEF NotArrived
  <2>3. CASE y # t
    BY <1>3, <1>4, <1>9, <2>3 DEF Good, AccountsGood, NotArrived
  <2>4. QED
    BY <2>2, <2>3
<1>11. EventsGood(nt, nq, nrun, nlast, done, nevs, time)
  <2> SUFFICES ASSUME NEW f \in nevs
               PROVE  /\ time <= f.time
                      /\ f.type = "ARRIVAL" =>
                           /\ f = ArrivalEvent(f.task, nt[f.task].arrival)
                           /\ NotArrived(f.task, nq, nrun, done)
                      /\ f.type = "TIME_SLICE" =>
                           /\ ~NotArrived(f.task, nq, nrun, done)
                           /\ f.task \in nq => f.time <= time + nt[f.task].remaining
                           /\ \A b \in Cores : nrun[b] = f.task =>
                                f.time <= nlast[b] + nt[f.task].remaining
                           /\ f.task \in done => f.time <= nt[f.task].completion + Eps
    BY DEF EventsGood
  <2>1. ~NotArrived(t, nq, nrun, done) /\ \A b \in Cores : nrun[b] = t => b = c
    BY <1>1, <1>4 DEF NotArrived
  <2>2. CASE f = ev
    BY <1>1, <1>2, <1>3, <1>4, <1>5, <1>6, <2>1, <2>2
  <2>3. CASE f \in evs
    <3>1. f.task \in Tasks /\ f.time \in Nat /\ time <= f.time
      BY <1>0, <2>3 DEF Event, Good, EventsGood
    <3>2. CASE f.task = t
      <4>1. f.type # "ARRIVAL"
        BY <2>3, <3>2 DEF Good, EventsGood, NotArrived
      <4>2. f.type = "TIME_SLICE" => f.time <= time + tk[t].remaining
        BY <2>3, <3>2 DEF Good, EventsGood
      <4>3. QED
        BY <1>1, <1>2, <1>3, <1>4, <2>1, <3>1, <3>2, <4>1, <4>2
    <3>3. CASE f.task # t
      BY <1>3, <1>4, <1>9, <2>3, <3>1, <3>3 DEF Good, EventsGood, NotArrived
    <3>4. QED
      BY <3>2, <3>3
  <2>4. QED
    BY <1>0, <2>2, <2>3
<1>12. Moves({}, {}, tk, q, run, last, done, nt, nq, nrun, nlast, done, time)
  <2>1. ServedAt(t, nt, nrun, nlast, time) = ServedAt(t, tk, run, last, time)
    <3>1. ServedAt(t, tk, run, last, time) = tk[t].exec - tk[t].remaining
      BY <1>0, <1>1, ServedOffCore
    <3>2. ServedAt(t, nt, nrun, nlast, time) = ServedSince(nt[t], nlast[c], time)
      BY <1>1, <1>4, ServedOnCore
    <3>3. /\ tk[t].exec - tk[t].remaining \in Int
          /\ nt[t].exec = tk[t].exec /\ nt[t].remaining = tk[t].remaining
      BY <1>0, <1>2, <1>3 DEF TaskState
    <3>4. QED
      BY <1>0, <1>4, <3>1, <3>2, <3>3 DEF ServedSince
  <2>2. ASSUME NEW y \in Tasks, y # t
        PROVE  ServedAt(y, nt, nrun, nlast, time) = ServedAt(y, tk, run, last, time)
    <3>1. PlacesGood(tk, q, run, done) /\ tk[y] \in TaskState /\ nt[y] = tk[y]
      BY <1>0, <1>3, <2>2 DEF Good
    <3>2. \A b \in Cores : run[b] = y => nrun[b] = y /\ nlast[b] = last[b]
      BY <1>4, <1>9, <2>2
    <3>3. QED
      BY <1>8, <1>9, <2>2, <3>1, <3>2, ServedSame
  <2>3. \A y \in Tasks : NotArrived(y, nq, nrun, done) <=> NotArrived(y, q, run, done)
    BY <1>0, <1>4, <1>9 DEF NotArrived
  <2>4. \A y \in Tasks : /\ nt[y].arrival = tk[y].arrival /\ nt[y].exec = tk[y].exec
                         /\ nt[y].completion = tk[y].completion
    BY <1>2, <1>3
  <2>5. QED
    BY <2>1, <2>2, <2>3, <2>4 DEF Moves
<1>13. QED
  BY <1>5, <1>7, <1>8, <1>10, <1>11, <1>12 DEF Good

-----------------------------------------------------------------------------
\* The elementary steps preserve Consistent.

\* Core b keeps the event of its dispatch when neither that event nor the task
\* on b is touched.
LEMMA SliceKept ==
  ASSUME NEW b, NEW e, NEW tk, NEW nt, NEW run, NEW last, NEW evs,
         HasSlice(b, tk, run, last, evs),
         nt[run[b]] = tk[run[b]],
         ~(e.type = "TIME_SLICE" /\ e.core = b /\ e.task = run[b])
  PROVE  HasSlice(b, nt, run, last, evs \ {e})
  BY DEF HasSlice

\* Tasks that have not arrived keep their events through elementary steps.
LEMMA WaitingKept ==
  ASSUME NEW A, NEW L, NEW tk, NEW q, NEW run, NEW last, NEW done, NEW evs, NEW time,
         NEW nt, NEW nq, NEW nrun, NEW nlast, NEW ndone, NEW nevs,
         Waiting(tk, q, run, done, evs),
         Moves(A, L, tk, q, run, last, done, nt, nq, nrun, nlast, ndone, time),
         \A f \in evs : f.type = "ARRIVAL" /\ f.task \notin A => f \in nevs
  PROVE  Waiting(nt, nq, nrun, ndone, nevs)
<1> SUFFICES ASSUME NEW t \in Tasks, NotArrived(t, nq, nrun, ndone)
             PROVE  ArrivalEvent(t, nt[t].arrival) \in nevs
  BY DEF Waiting
<1>1. NotArrived(t, q, run, done) /\ t \notin A /\ nt[t].arrival = tk[t].arrival
  BY DEF Moves
<1>2. ArrivalEvent(t, tk[t].arrival) \in evs
  BY <1>1 DEF Waiting
<1>3. /\ ArrivalEvent(t, tk[t].arrival).type = "ARRIVAL"
      /\ ArrivalEvent(t, tk[t].arrival).task = t
  BY DEF ArrivalEvent
<1>4. QED
  BY <1>1, <1>2, <1>3

\* What is known of the earliest event.
LEMMA EarliestFacts ==
  ASSUME NEW tk, NEW q, NEW run, NEW last, NEW done, NEW evs, NEW time,
         Good(tk, q, run, last, done, evs, time),
         NEW e \in Earliest(evs)
  PROVE  /\ Good(tk, q, run, last, done, evs \ {e}, e.time)
         /\ e \in evs /\ e \in Event(Tasks, Cores)
         /\ e.time \in Nat /\ time <= e.time /\ e.task \in Tasks /\ e.core \in Cores
         /\ \A f \in evs : e.time <= f.time
<1>1. Good(tk, q, run, last, done, evs \ {e}, e.time) /\ e.time \in Nat /\ time <= e.time
  BY PopGood
<1>2. e \in evs /\ \A f \in evs : e.time <= f.time
  BY DEF Earliest
<1>3. e \in Event(Tasks, Cores)
  BY <1>2 DEF Good, TypesGood
<1>4. QED
  BY <1>1, <1>2, <1>3 DEF Event

\* An ARRIVAL is popped and its task enters the ready queue.
LEMMA ArrivalConsistent ==
  ASSUME NEW tk, NEW q, NEW run, NEW last, NEW done, NEW evs, NEW time,
         Consistent(tk, q, run, last, done, evs, time),
         NEW e \in Earliest(evs), e.type = "ARRIVAL",
         NEW t, t = e.task,
         NEW nt, NEW nq, ArriveStep(tk, q, t, e.time, nt, nq)
  PROVE  /\ Consistent(nt, nq, run, last, done, evs \ {e}, e.time)
         /\ Moves({t}, {}, tk, q, run, last, done, nt, nq, run, last, done, e.time)
         /\ NotArrived(t, q, run, done)
         /\ t \in Tasks
         /\ DueAt(t, tk, e.time)
<1>1. /\ Good(tk, q, run, last, done, evs \ {e}, e.time)
      /\ e \in evs /\ e.task \in Tasks
  BY EarliestFacts DEF Consistent
<1>2. \A f \in evs : f.type = "ARRIVAL" =>
        f = ArrivalEvent(f.task, tk[f.task].arrival) /\ NotArrived(f.task, q, run, done)
  BY DEF Consistent, Good, EventsGood
<1>3. e = ArrivalEvent(e.task, tk[e.task].arrival) /\ NotArrived(e.task, q, run, done)
  BY <1>1, <1>2
<1>4. tk[e.task].arrival = e.time
  BY <1>3 DEF ArrivalEvent
<1>5. t \in Tasks
  BY <1>1
<1>6. Arriving(tk, q, run, done, evs \ {e}, t, e.time)
  BY <1>2, <1>3, <1>4, <1>5 DEF Arriving
<1>7. /\ Good(nt, nq, run, last, done, evs \ {e}, e.time)
      /\ Moves({t}, {}, tk, q, run, last, done, nt, nq, run, last, done, e.time)
  BY <1>1, <1>5, <1>6, ArriveGood
<1>8. Slots(nt, run, last, evs \ {e})
  <2> SUFFICES ASSUME NEW b \in Cores, run[b] # NoTask
               PROVE  HasSlice(b, nt, run, last, evs \ {e})
    BY DEF Slots
  <2>1. HasSlice(b, tk, run, last, evs)
    BY DEF Consistent, Slots
  <2>2. run[b] \in Tasks /\ run[b] # t /\ tk \in [Tasks -> TaskState]
    BY <1>1, <1>3, <1>5 DEF Good, TypesGood, NotArrived
  <2>3. nt[run[b]] = tk[run[b]]
    BY <2>2 DEF ArriveStep
  <2>4. QED
    BY <2>1, <2>3, SliceKept
<1>9. Waiting(nt, nq, run, done, evs \ {e})
  <2>1. Waiting(tk, q, run, done, evs)
    BY DEF Consistent
  <2>2. \A f \in evs : f.type = "ARRIVAL" /\ f.task \notin {t} => f \in evs \ {e}
    BY <1>5
  <2>3. QED
    BY <1>7, <2>1, <2>2, WaitingKept
<1>10. ClockBound(nt, done, e.time)
  BY <1>1, <1>3 DEF ClockBound, NotArrived
<1>11. QED
  BY <1>3, <1>4, <1>5, <1>7, <1>8, <1>9, <1>10 DEF Consistent, DueAt

\* A TIME_SLICE that finds its task on its core interrupts it.
LEMMA SliceInterrupts ==
  ASSUME NEW tk, NEW q, NEW run, NEW last, NEW done, NEW evs, NEW time,
         Consistent(tk, q, run, last, done, evs, time),
         NEW e \in Earliest(evs), e.type = "TIME_SLICE", run[e.core] = e.task
  PROVE  Interrupted(e.core, tk, q, run, last, done, evs \ {e}, e.time)
<1>1. /\ Good(tk, q, run, last, done, evs \ {e}, e.time)
      /\ e \in evs /\ e.task \in Tasks /\ e.core \in Cores
  BY EarliestFacts DEF Consistent
<1>2. Chargeable(tk, run, last, e.core, e.time)
  <2>1. e.time <= last[e.core] + tk[e.task].remaining
    BY <1>1 DEF Consistent, Good, EventsGood
  <2>2. QED
    BY <1>1, <2>1, NoTaskAssumption DEF Chargeable
<1>3. ASSUME NEW b \in Cores, b # e.core, run[b] # NoTask
      PROVE  HasSlice(b, tk, run, last, evs \ {e})
  <2>1. HasSlice(b, tk, run, last, evs)
    BY <1>3 DEF Consistent, Slots
  <2>2. QED
    BY <1>3, <2>1, SliceKept
<1>4. Waiting(tk, q, run, done, evs \ {e})
  BY DEF Consistent, Waiting, ArrivalEvent
<1>5. QED
  BY <1>1, <1>2, <1>3, <1>4 DEF Interrupted

\* A TIME_SLICE that does not changes nothing else.
LEMMA SlicePasses ==
  ASSUME NEW tk, NEW q, NEW run, NEW last, NEW done, NEW evs, NEW time,
         Consistent(tk, q, run, last, done, evs, time),
         NEW e \in Earliest(evs), e.type = "TIME_SLICE", run[e.core] # e.task
  PROVE  Consistent(tk, q, run, last, done, evs \ {e}, e.time)
<1>1. /\ Good(tk, q, run, last, done, evs \ {e}, e.time)
      /\ e \in evs /\ e.task \in Tasks /\ e.core \in Cores
  BY EarliestFacts DEF Consistent
<1>2. Slots(tk, run, last, evs \ {e})
  <2> SUFFICES ASSUME NEW b \in Cores, run[b] # NoTask
               PROVE  HasSlice(b, tk, run, last, evs \ {e})
    BY DEF Slots
  <2>1. HasSlice(b, tk, run, last, evs)
    BY DEF Consistent, Slots
  <2>2. QED
    BY <2>1, SliceKept
<1>3. Waiting(tk, q, run, done, evs \ {e})
  BY DEF Consistent, Waiting, ArrivalEvent
<1>4. ClockBound(tk, done, e.time)
  <2>1. e.task \in done => e.time <= tk[e.task].completion + Eps
    BY <1>1 DEF Consistent, Good, EventsGood
  <2>2. QED
    BY <1>1, <2>1 DEF ClockBound
<1>5. QED
  BY <1>1, <1>2, <1>3, <1>4 DEF Consistent

\* The task of a busy core may be preempted at any time.
LEMMA ArrivalInterrupts ==
  ASSUME NEW tk, NEW q, NEW run, NEW last, NEW done, NEW evs, NEW time,
         Consistent(tk, q, run, last, done, evs, time),
         NEW c \in Cores, run[c] # NoTask
  PROVE  Interrupted(c, tk, q, run, last, done, evs, time)
<1>0. /\ evs \subseteq Event(Tasks, Cores) /\ tk \in [Tasks -> TaskState]
      /\ run \in [Cores -> Tasks \cup {NoTask}] /\ last \in [Cores -> Nat] /\ time \in Nat
  BY DEF Consistent, Good, TypesGood
<1>1. PICK f \in evs : f.time <= last[c] + tk[run[c]].remaining
  BY DEF Consistent, Slots, HasSlice
<1>2. time <= f.time
  BY <1>1 DEF Consistent, Good, EventsGood
<1>3. f.time \in Nat
  BY <1>0 DEF Event
<1>4. tk[run[c]].remaining \in Nat /\ last[c] \in Nat
  BY <1>0 DEF TaskState
<1>5. Chargeable(tk, run, last, c, time)
  BY <1>0, <1>1, <1>2, <1>3, <1>4 DEF Chargeable
<1>6. QED
  BY <1>5 DEF Consistent, Slots, Interrupted


\* The other cores of an interrupted one keep their events when its task leaves.
LEMMA InterruptedSlots ==
  ASSUME NEW tk, NEW q, NEW run, NEW last, NEW done, NEW evs, NEW time,
         NEW c \in Cores, Interrupted(c, tk, q, run, last, done, evs, time),
         NEW nt, NEW nrun, nrun = [run EXCEPT ![c] = NoTask],
         SameBut(run[c], tk, nt)
  PROVE  Slots(nt, nrun, last, evs)
<1>1. /\ run \in [Cores -> Tasks \cup {NoTask}] /\ run[c] # NoTask
      /\ PlacesGood(tk, q, run, done)
  BY DEF Interrupted, Good, TypesGood, Chargeable
<1>2. ASSUME NEW b \in Cores, nrun[b] # NoTask
      PROVE  HasSlice(b, nt, nrun, last, evs)
  <2>1. b # c /\ nrun[b] = run[b]
    BY <1>1, <1>2
  <2>2. HasSlice(b, tk, run, last, evs)
    BY <1>2, <2>1 DEF Interrupted
  <2>3. run[b] \in Tasks /\ run[b] # run[c]
    BY <1>1, <1>2, <2>1 DEF PlacesGood
  <2>4. nt[nrun[b]] = tk[nrun[b]]
    BY <2>1, <2>3 DEF SameBut
  <2>5. QED
    BY <2>1, <2>2, <2>4 DEF HasSlice
<1>3. QED
  BY <1>2 DEF Slots

\* A preempted or expired task goes back to the ready queue.
LEMMA RequeueConsistent ==
  ASSUME NEW tk, NEW q, NEW run, NEW last, NEW done, NEW evs, NEW time,
         NEW c \in Cores, Interrupted(c, tk, q, run, last, done, evs, time),
         NEW nt, NEW nq, NEW nrun,
         RequeueStep(tk, q, run, last, c, time, nt, nq, nrun)
  PROVE  /\ Consistent(nt, nq, nrun, last, done, evs, time)
         /\ Moves({}, {}, tk, q, run, last, done, nt, nq, nrun, last, done, time)
         /\ nrun[c] = NoTask
<1>1. /\ Good(tk, q, run, last, done, evs, time)
      /\ Chargeable(tk, run, last, c, time)
  BY DEF Interrupted
<1>2. /\ Good(nt, nq, nrun, last, done, evs, time)
      /\ Moves({}, {}, tk, q, run, last, done, nt, nq, nrun, last, done, time)
  BY <1>1, RequeueGood
<1>3. /\ tk \in [Tasks -> TaskState] /\ run \in [Cores -> Tasks \cup {NoTask}]
      /\ run[c] \in Tasks /\ run[c] \notin done
      /\ nrun = [run EXCEPT ![c] = NoTask]
  BY <1>1 DEF Good, TypesGood, PlacesGood, Chargeable, RequeueStep
<1>4. \A y \in Tasks : y # run[c] => nt[y] = tk[y]
  <2> DEFINE mt == [tk EXCEPT ![run[c]] = Execute(@, time - last[c])]
             r == MarkReady(IncrementPreemptions(mt[run[c]]), time)
  <2>1. DOMAIN mt = Tasks /\ \A y \in Tasks : y # run[c] => mt[y] = tk[y]
    BY <1>3
  <2>2. nt = [mt EXCEPT ![run[c]] = r]
    BY DEF RequeueStep
  <2> HIDE DEF mt, r
  <2>3. QED
    BY <2>1, <2>2
<1>5. Slots(nt, nrun, last, evs)
  <2>1. SameBut(run[c], tk, nt)
    BY <1>4 DEF SameBut
  <2>2. nrun = [run EXCEPT ![c] = NoTask]
    BY <1>3
  <2>3. QED
    BY <2>1, <2>2, InterruptedSlots
<1>6. Waiting(nt, nq, nrun, done, evs)
  <2>1. Waiting(tk, q, run, done, evs)
    BY DEF Interrupted
  <2>2. QED
    BY <1>2, <2>1, WaitingKept
<1>7. ClockBound(nt, done, time)
  BY <1>3 DEF ClockBound
<1>8. QED
  BY <1>2, <1>3, <1>5, <1>6, <1>7 DEF Consistent

\* A task whose work is done leaves.
LEMMA CompleteConsistent ==
  ASSUME NEW tk, NEW q, NEW run, NEW last, NEW done, NEW evs, NEW time,
         NEW c \in Cores, Interrupted(c, tk, q, run, last, done, evs, time),
         NEW nt, NEW nrun, NEW ndone,
         CompleteStep(tk, run, last, done, c, time, nt, nrun, ndone)
  PROVE  /\ Consistent(nt, q, nrun, last, ndone, evs, time)
         /\ Moves({}, {run[c]}, tk, q, run, last, done, nt, q, nrun, last, ndone, time)
         /\ nrun[c] = NoTask
         /\ run[c] \in Tasks /\ run[c] \notin done
<1>1. /\ Good(tk, q, run, last, done, evs, time)
      /\ Chargeable(tk, run, last, c, time)
  BY DEF Interrupted
<1>2. /\ Good(nt, q, nrun, last, ndone, evs, time)
      /\ Moves({}, {run[c]}, tk, q, run, last, done, nt, q, nrun, last, ndone, time)
  BY <1>1, CompleteGood
<1>3. /\ tk \in [Tasks -> TaskState] /\ run \in [Cores -> Tasks \cup {NoTask}]
      /\ run[c] \in Tasks /\ run[c] \notin done /\ time \in Nat
      /\ nrun = [run EXCEPT ![c] = NoTask]
  BY <1>1 DEF Good, TypesGood, PlacesGood, Chargeable, CompleteStep
<1> DEFINE mt == [tk EXCEPT ![run[c]] = Execute(@, time - last[c])]
           r == Complete(mt[run[c]], time)
<1>a. DOMAIN mt = Tasks /\ \A y \in Tasks : y # run[c] => mt[y] = tk[y]
  BY <1>3
<1>b. mt[run[c]] = Execute(tk[run[c]], time - last[c])
  BY <1>3
<1>c. nt = [mt EXCEPT ![run[c]] = r]
  BY DEF CompleteStep
<1> HIDE DEF mt
<1>d. r.completion = time
  <2>1. "completion" \in DOMAIN mt[run[c]]
    BY <1>3, <1>b DEF Execute, TaskState
  <2>2. QED
    BY <2>1 DEF Complete
<1> HIDE DEF r
<1>4. \A y \in Tasks : y # run[c] => nt[y] = tk[y]
  BY <1>a, <1>c
<1>5. Slots(nt, nrun, last, evs)
  <2>1. SameBut(run[c], tk, nt)
    BY <1>4 DEF SameBut
  <2>2. nrun = [run EXCEPT ![c] = NoTask]
    BY <1>3
  <2>3. QED
    BY <2>1, <2>2, InterruptedSlots
<1>6. Waiting(nt, q, nrun, ndone, evs)
  <2>1. Waiting(tk, q, run, done, evs)
    BY DEF Interrupted
  <2>2. QED
    BY <1>2, <2>1, WaitingKept
<1>7. ClockBound(nt, ndone, time)
  <2>1. nt[run[c]].completion = time
    BY <1>3, <1>a, <1>c, <1>d
  <2>2. QED
    BY <1>3, <2>1, EpsAssumption DEF ClockBound
<1>8. QED
  BY <1>2, <1>3, <1>5, <1>6, <1>7 DEF Consistent

\* A ready task is dispatched on an idle core.
LEMMA DispatchConsistent ==
  ASSUME NEW tk, NEW q, NEW run, NEW last, NEW done, NEW evs, NEW time,
         Consistent(tk, q, run, last, done, evs, time),
         NEW c \in Cores, run[c] = NoTask,
         NEW t \in q, NEW s \in Nat,
         NEW nt, NEW nq, NEW nrun, NEW nlast, NEW end, NEW nevs,
         DispatchStep(tk, q, run, last, evs, c, t, s, time,
                      nt, nq, nrun, nlast, end, nevs)
  PROVE  /\ Consistent(nt, nq, nrun, nlast, done, nevs, time)
         /\ Moves({}, {}, tk, q, run, last, done, nt, nq, nrun, nlast, done, time)
<1>1. Good(tk, q, run, last, done, evs, time)
  BY DEF Consistent
<1>2. /\ Good(nt, nq, nrun, nlast, done, nevs, time)
      /\ Moves({}, {}, tk, q, run, last, done, nt, nq, nrun, nlast, done, time)
      /\ end <= time + tk[t].remaining
  BY <1>1, DispatchGood
<1>3. /\ tk \in [Tasks -> TaskState] /\ run \in [Cores -> Tasks \cup {NoTask}]
      /\ last \in [Cores -> Nat] /\ time \in Nat
      /\ t \in Tasks /\ t \notin done
      /\ tk[t].inReady /\ tk[t].readyEnter <= time
      /\ \A b \in Cores : run[b] # t
  BY <1>1 DEF Good, TypesGood, PlacesGood, AccountsGood
<1>4. /\ nt = [tk EXCEPT ![t] = Start(MarkDispatched(tk[t], time), time)]
      /\ nrun = [run EXCEPT ![c] = t] /\ nlast = [last EXCEPT ![c] = time]
      /\ nevs = evs \cup {SliceEvent(t, end, c, tk[t].preemptions)}
  BY DEF DispatchStep
<1>5. /\ nt[t].remaining = tk[t].remaining /\ nt[t].preemptions = tk[t].preemptions
      /\ \A y \in Tasks : y # t => nt[y] = tk[y]
  <2>1. tk[t] \in TaskState
    BY <1>3
  <2>2. nt[t] = Start(MarkDispatched(tk[t], time), time)
    BY <1>3, <1>4
  <2> DEFINE r == Start(MarkDispatched(tk[t], time), time)
  <2>3. r.remaining = tk[t].remaining /\ r.preemptions = tk[t].preemptions
    BY <1>3, <2>1, DispatchedFields
  <2> HIDE DEF r
  <2>4. nt[t].remaining = tk[t].remaining /\ nt[t].preemptions = tk[t].preemptions
    BY <2>2, <2>3 DEF r
  <2>5. QED
    BY <1>3, <1>4, <2>4
<1>6. Slots(nt, nrun, nlast, nevs)
  <2> SUFFICES ASSUME NEW b \in Cores, nrun[b] # NoTask
               PROVE  HasSlice(b, nt, nrun, nlast, nevs)
    BY DEF Slots
  <2>1. CASE b = c
    <3>1. nrun[c] = t /\ nlast[c] = time
      BY <1>3, <1>4
    <3>2. end <= nlast[c] + nt[t].remaining
      BY <1>2, <1>5, <3>1
    <3> DEFINE ev == SliceEvent(t, end, c, tk[t].preemptions)
    <3>3. /\ ev.type = "TIME_SLICE" /\ ev.core = c /\ ev.task = t
          /\ ev.n = tk[t].preemptions /\ ev.time = end
      BY DEF SliceEvent
    <3>4. ev \in nevs
      BY <1>4
    <3> HIDE DEF ev
    <3>5. QED
      BY <1>5, <2>1, <3>1, <3>2, <3>3, <3>4 DEF HasSlice
  <2>2. CASE b # c
    <3>1. nrun[b] = run[b] /\ nlast[b] = last[b]
      BY <1>3, <1>4, <2>2
    <3>2. HasSlice(b, tk, run, last, evs)
      BY <3>1 DEF Consistent, Slots
    <3>3. nt[nrun[b]] = tk[nrun[b]]
      BY <1>3, <1>5, <3>1
    <3>4. QED
      BY <1>4, <3>1, <3>2, <3>3 DEF HasSlice
  <2>3. QED
    BY <2>1, <2>2
<1>7. Waiting(nt, nq, nrun, done, nevs)
  <2>1. Waiting(tk, q, run, done, evs)
    BY DEF Consistent
  <2>2. \A f \in evs : f.type = "ARRIVAL" /\ f.task \notin {} => f \in nevs
    BY <1>4
  <2>3. QED
    BY <1>2, <2>1, <2>2, WaitingKept
<1>8. ClockBound(nt, done, time)
  BY <1>3 DEF ClockBound
<1>9. QED
  BY <1>2, <1>6, <1>7, <1>8 DEF Consistent

-----------------------------------------------------------------------------
\* What one handler comes to.

\* Elementary steps at one time are a handler's, if those that arrive do so now.
LEMMA MovesHandled ==
  ASSUME NEW A, NEW L, NEW tk, NEW q, NEW run, NEW last, NEW done, NEW time,
         NEW nt, NEW nq, NEW nrun, NEW nlast, NEW ndone,
         Moves(A, L, tk, q, run, last, done, nt, nq, nrun, nlast, ndone, time),
         \A t \in A : tk[t].arrival = time /\ t \notin ndone,
         \A t \in L : \E c \in Cores : run[c] = t
  PROVE  Handled(tk, q, run, last, done, nt, nq, nrun, nlast, ndone, time)
BY DEF Moves, Handled

\* A handler may end with steps in which nothing arrives or leaves.
LEMMA HandledThen ==
  ASSUME NEW tk, NEW q, NEW run, NEW last, NEW done, NEW time,
         NEW mt, NEW mq, NEW mrun, NEW mlast, NEW mdone,
         NEW nt, NEW nq, NEW nrun, NEW nlast, NEW ndone,
         Handled(tk, q, run, last, done, mt, mq, mrun, mlast, mdone, time),
         Moves({}, {}, mt, mq, mrun, mlast, mdone, nt, nq, nrun, nlast, ndone, time)
  PROVE  Handled(tk, q, run, last, done, nt, nq, nrun, nlast, ndone, time)
<1>1. ndone = mdone
  BY DEF Moves
<1>2. ASSUME NEW t \in Tasks
      PROVE  /\ nt[t].arrival = mt[t].arrival /\ nt[t].exec = mt[t].exec
             /\ ServedAt(t, nt, nrun, nlast, time) = ServedAt(t, mt, mrun, mlast, time)
             /\ NotArrived(t, nq, nrun, ndone) <=> NotArrived(t, mq, mrun, mdone)
  BY DEF Moves
<1>3. QED
  BY <1>1, <1>2 DEF Handled

\* Nothing is a handler too.
LEMMA HandledNothing ==
  ASSUME NEW tk, NEW q, NEW run, NEW last, NEW done, NEW time
  PROVE  Handled(tk, q, run, last, done, tk, q, run, last, done, time)
BY DEF Handled

\* While the clock moves, exactly the tasks on the cores are served.
LEMMA ServedWhile ==
  ASSUME NEW tk, NEW q, NEW run, NEW last, NEW done, NEW evs, NEW time, NEW ntime \in Nat,
         Good(tk, q, run, last, done, evs, time), NEW t \in Tasks
  PROVE  /\ (\E c \in Cores : run[c] = t) =>
              ServedAt(t, tk, run, last, ntime) =
                ServedAt(t, tk, run, last, time) + (ntime - time)
         /\ (\A c \in Cores : run[c] # t) =>
              ServedAt(t, tk, run, last, ntime) = ServedAt(t, tk, run, last, time)
<1>1. /\ tk[t] \in TaskState /\ time \in Nat /\ last \in [Cores -> Nat]
      /\ PlacesGood(tk, q, run, done)
  BY DEF Good, TypesGood
<1>2. CASE \E c \in Cores : run[c] = t
  <2>1. PICK c \in Cores : run[c] = t
    BY <1>2
  <2>2. \A b \in Cores : b # c => run[b] # t
    BY <1>1, <2>1, NoTaskAssumption DEF PlacesGood
  <2>3. ServedAt(t, tk, run, last, ntime) = ServedSince(tk[t], last[c], ntime)
    BY <2>1, <2>2, ServedOnCore
  <2>4. ServedAt(t, tk, run, last, time) = ServedSince(tk[t], last[c], time)
    BY <2>1, <2>2, ServedOnCore
  <2>5. tk[t].exec \in Nat /\ tk[t].remaining \in Nat /\ last[c] \in Nat
    BY <1>1 DEF TaskState
  <2>6. QED
    BY <1>1, <2>1, <2>3, <2>4, <2>5 DEF ServedSince
<1>3. CASE \A c \in Cores : run[c] # t
  BY <1>1, <1>3, ServedOffCore
<1>4. QED
  BY <1>2, <1>3

\* A task has never been served more than its work, if no core keeps one beyond it.
LEMMA ServedBound ==
  ASSUME NEW tk, NEW q, NEW run, NEW last, NEW done, NEW evs, NEW time,
         Good(tk, q, run, last, done, evs, time),
         \A c \in Cores : run[c] # NoTask => Chargeable(tk, run, last, c, time),
         NEW t \in Tasks
  PROVE  /\ ServedAt(t, tk, run, last, time) <= tk[t].exec
         /\ t \in done => ServedAt(t, tk, run, last, time) + Eps >= tk[t].exec
<1>1. /\ tk[t] \in TaskState /\ time \in Nat /\ last \in [Cores -> Nat]
      /\ PlacesGood(tk, q, run, done)
  BY DEF Good, TypesGood
<1>2. tk[t].exec \in Nat /\ tk[t].remaining \in Nat
  BY <1>1 DEF TaskState
<1>3. CASE \E c \in Cores : run[c] = t
  <2>1. PICK c \in Cores : run[c] = t
    BY <1>3
  <2>2. \A b \in Cores : b # c => run[b] # t
    BY <1>1, <2>1, NoTaskAssumption DEF PlacesGood
  <2>3. ServedAt(t, tk, run, last, time) = ServedSince(tk[t], last[c], time)
    BY <2>1, <2>2, ServedOnCore
  <2>4. last[c] \in Nat /\ time <= last[c] + tk[t].remaining
    BY <1>1, <2>1, NoTaskAssumption DEF Chargeable
  <2>5. t \notin done
    BY <1>1, <2>1 DEF PlacesGood
  <2>6. QED
    BY <1>1, <1>2, <2>3, <2>4, <2>5 DEF ServedSince
<1>4. CASE \A c \in Cores : run[c] # t
  <2>1. ServedAt(t, tk, run, last, time) = tk[t].exec - tk[t].remaining
    BY <1>1, <1>4, ServedOffCore
  <2>2. t \in done => tk[t].remaining <= Eps
    BY DEF Good, AccountsGood
  <2>3. QED
    BY <1>2, <2>1, <2>2, EpsAssumption
<1>5. QED
  BY <1>3, <1>4

\* Every running task may be charged.
LEMMA ConsistentChargeable ==
  ASSUME NEW tk, NEW q, NEW run, NEW last, NEW done, NEW evs, NEW time,
         Consistent(tk, q, run, last, done, evs, time)
  PROVE  \A c \in Cores : run[c] # NoTask => Chargeable(tk, run, last, c, time)
BY ArrivalInterrupts DEF Interrupted

\* A handler at ntime, until which no event is due, is a step of the pool.
LEMMA HandlerPoolStep ==
  ASSUME NEW tk, NEW q, NEW run, NEW last, NEW done, NEW evs, NEW time,
         NEW nt, NEW nq, NEW nrun, NEW nlast, NEW ndone, NEW nevs, NEW ntime,
         Good(tk, q, run, last, done, evs, time),
         Good(nt, nq, nrun, nlast, ndone, nevs, ntime),
         \A c \in Cores : nrun[c] # NoTask => Chargeable(nt, nrun, nlast, c, ntime),
         time <= ntime,
         Handled(tk, q, run, last, done, nt, nq, nrun, nlast, ndone, ntime)
  PROVE  PoolStep(tk, q, run, last, done, time, nt, nq, nrun, nlast, ndone, ntime)
<1>1. ntime \in Nat
  BY DEF Good, TypesGood
<1>2. done \subseteq ndone
  BY DEF Handled
<1>3. ASSUME NEW t \in Tasks
      PROVE  /\ nt[t].arrival = tk[t].arrival /\ nt[t].exec = tk[t].exec
             /\ ServedAt(t, nt, nrun, nlast, ntime) = ServedAt(t, tk, run, last, ntime)
             /\ NotArrived(t, nq, nrun, ndone) => NotArrived(t, q, run, done)
             /\ NotArrived(t, q, run, done) /\ ~NotArrived(t, nq, nrun, ndone) =>
                  tk[t].arrival = ntime /\ t \notin ndone
             /\ t \in ndone /\ t \notin done => \E c \in Cores : run[c] = t
  BY DEF Handled
<1>4. ASSUME NEW t \in Tasks
      PROVE  /\ ServedAt(t, nt, nrun, nlast, ntime) <= nt[t].exec
             /\ t \in ndone => ServedAt(t, nt, nrun, nlast, ntime) + Eps >= nt[t].exec
  BY ServedBound
<1>5. ASSUME NEW t \in Tasks
      PROVE  /\ (\E c \in Cores : run[c] = t) =>
                   ServedAt(t, tk, run, last, ntime) =
                     ServedAt(t, tk, run, last, time) + (ntime - time)
             /\ (\A c \in Cores : run[c] # t) =>
                   ServedAt(t, tk, run, last, ntime) = ServedAt(t, tk, run, last, time)
  BY <1>1, ServedWhile
<1>6. QED
  BY <1>1, <1>2, <1>3, <1>4, <1>5 DEF PoolStep

-----------------------------------------------------------------------------
\* run() from its preparation to its return.

\* The constructors leave every task to arrive.
LEMMA SoundInit ==
  ASSUME NEW tk, tk \in [Tasks -> {NewTask(a, x) : a \in Arrivals, x \in Executions}]
  PROVE  Sound("setup", 0, tk, {}, [c \in Cores |-> NoTask], [c \in Cores |-> 0],
               {}, {}, 0)
<1> DEFINE run == [c \in Cores |-> NoTask]
           last == [c \in Cores |-> 0]
<1>1. \A a \in Arrivals, x \in Executions : NewTask(a, x) \in TaskState
  BY WorkloadAssumption DEF NewTask, TaskState
<1>2. /\ tk \in [Tasks -> TaskState]
      /\ \A t \in Tasks : \E a \in Arrivals, x \in Executions : tk[t] = NewTask(a, x)
  BY <1>1
<1>3. ASSUME NEW t \in Tasks
      PROVE  /\ tk[t].inReady = FALSE
             /\ tk[t].remaining = tk[t].exec /\ tk[t].remaining <= tk[t].exec
             /\ tk[t].wait = 0
  <2>1. PICK a \in Arrivals, x \in Executions : tk[t] = NewTask(a, x)
    BY <1>2
  <2>2. tk[t].remaining \in Nat
    BY <1>2 DEF TaskState
  <2>3. QED
    BY <2>1, <2>2 DEF NewTask
<1>4. /\ \A c \in Cores : run[c] = NoTask
      /\ run \in [Cores -> Tasks \cup {NoTask}] /\ last \in [Cores -> Nat]
  OBVIOUS
<1> HIDE DEF run, last
<1>5. \A t \in Tasks : NotArrived(t, {}, run, {})
  BY <1>4, NoTaskAssumption DEF NotArrived
<1>6. TypesGood(tk, {}, run, last, {}, {}, 0)
  BY <1>2, <1>4 DEF TypesGood
<1>7. PlacesGood(tk, {}, run, {})
  BY <1>3, <1>4 DEF PlacesGood
<1>8. AccountsGood(tk, {}, run, last, {}, 0)
  BY <1>3, <1>5 DEF AccountsGood, NotArrived
<1>9. EventsGood(tk, {}, run, last, {}, {}, 0)
  BY DEF EventsGood
<1>10. ClockBound(tk, {}, 0)
  BY DEF ClockBound
<1>11. QED
  BY <1>5, <1>6, <1>7, <1>8, <1>9, <1>10 DEF Sound, Good, run, last

\* add_task before run.
LEMMA SoundAdd ==
  ASSUME NEW stop, NEW tk, NEW q, NEW run, NEW last, NEW done, NEW evs, NEW time,
         Sound("setup", stop, tk, q, run, last, done, evs, time),
         NEW t \in Tasks
  PROVE  Sound("setup", stop, tk, q, run, last, done,
               evs \cup {ArrivalEvent(t, tk[t].arrival)}, time)
<1> DEFINE a == ArrivalEvent(t, tk[t].arrival)
<1>1. /\ Good(tk, q, run, last, done, evs, time)
      /\ time = 0 /\ NotArrived(t, q, run, done)
      /\ tk \in [Tasks -> TaskState]
  BY DEF Sound, Good, TypesGood
<1>2. /\ a = ArrivalEvent(t, tk[t].arrival) /\ a \in Event(Tasks, Cores)
      /\ a.type = "ARRIVAL" /\ a.task = t /\ a.time \in Nat
  <2>1. tk[t].arrival \in Nat /\ 0 \in Cores
    BY <1>1, CoresAssumption DEF TaskState, Cores
  <2>2. QED
    BY <2>1 DEF ArrivalEvent, Event
<1> HIDE DEF a
<1>3. TypesGood(tk, q, run, last, done, evs \cup {a}, time)
  BY <1>1, <1>2 DEF Good, TypesGood
<1>4. EventsGood(tk, q, run, last, done, evs \cup {a}, time)
  <2>1. EventsGood(tk, q, run, last, done, {a}, time)
    BY <1>1, <1>2 DEF EventsGood
  <2>2. EventsGood(tk, q, run, last, done, evs, time)
    BY <1>1 DEF Good
  <2>3. QED
    BY <2>1, <2>2 DEF EventsGood
<1>5. Good(tk, q, run, last, done, evs \cup {a}, time)
  BY <1>1, <1>3, <1>4 DEF Good
<1>6. QED
  BY <1>5 DEF Sound, a

\* run is called when every task has been added.
LEMMA SoundRun ==
  ASSUME NEW stop, NEW tk, NEW q, NEW run, NEW last, NEW done, NEW evs, NEW time,
         Sound("setup", stop, tk, q, run, last, done, evs, time),
         NEW nstop \in Nat,
         \A t \in Tasks : ArrivalEvent(t, tk[t].arrival) \in evs
  PROVE  Sound("running", nstop, tk, q, run, last, done, evs, time)
<1>1. /\ time = 0 /\ run \in [Cores -> Tasks \cup {NoTask}]
      /\ \A t \in Tasks : NotArrived(t, q, run, done)
  BY DEF Sound, Good, TypesGood
<1>2. \A c \in Cores : run[c] = NoTask
  BY <1>1 DEF NotArrived
<1>3. Slots(tk, run, last, evs) /\ Waiting(tk, q, run, done, evs)
  BY <1>2 DEF Slots, Waiting
<1>4. time <= nstop
  BY <1>1
<1>5. QED
  BY <1>1, <1>3, <1>4 DEF Sound

\* Between two events a simulation is consistent, and stays within its stop time
\* through a handler that leaves it consistent.
LEMMA SoundHandled ==
  ASSUME NEW stop, NEW tk, NEW q, NEW run, NEW last, NEW done, NEW evs, NEW time,
         Sound("running", stop, tk, q, run, last, done, evs, time),
         NEW nt, NEW nq, NEW nrun, NEW nlast, NEW ndone, NEW nevs, NEW ntime,
         Consistent(nt, nq, nrun, nlast, ndone, nevs, ntime),
         ntime <= stop
  PROVE  Sound("running", stop, nt, nq, nrun, nlast, ndone, nevs, ntime)
BY DEF Sound, Consistent

\* run returns at the stop time, before the next event: the clock moves there.
LEMMA SoundStop ==
  ASSUME NEW stop, NEW tk, NEW q, NEW run, NEW last, NEW done, NEW evs, NEW time,
         Sound("running", stop, tk, q, run, last, done, evs, time),
         NEW e \in Earliest(evs), e.time > stop
  PROVE  /\ Sound("stopped", stop, tk, q, run, last, done, evs \ {e}, stop)
         /\ PoolStep(tk, q, run, last, done, time, tk, q, run, last, done, stop)
<1>1. Consistent(tk, q, run, last, done, evs, time) /\ time <= stop /\ stop \in Nat
  BY DEF Sound, Consistent
<1>2. Good(tk, q, run, last, done, evs, time)
  BY <1>1 DEF Consistent
<1>3. /\ e \in evs /\ e \in Event(Tasks, Cores) /\ e.time \in Nat /\ e.task \in Tasks
      /\ \A f \in evs : e.time <= f.time
  BY <1>2, EarliestFacts
<1>4. /\ tk \in [Tasks -> TaskState] /\ last \in [Cores -> Nat] /\ time \in Nat
      /\ evs \subseteq Event(Tasks, Cores)
  BY <1>2 DEF Good, TypesGood
<1>5. ASSUME NEW f \in evs
      PROVE  f.time \in Nat /\ stop < f.time
  <2>1. f.time \in Nat
    BY <1>4 DEF Event
  <2>2. QED
    BY <1>1, <1>3, <2>1
<1>6. TypesGood(tk, q, run, last, done, evs \ {e}, stop)
  BY <1>1, <1>2 DEF Good, TypesGood
<1>7. AccountsGood(tk, q, run, last, done, stop)
  <2> SUFFICES ASSUME NEW t \in Tasks
               PROVE  /\ t \in q => tk[t].readyEnter <= stop
                      /\ \A c \in Cores : run[c] = t => last[c] <= stop
    BY <1>2 DEF Good, AccountsGood
  <2>1. /\ t \in q => tk[t].readyEnter <= time
        /\ \A c \in Cores : run[c] = t => last[c] <= time
    BY <1>2 DEF Good, AccountsGood
  <2>2. tk[t].readyEnter \in Nat /\ \A c \in Cores : last[c] \in Nat
    BY <1>4 DEF TaskState
  <2>3. QED
    BY <1>1, <1>4, <2>1, <2>2
<1>8. EventsGood(tk, q, run, last, done, evs \ {e}, stop)
  <2> SUFFICES ASSUME NEW f \in evs
               PROVE  /\ stop <= f.time
                      /\ f.type = "TIME_SLICE" /\ f.task \in q =>
                           f.time <= stop + tk[f.task].remaining
    BY <1>2 DEF Good, EventsGood
  <2>1. tk[f.task].remaining \in Nat
    BY <1>4 DEF Event, TaskState
  <2>2. f.type = "TIME_SLICE" /\ f.task \in q => f.time <= time + tk[f.task].remaining
    BY <1>2 DEF Good, EventsGood
  <2>3. QED
    BY <1>1, <1>4, <1>5, <2>1, <2>2
<1>9. Good(tk, q, run, last, done, evs \ {e}, stop)
  BY <1>2, <1>6, <1>7, <1>8 DEF Good
<1>10. ClockBound(tk, done, stop)
  <2>1. ASSUME done = Tasks
        PROVE  stop <= tk[e.task].completion + Eps
    <3>1. e.type = "ARRIVAL" \/ e.type = "TIME_SLICE"
      BY <1>3 DEF Event
    <3>2. e.time <= tk[e.task].completion + Eps
      BY <1>2, <1>3, <2>1, <3>1 DEF Good, EventsGood, NotArrived
    <3>3. tk[e.task].completion + Eps \in Int
      BY <1>3, <1>4, EpsAssumption DEF TaskState, Never
    <3>4. QED
      BY <1>1, <1>3, <3>2, <3>3
  <2>2. QED
    BY <1>3, <2>1 DEF ClockBound
<1>11. ASSUME NEW c \in Cores, run[c] # NoTask
       PROVE  Chargeable(tk, run, last, c, stop)
  <2>1. PICK f \in evs : f.time <= last[c] + tk[run[c]].remaining
    BY <1>1, <1>11 DEF Consistent, Slots, HasSlice
  <2>2. run[c] \in Tasks
    BY <1>2, <1>11 DEF Good, TypesGood
  <2>3. last[c] \in Nat /\ tk[run[c]].remaining \in Nat
    BY <1>4, <2>2 DEF TaskState
  <2>4. QED
    BY <1>1, <1>5, <1>11, <2>1, <2>3 DEF Chargeable
<1>12. PoolStep(tk, q, run, last, done, time, tk, q, run, last, done, stop)
  BY <1>1, <1>2, <1>9, <1>11, HandledNothing, HandlerPoolStep
<1>13. QED
  BY <1>1, <1>9, <1>10, <1>12 DEF Sound

\* run returns because the heap is empty.
LEMMA SoundDrain ==
  ASSUME NEW ph, NEW stop, NEW tk, NEW q, NEW run, NEW last, NEW done, NEW evs, NEW time,
         Sound(ph, stop, tk, q, run, last, done, evs, time)
  PROVE  Sound("stopped", stop, tk, q, run, last, done, evs, time)
BY DEF Sound

=============================================================================
