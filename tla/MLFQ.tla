-------------------------------- MODULE MLFQ --------------------------------
(***************************************************************************)
(* MLFQScheduler (include/schedulers/mlfq_scheduler.hpp) on its base       *)
(* MultiQueueScheduler (include/scheduler/multi_queue_scheduler.hpp),      *)
(* driven by the single-queue simulator.                                   *)
(***************************************************************************)
EXTENDS PolicySimulator, ReadyQueue

CONSTANTS
  NumLevels,      \* configs_.size()
  Quantum,        \* time_quantum of each level
  Allotment,      \* allotment of each level; 0 stands for the quantum
  BoostInterval   \* params_.boost_interval, with enable_boost

Levels == 0 .. NumLevels - 1

ASSUME MLFQAssumption ==
  /\ NumLevels \in Nat \ {0}
  /\ Quantum \in [Levels -> Nat \ {0}] /\ Allotment \in [Levels -> Nat]
  /\ BoostInterval \in Nat \ {0}

AllotmentFor(l) == IF Allotment[l] > 0 THEN Allotment[l] ELSE Quantum[l]

MlfqInits ==
  {[queues |-> [l \in Levels |-> <<>>], level |-> [t \in Tasks |-> 0],
    allotment |-> [t \in Tasks |-> 0], sinceBoost |-> 0]}

MlfqReady(p) == UNION {ToSet(p.queues[l]) : l \in Levels}

\* New tasks start at the top with a full allotment; others keep theirs.
MlfqAdded(p, t, new) ==
  LET l == IF new THEN 0 ELSE p.level[t]
  IN  [p EXCEPT !.level[t] = l,
                !.allotment[t] = IF new THEN AllotmentFor(0) ELSE @,
                !.queues[l] = Append(@, t)]

MlfqBest(p) ==
  Head(p.queues[CHOOSE l \in Levels : /\ p.queues[l] # <<>>
                                      /\ \A k \in 0 .. l - 1 : p.queues[k] = <<>>])

MlfqDecided(p) ==
  IF MlfqReady(p) = {} THEN NoDecision
  ELSE [task |-> MlfqBest(p), slice |-> Quantum[p.level[MlfqBest(p)]]]

\* Faulty variant of MlfqRemoved: only the top queue is searched.
MlfqRemovedFromTop(p, t) == [p EXCEPT !.queues[0] = Without(@, t)]

MlfqRemoved(p, t) ==
  [p EXCEPT !.queues = [l \in Levels |-> Without(p.queues[l], t)]]

\* Rule 4: the allotment of t is used up and t is demoted, if it can be.
Demoted(p, t, elapsed) ==
  LET left == p.allotment[t] - elapsed
      l == IF p.level[t] < NumLevels - 1 THEN p.level[t] + 1 ELSE p.level[t]
  IN  IF left > 0 THEN [p EXCEPT !.allotment[t] = left]
      ELSE [p EXCEPT !.level[t] = l, !.allotment[t] = AllotmentFor(l)]

\* The queues below the top, from high to low.
Lower(p) == FlattenSeq([l \in 1 .. NumLevels - 1 |-> p.queues[l]])

\* Faulty variant of Boosted: the levels of the tasks are not reset.
BoostedKeepingLevel(p) ==
  [p EXCEPT !.queues = [l \in Levels |-> IF l = 0 THEN p.queues[0] \o Lower(p) ELSE <<>>],
            !.allotment = [t \in Tasks |-> IF t \in MlfqReady(p) THEN AllotmentFor(0)
                                           ELSE p.allotment[t]],
            !.sinceBoost = 0]

\* Rule 5: every queued task goes to the end of the top queue with a full
\* allotment.  The running tasks, among them the one just charged, do not.
Boosted(p) ==
  [p EXCEPT !.queues = [l \in Levels |-> IF l = 0 THEN p.queues[0] \o Lower(p) ELSE <<>>],
            !.level = [t \in Tasks |-> IF t \in MlfqReady(p) THEN 0 ELSE p.level[t]],
            !.allotment = [t \in Tasks |-> IF t \in MlfqReady(p) THEN AllotmentFor(0)
                                           ELSE p.allotment[t]],
            !.sinceBoost = 0]

\* Faulty variant of MlfqCpuUsed: the timer restarts at every charge.
MlfqCpuUsedRestarting(p, t, elapsed) ==
  IF elapsed >= BoostInterval THEN Boosted(Demoted(p, t, elapsed))
  ELSE [Demoted(p, t, elapsed) EXCEPT !.sinceBoost = elapsed]

MlfqCpuUsed(p, t, elapsed) ==
  IF p.sinceBoost + elapsed >= BoostInterval THEN Boosted(Demoted(p, t, elapsed))
  ELSE [Demoted(p, t, elapsed) EXCEPT !.sinceBoost = @ + elapsed]

\* Faulty variant of MlfqPreempts: no preemption on arrival.
MlfqNeverPreempts(p, new, current) == FALSE

MlfqPreempts(p, new, current) == p.level[new] < p.level[current]

-----------------------------------------------------------------------------
\* The containers, the tasks' own level and their allotment are written on
\* different paths (demotion while running, boost while queued, insertion): a
\* queued task is in the queue of its level, once, and every task present has a
\* positive allotment that its level can have.
LevelsConsistent ==
  /\ \A l \in Levels : \A i, j \in DOMAIN policy.queues[l] :
       /\ policy.level[policy.queues[l][i]] = l
       /\ policy.queues[l][i] = policy.queues[l][j] => i = j
  /\ \A t \in queue \cup Busy :
       policy.allotment[t] \in 1 .. AllotmentFor(policy.level[t])

\* "Rule 1. If Priority(A) > Priority(B), A runs" (mlfq_scheduler.hpp:10): no
\* task waits while a core runs one of a lower queue.
HigherPriorityRuns ==
  \A t \in queue : \A c \in Cores :
    ~Idle(c) => policy.level[running[c]] <= policy.level[t]

LongestQuantum ==
  CHOOSE q \in {Quantum[l] : l \in Levels} : \A l \in Levels : Quantum[l] <= q

\* "Periodic priority boost (anti-starvation)": on one core a task in the ready
\* queue waits at most until the boost timer runs out, which is noticed at the
\* end of a slice, and then for the tasks boosted before it.
StarvationBounded ==
  NumCores = 1 =>
    \A t \in queue :
      now - task[t].readyEnter
        <= BoostInterval + LongestQuantum + (Cardinality(Tasks) - 2) * Quantum[0]

=============================================================================
