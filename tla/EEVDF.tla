-------------------------------- MODULE EEVDF --------------------------------
(***************************************************************************)
(* EEVDFScheduler (include/schedulers/eevdf_scheduler.hpp), driven by the  *)
(* single-queue simulator.  Slices are integers, as virtual times are.     *)
(***************************************************************************)
EXTENDS WeightedPolicy, ReadyQueue

CONSTANTS
  BaseSlice,   \* params_.base_slice
  MinSlice     \* params_.min_slice

ASSUME EEVDFAssumption == BaseSlice \in Nat \ {0} /\ MinSlice \in Nat \ {0}

EevdfInits ==
  LET zero == [t \in Tasks |-> 0]
  IN  {[ready |-> <<>>, eligible |-> zero, vruntime |-> zero, deadline |-> zero,
        virtualTime |-> 0, weight |-> w] : w \in [Tasks -> Weights]}

EevdfReady(p) == ToSet(p.ready)

Request(p, t) == Virtual(BaseSlice, p.weight[t])

Later(x, y) == IF x < y THEN y ELSE x

\* Faulty variant of EevdfAdded: the deadline of the last request is kept.
EevdfAddedWithOldDeadline(p, t, new) ==
  LET e == IF new THEN p.virtualTime ELSE Later(p.eligible[t], p.virtualTime)
      v == IF new THEN p.virtualTime ELSE Later(p.vruntime[t], p.virtualTime)
  IN  [p EXCEPT !.eligible[t] = e, !.vruntime[t] = v,
                !.deadline[t] = IF new THEN e + Request(p, t) ELSE @,
                !.ready = Append(@, t)]

EevdfAdded(p, t, new) ==
  LET e == IF new THEN p.virtualTime ELSE Later(p.eligible[t], p.virtualTime)
      v == IF new THEN p.virtualTime ELSE Later(p.vruntime[t], p.virtualTime)
  IN  [p EXCEPT !.eligible[t] = e, !.vruntime[t] = v,
                !.deadline[t] = e + Request(p, t),
                !.ready = Append(@, t)]

\* The task with the least f at the positions S of s, the first of those that tie.
FirstLeast(s, S, f) ==
  s[CHOOSE i \in S : \A j \in S :
      f[s[i]] < f[s[j]] \/ (f[s[i]] = f[s[j]] /\ i <= j)]

IsEligible(p, t) == p.eligible[t] <= p.virtualTime

\* The earliest deadline among the eligible; if none is, the earliest eligible.
EevdfBest(p) ==
  LET eligible == {i \in DOMAIN p.ready : IsEligible(p, p.ready[i])}
  IN  IF eligible # {} THEN FirstLeast(p.ready, eligible, p.deadline)
      ELSE FirstLeast(p.ready, DOMAIN p.ready, p.eligible)

EevdfSlice(p, t) == Later((BaseSlice * p.weight[t]) \div Nice0Load, MinSlice)

EevdfDecided(p) ==
  IF p.ready = <<>> THEN NoDecision
  ELSE [task |-> EevdfBest(p), slice |-> EevdfSlice(p, EevdfBest(p))]

\* advance_virtual_time divides by the weight of the ready queue, which t is
\* not in; by NICE_0_LOAD when that is empty.
ReadyWeight(p) ==
  IF p.ready = <<>> THEN Nice0Load
  ELSE MapThenSumSet(LAMBDA i : p.weight[p.ready[i]], DOMAIN p.ready)

EevdfCpuUsed(p, t, elapsed) ==
  LET v == p.vruntime[t] + Virtual(elapsed, p.weight[t])
  IN  [p EXCEPT !.vruntime[t] = v,
                !.virtualTime = @ + Virtual(elapsed, ReadyWeight(p)),
                !.eligible[t] = v,
                !.deadline[t] = v + Request(p, t)]

\* Faulty variant of EevdfRemoved: the task stays in the ready queue.
EevdfKept(p, t) == p

EevdfRemoved(p, t) == [p EXCEPT !.ready = Without(@, t)]

EevdfPreempts(p, new, current) ==
  IsEligible(p, new) /\ p.deadline[new] < p.deadline[current]

-----------------------------------------------------------------------------
LongestSlice ==
  LET slices == {EevdfSlice(policy, t) : t \in Tasks}
  IN  CHOOSE s \in slices : \A r \in slices : r <= s

\* "Latency guarantees (via virtual deadlines)" (line 6): virtual time does not
\* pass the deadline of a queued task by more than one slice of each other task,
\* at the rate at which virtual time moves while the task waits.  Once a deadline
\* has passed, the task is eligible, and only tasks queued before with an earlier
\* deadline may still precede it, each once: their next request comes later.
LatencyGuaranteed ==
  \A t \in queue :
    policy.virtualTime
      <= policy.deadline[t]
           + (Cardinality(Tasks) - 1) * Virtual(LongestSlice, policy.weight[t])

=============================================================================
