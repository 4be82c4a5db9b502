--------------------------------- MODULE CFS ---------------------------------
(***************************************************************************)
(* CFSScheduler (include/schedulers/cfs_scheduler.hpp), driven by the      *)
(* single-queue simulator.  Tasks are their ids.  Slices are integers, as  *)
(* virtual times are.                                                      *)
(***************************************************************************)
EXTENDS WeightedPolicy, FiniteSetsExt

CONSTANTS
  SchedLatency,       \* params_.sched_latency
  MinGranularity,     \* params_.min_granularity
  WakeupGranularity   \* params_.wakeup_granularity

ASSUME CFSAssumption ==
  /\ SchedLatency \in Nat \ {0} /\ MinGranularity \in Nat \ {0}
  /\ WakeupGranularity \in Nat

CfsInits ==
  {[ready |-> {}, vruntime |-> [t \in Tasks |-> 0], minVruntime |-> 0, weight |-> w] :
     w \in [Tasks -> Weights]}

CfsReady(p) == p.ready

\* Faulty variant of Clamped: the virtual runtime is kept as it is.
Unclamped(p, t) == p.vruntime[t]

\* What a returning task may keep: at most one latency period of credit.
Clamped(p, t) ==
  Max({p.vruntime[t], p.minVruntime - Virtual(SchedLatency, p.weight[t])})

CfsAdded(p, t, new) ==
  [p EXCEPT !.ready = @ \cup {t},
            !.vruntime[t] = IF new THEN p.minVruntime ELSE Clamped(p, t)]

CfsBefore(p, t, u) ==
  \/ p.vruntime[t] < p.vruntime[u]
  \/ p.vruntime[t] = p.vruntime[u] /\ t < u

CfsBest(p) == CHOOSE t \in p.ready : \A u \in p.ready \ {t} : CfsBefore(p, t, u)

CfsPeriod(n) ==
  IF n > SchedLatency \div MinGranularity THEN n * MinGranularity ELSE SchedLatency

\* calc_time_slice: t is still in the queue, so its weight counts twice.
CfsSlice(p, t) ==
  LET total == p.weight[t] + MapThenSumSet(LAMBDA u : p.weight[u], p.ready)
  IN  Max({(CfsPeriod(Cardinality(p.ready)) * p.weight[t]) \div total, MinGranularity})

CfsDecided(p) ==
  IF p.ready = {} THEN NoDecision
  ELSE [task |-> CfsBest(p), slice |-> CfsSlice(p, CfsBest(p))]

\* Faulty variant of CfsCpuUsed: the weight is left out of the charge.
CfsCpuUsedUnweighted(p, t, elapsed) ==
  [p EXCEPT
    !.vruntime[t] = @ + elapsed,
    !.minVruntime = IF p.ready = {} THEN @
                    ELSE Max({@, Min({p.vruntime[u] : u \in p.ready})})]

\* update_min_vruntime runs over the ready queue, which t is not in.
CfsCpuUsed(p, t, elapsed) ==
  [p EXCEPT
    !.vruntime[t] = @ + Virtual(elapsed, p.weight[t]),
    !.minVruntime = IF p.ready = {} THEN @
                    ELSE Max({@, Min({p.vruntime[u] : u \in p.ready})})]

\* Faulty variant of CfsRemoved: the task stays in the ready queue.
CfsKept(p, t) == p

CfsRemoved(p, t) == [p EXCEPT !.ready = @ \ {t}]

CfsPreempts(p, new, current) ==
  p.vruntime[new] + Virtual(WakeupGranularity, p.weight[current]) < p.vruntime[current]

-----------------------------------------------------------------------------
\* "clamp vruntime to prevent credit hoarding" (line 46): on one core, no task
\* ready or running lags the minimum by more than one latency period of its own
\* virtual time.  The minimum jumps over a newcomer that started from a stale
\* minimum, as soon as that newcomer is charged; without the clamp it would
\* hold the core until it caught up.
CreditBounded ==
  NumCores = 1 =>
    \A t \in Present :
      policy.vruntime[t] >= policy.minVruntime - Virtual(SchedLatency, policy.weight[t])

\* The largest slice schedule() can give to t, in virtual time.
LargestSlice(t) ==
  LET w == policy.weight[t]
  IN  Max({Virtual(CfsPeriod(n), 2 * w) : n \in 1 .. Cardinality(Tasks)}
            \cup {Virtual(MinGranularity, w)})

\* On one core, two tasks that arrived together have received CPU time in
\* proportion to their weights, up to the slice the first is given: each slice
\* that ends or is preempted is charged once, to the task that had it, at the
\* rate of its weight.
FairShare ==
  NumCores = 1 =>
    \A t, u \in Present :
      task[t].arrival = task[u].arrival =>
        Virtual(Used(task[t]), policy.weight[t])
          <= Virtual(Used(task[u]), policy.weight[u]) + LargestSlice(t)

=============================================================================
