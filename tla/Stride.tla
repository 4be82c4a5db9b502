------------------------------- MODULE Stride -------------------------------
(***************************************************************************)
(* StrideScheduler (include/schedulers/stride_scheduler.hpp), driven by    *)
(* the single-queue simulator.  Tasks are their ids.  The conversions of   *)
(* the code truncate, as \div does here.  Passes are naturals: the 32-bit  *)
(* pass values would wrap after hours of simulated CPU time.               *)
(***************************************************************************)
EXTENDS WeightedPolicy, FiniteSetsExt

CONSTANTS
  QuantumLength,   \* params_.quantum
  StrideConstant   \* params_.stride_constant

ASSUME StrideAssumption ==
  /\ QuantumLength \in Nat \ {0} /\ StrideConstant \in Nat

StrideInits ==
  LET zero == [t \in Tasks |-> 0]
  IN  {[ready |-> {}, stride |-> zero, pass |-> zero, globalPass |-> 0, weight |-> w] :
         w \in [Tasks -> Weights]}

StrideReady(p) == p.ready

\* Faulty variant of StrideAdded: a returning task keeps its pass.
StrideAddedUnclamped(p, t, new) ==
  [p EXCEPT !.ready = @ \cup {t},
            !.stride[t] = Max({1, StrideConstant \div p.weight[t]}),
            !.pass[t] = IF new THEN p.globalPass ELSE @]

StrideAdded(p, t, new) ==
  [p EXCEPT !.ready = @ \cup {t},
            !.stride[t] = Max({1, StrideConstant \div p.weight[t]}),
            !.pass[t] = IF new THEN p.globalPass ELSE Max({@, p.globalPass})]

StrideBefore(p, t, u) ==
  \/ p.pass[t] < p.pass[u]
  \/ p.pass[t] = p.pass[u] /\ p.stride[t] < p.stride[u]
  \/ p.pass[t] = p.pass[u] /\ p.stride[t] = p.stride[u] /\ t < u

StrideDecided(p) ==
  IF p.ready = {} THEN NoDecision
  ELSE [task |-> CHOOSE t \in p.ready : \A u \in p.ready \ {t} : StrideBefore(p, t, u),
        slice |-> QuantumLength]

Advance(p, t, elapsed) == Max({1, (p.stride[t] * elapsed) \div QuantumLength})

\* update_global_pass runs over the ready queue, which t is not in.
StrideCpuUsed(p, t, elapsed) ==
  [p EXCEPT
    !.pass[t] = @ + Advance(p, t, elapsed),
    !.globalPass = IF p.ready = {} THEN @
                   ELSE Max({@, Min({p.pass[u] : u \in p.ready})})]

\* Faulty variant of StrideRemoved: the task stays in the ready queue.
StrideKept(p, t) == p

StrideRemoved(p, t) == [p EXCEPT !.ready = @ \ {t}]

\* Stride does not preempt on arrival.
StridePreempts(p, new, current) == FALSE

-----------------------------------------------------------------------------
\* "clamp pass to not fall too far behind": on one core no task ready or running
\* lags the global pass.  The global pass jumps over a newcomer that started
\* from a stale one, as soon as that newcomer is charged.
NoneBehind ==
  NumCores = 1 => \A t \in Present : policy.pass[t] >= policy.globalPass

\* "Stride scheduling - deterministic proportional share" (line 3): on one core,
\* two tasks that arrived together have received CPU time in inverse proportion
\* to their strides, up to one quantum.
ProportionalShare ==
  NumCores = 1 =>
    \A t, u \in Present :
      task[t].arrival = task[u].arrival =>
        Used(task[t]) * policy.stride[t]
          <= (Used(task[u]) * policy.stride[u]) + (QuantumLength * policy.stride[t])

=============================================================================
