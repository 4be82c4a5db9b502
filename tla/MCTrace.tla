------------------------------- MODULE MCTrace -------------------------------
(***************************************************************************)
(* The extraction on two instances, each with one of the histories that    *)
(* tell its branches apart.  A microsecond is two nanoseconds.             *)
(***************************************************************************)
EXTENDS TraceExtraction

CONSTANTS a, b

MCKeys == {a, b}

\* The priorities at the tiers' boundaries.
MCPriorities == {0, 99, 100, 115, 116, 119, 120, 359, 360, 500}

E(type, time, prio) == [type |-> type, time |-> time, prio |-> prio]

\* One attempt: submitted, scheduled, finished.
Attempt(s, c, f, p) == {E("submit", s, p), E("schedule", c, p), E("finish", f, p)}

Histories ==
  <<Attempt(2, 3, 7, 99),
    Attempt(4, 4, 9, 100),
    Attempt(5, 6, 8, 115),
    Attempt(0, 1, 5, 119),
    Attempt(3, 5, 6, 360),                                     \* burst of 0
    Attempt(1, 2, 4, 120) \cup Attempt(5, 6, 9, 359),          \* resubmitted
    Attempt(3, 4, 9, 116) \cup {E("other", 5, 0), E("schedule", 7, 0)},  \* evicted
    Attempt(2, 5, 3, 500),                                     \* finish too early
    Attempt(5, 2, 6, 0),                                       \* schedule too early
    Attempt(2, 3, 7, 0) \cup {E("submit", 2, 500)},            \* a tie
    {E("submit", 1, 0), E("finish", 5, 0)},
    {E("schedule", 1, 0), E("finish", 5, 0)},
    {E("submit", 1, 0), E("schedule", 3, 0)}>>

Of(k, history) ==
  {[type |-> e.type, key |-> k, time |-> e.time, prio |-> e.prio] : e \in history}

\* Either instance may be called a.
MCTraces ==
  UNION {{Of(a, Histories[i]) \cup Of(b, Histories[j]) : j \in i .. Len(Histories)} :
         i \in DOMAIN Histories}

=============================================================================
