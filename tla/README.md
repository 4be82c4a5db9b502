# A TLA+ verification project for the scheduler simulator

The repository is a C++17 discrete-event simulator for CPU scheduling policies
(CFS, EEVDF, MLFQ, Stride) on one shared ready queue or on one queue per core,
with Python and shell scripts around it that prepare workloads from cluster
traces, execute suites of benchmarks and aggregate and plot what they leave. This directory holds TLA+ modules
translated from that code, TLC configurations that check them on small
instances, and proofs checked by TLAPS.

## 1. The system

| Component | Source | State | Operations |
|---|---|---|---|
| Task record | `include/scheduler/task.hpp`, `src/core/task.cpp` | arrival, execution, remaining, start, completion, wait time, preemption count, ready flag and time of entry | `start`, `complete`, `execute`, `is_completed`, `mark_ready`, `mark_dispatched`, `increment_preemptions` |
| Event heap | `include/scheduler/event.hpp`, `src/core/event.cpp` | a binary heap ordered by time only | `schedule`, `get_next`, `cancel_task` (empty body) |
| Single-queue simulator | `src/core/simulator.cpp` | heap, current and stop time, task on each core and when it was dispatched, completed tasks, counters | `add_task`, `run`, `handle_arrival`, `handle_time_slice`, `preempt_core`, `dispatch_next` |
| Multi-queue simulator | `src/core/multi_core_simulator.cpp` | the same with one scheduler per core, a load balancer and a steal counter | the same and `try_work_steal` |
| Load balancers | `include/scheduler/load_balancer.hpp` | the round-robin counter | `assign` |
| Scheduler interface | `include/scheduler/scheduler.hpp`, `single_queue_scheduler.hpp`, `multi_queue_scheduler.hpp` | ready queue(s) | `add_task`, `remove_task`, `schedule`, `on_cpu_used`, `should_preempt`, `ready_count` |
| Policies | `include/schedulers/{cfs,eevdf,mlfq,stride}_scheduler.hpp` | min vruntime / virtual time / levels and boost timer / global pass, and fields of the tasks | the interface |
| Metrics | `src/core/metrics.cpp` | none | `calculate` over the completed tasks |
| Workload generators | `src/workloads/*.cpp` | none | produce tasks: arrival >= 0, execution > 0, ids 0..n-1 |
| Driver | `apps/main.cpp` | configuration | constructs, adds every task, calls `run` once, writes CSV |
| RNG library | `lib/rngs.c`, `rvgs.c`, `rvms.c` | 256 Lehmer streams | `Random`, `PlantSeeds`, `SelectStream` |
| Trace extraction | `real-time-workloads/google_v3/extract_google_v3.py` | events by instance, statistics, records | read and filter lines, match each instance, sort, shift, write |
| Trace subset | `real-time-workloads/alibaba_v2018/make_subset.py` | none | copies the first rows of a file |
| Plugin registry | `benchmark/plugins` | keys and aliases of plugins | register, resolve, load |
| Suite validator | `scripts/validate_benchmark_spec.py` | none | accepts or rejects a suite's JSON document |
| Suite runner | `benchmark/runner/run_suite.py` | run plan; run directories, execution summary | validate, plan, clean, execute, summarise |
| Run manifests | `scripts/generate_run_manifests.py` | a manifest per run | describe each run in turn |
| Aggregation | `scripts/aggregate_results.py` | the tables of `analysis/` | resolve reuse, attribute runs, compute and write tables |
| Reports | `scripts/export_summary_table.py`, `plot_experiment_suite.py`, `plot_publication_figures.py`, `benchmark/report` | figures, summary | select rows, draw |
| Wrappers | `scripts/run_full_analysis.sh`, `run_matrix.sh` | none | the order of the commands |
| Legacy simulator | `include/*.h` | - | not compiled by any target |

How they interact: `main` builds a simulator, adds the tasks (each puts an
ARRIVAL in the heap) and calls `run`, which pops events in time order and calls
a handler. A handler changes the task records, the scheduler's queue and the
core table through separate calls, and ends by dispatching on any core it has
freed, which puts a TIME_SLICE event in the heap. There is one thread: what is
hard is not concurrency of the program but of the *simulated* system, the order
of events and what remains in the heap when plans change:

- the heap orders by time alone, so simultaneous events come in any order: an
  arrival may preempt a task at the very instant it is finished;
- events are never removed: the TIME_SLICE of a preempted dispatch is popped
  later and recognised only by comparing the task with the one on the core;
- time is charged lazily, when a slice ends or the task is preempted, from a
  per-core timestamp;
- a task's place (ready queue, core, completed) is spread over three structures
  that every path must keep in step; a steal moves a task through two
  schedulers;
- a core that finds no work sleeps without an event: nothing wakes it but an
  arrival sent to it;
- the run stops at an arbitrary moment, losing the event that revealed it.

The benchmark pipeline is a chain of processes that communicate through files.
`run_suite.py` numbers the cases of a document and gives each a directory
`runs/<suite>/<run id>`, where the simulator writes `metrics.csv` and `tasks.csv`
line by line; manifests, the execution summary and the tables of `analysis/` are
made from these files by later processes. What is hard here is what is left over:

- run ids number cases, so a changed document leaves directories whose ids mean
  something else; only `--clean-suite-dir`, which one wrapper passes and the
  other does not, removes them, and only those of one suite;
- a simulator that is killed leaves any beginning of its files, each ending by
  itself and inside a cell too, or the files of an earlier execution; a cleaning
  that is killed leaves some of the files; and the aggregation reads what is there;
- a simulator that cannot open its trace warns and goes on without tasks, writes
  its row and exits 0, so that nothing stops the pipeline;
- a manifest can outlive the metrics it describes and is preferred to them;
- some tables are written only when they have rows, so that files of two
  aggregations can stand side by side;
- a row reaches a figure through an experiment id that comes from the execution
  summary or, without one, is inferred from the document as it is now;
- reuse between experiments is followed recursively, and a document may run in
  circles;
- the extraction sees the events of an instance in any order, more than once, and
  a window drops some types of events and keeps others.

What makes each component correct: a task is in exactly one place; its times add
up; every busy core has the event that will free it; no core idles beside work
it could have; tasks change cores only by a steal; every task completes when
time allows; and, over all, the simulator serves tasks like a pool of cores,
which is what the reported metrics presuppose. The plan of a suite loses no run
and repeats none; what is recorded and what is inferred about a run agree; a
report that the pipeline completes is about this execution and all of it, up to
simulations that had no tasks, which it must at least warn of;
damaged rows do not enter the tables unnoticed; and an extracted workload is the
one its trace defines, in whatever order the lines come.

## 2. Modules

| Module | Stands for |
|---|---|
| `Task` | the task record, one operator per method |
| `EventQueue` | the heap: the set of pending events; `Earliest` is what `get_next` may return |
| `SimulatorBase` | what the two simulators share word for word: their parameters and the length of a dispatch |
| `Simulator` | the single-queue simulator: state, one action per branch of a handler, properties |
| `MultiCoreSimulator` | the multi-queue simulator with both balancers and work stealing |
| `ServicePool` | abstract specification: cores that serve tasks as a fluid, without events, slices or queues |
| `WorkConservingPool` | the same where no core idles beside a ready task |
| `PolicySimulator` | `Simulator` driving a concrete policy object |
| `CFS`, `EEVDF`, `MLFQ`, `Stride` | the four policies, one operator per method, and what each promises |
| `WeightedPolicy` | the weights and the virtual time that CFS, EEVDF and Stride share |
| `ReadyQueue` | removal from the containers whose order matters (MLFQ, EEVDF) |
| `TraceExtraction` | the extraction of a workload from a Borg trace |
| `BenchmarkSuite` | a suite's document: validator, planning, reuse and attribution |
| `RunAnalysis` | pure operators: the rows of every table and figure from the lines of the runs |
| `BenchmarkPipeline` | the processes and the files between them; uses `RunAnalysis` |
| `MCTrace`, `MCSuite`, `MCPipeline` | their instances |
| `MCSimulator`, `MCMultiCore`, `MCCFS`, `MCEEVDF`, `MCMLFQ`, `MCStride` | the instances TLC checks |
| `SimulatorBase_proofs` | lemmas about the elementary steps of a handler, shared by the two simulators |
| `SequenceLemmas` | lemmas about concatenated and sorted-out sequences, shared by the policies and the suite |
| `Simulator_proofs`, `MultiCoreSimulator_proofs`, `Policies_proofs`, `TraceExtraction_proofs`, `BenchmarkSuite_proofs`, `BenchmarkPipeline_proofs` | the theorems |

Correspondence with the code, for both simulators:

- One action is one branch of one handler from the pop of the event to the
  return, the trailing `dispatch_next` (and `try_work_steal`) included: the
  program is in no observable state in between. `handle_arrival` gives
  `ArrivalToIdleCore`, `ArrivalPreempts`, `ArrivalWaits`; `handle_time_slice`
  gives `SliceCompletes`, `SliceExpires`, `SliceIgnored`; `run` gives `Run`,
  `Pop` (a conjunct of every handler action), `StopAtLimit` and `Drain`.
- Intermediate states of a handler are arguments: `DispatchNext` takes the task
  records, ready queue and switch count its caller has reached.
- The scheduler is *any* object that keeps the contract of `scheduler.hpp`:
  `schedule` returns a ready task and some slice, and none only when no task is
  ready (all four policies do); `should_preempt` may answer anything, so an
  arrival may preempt any core it reaches or none. What holds here holds for the
  four policies and for policies not yet written.
- A concrete policy is a record, the variable `policy` of `PolicySimulator`, and
  its methods are operators on such records: `Added`, `CpuUsed`, `Decided`,
  `Removed`, `Preempts`, `Ready`. They are CONSTANTs; a policy module defines them
  (`CfsAdded`, ...) and a configuration plugs them in. Every action of
  `PolicySimulator` is the action of `Simulator` with the decision the policy
  computes, conjoined with the calls the handler makes on the policy in their
  order: in `preempt_core`, for instance, the newcomer is already queued when the
  preempted task is charged, and that task is queued again only afterwards, which
  matters because the policies take minima and sums over the queue.
- The fields the policies keep in the tasks (vruntime, deadline, level, allotment,
  pass, stride) are in the policy's record; weights are chosen in the initial
  state and replace nice values. Ties are broken by task id, as in the
  comparators, so tasks are numbers there; MLFQ and EEVDF keep their containers in
  insertion order.
- Times are integer ticks. The code uses doubles that it adds, subtracts and
  compares; rounding is not modelled. The divisions of CFS and EEVDF round down in
  the model, and their instances choose weights and parameters (proportional to
  the defaults where that is possible) for which the quotients are exact; those of
  Stride truncate in the code too. The completion threshold 0.001 is `Eps`
  ticks, so that both `Eps = 0` and an `Eps` that bites can be checked.
- A TIME_SLICE event carries a ghost stamp `n`, the task's preemption count when
  it was scheduled. No guard reads it; properties use it to tell the event of
  the dispatch in effect from those of earlier ones.
- Sums that the code keeps as unsigned 32-bit counters (context switches,
  preemptions, steals) are naturals.
- The setup phase is the driver's: every task is added once, then `run` is
  called once.
Correspondence for the scripts:

- `TraceExtraction`: one action per line read and per turn of the matching loop.
  Input files have no order, so the next line is any unread one; `order` is the
  insertion order of the Python dictionary, and `min` over events with equal
  times is any of them. Python's `//` and TLA+'s `\div` both round down. The sort is
  by arrival and stable.
- `BenchmarkSuite`: the validator, the runner and the aggregation read the same
  document. `Validate` is optional, because a suite can be run without it; `Load`
  is what the runner itself refuses. The plugin registry is given by two constants,
  from lower-case names to the `cli_token` of a plugin, so that a plan tells cases
  apart by tokens, the scheduler's included. The names of workloads in rows and in
  the inference are two tables of the code that no registration extends:
  `GeneratorName` is the simulator's, `WorkloadKeyToName` the aggregation's. The
  cores, tasks and stop time of a run are one number, odd when the stop time has a
  fraction, which the runner cuts off as it calls the simulator (`Whole`).
  `resolved_runs` is modelled with its call
  stack, because its memo is filled only on return and an open call of Python is
  a bounded resource (`RecursionLimit`).
- `BenchmarkPipeline`: one action per file written or group of files that one
  statement writes; `Kill` may end a command between any two of them.
  `BreakCase` ends a simulator anywhere, alone or with the runner: before it opens
  its files, between the two, or in the middle of either, which end independently
  (`Leavings`). `KillClean` ends `rmtree` with any directories gone and any files
  of one more (`Remaining`). A cut line of `metrics.csv` keeps the place of its cut,
  because three scripts read the file; one of `tasks.csv` is kept as the only script
  that reads it does (`CutTask`).
  A line of either carries a ghost `gen`, the execution that wrote it; the
  ghosts `uncleaned` and `fresh` record which suites were executed without cleaning
  and which tables the last aggregation wrote. No guard reads a ghost.
- `RunAnalysis`: a table is a set of rows (a sequence, for the metrics). `NiceBucket`
  keeps a share as a numerator over the product of the totals, so that the
  arithmetic is exact.

Everywhere:

- Definitions whose comment says "faulty variant" are not part of any
  specification; each replaces one definition when a property is tested for its
  power to detect a bug.

## 3. What is checked

`MCSimulator.cfg` (run `sim_core`): three tasks on two cores, arrivals
in {0,1} and execution times in {1,3} chosen in the initial state, a scheduler
that may ask for the default slice (1) or for 3, `Eps` 1, stop times 3 and 12.
Three tasks on two cores is the least with a ready queue while all cores are
busy; slices shorter and longer than the work give expiries, completions and
events that outlive their dispatch; equal arrivals give ties; stop time 3 cuts
runs in the middle and 12 is past the end of all of them. Among the states are
the awkward ones: finished tasks in the ready queue, and a final clock later
than the last completion.

- `OnePlace`, `WorkConserving`, `WaitAccounting`, `SliceEventPending`,
  `ClockEndsAtLastCompletion`, `SwitchesAccountedFor` - see the comments above
  each in `Simulator`.
- `ImplementsPool` - the simulator implements `WorkConservingPool`: at every
  scheduling point each task has received exactly the time it was on a core.

- `AllTasksComplete` (liveness): `run` ends with every task completed if the stop
  time allows it. The only fairness is `WF_vars(Next)`: `run` is a loop that takes
  the next event unconditionally. Scheduling decisions get no fairness at all;
  none is needed because a slice is positive, so time advances and work shrinks.

`MCMLFQStale.cfg` (`sim_stale`, a violation): `event.cpp:22` says that the
events `cancel_task` leaves in the heap "will be filtered when processed".
They are not when the task is back on the same core. The run is MLFQ's, so that
the trace is one of a real policy, and `Eps` is 0, so that a task within the
completion threshold plays no part: a task in its first slice of the second
queue (4 units, until 8) is preempted at 5 by a new one, is dispatched again at
6 for 4 units, and is charged, counted as preempted and put back at 8, after 2
of them. The property speaks of an event older than the one of the dispatch in
effect, with the latter still ahead, so an event popped at the same tick does not
count. The invariants above show how far the damage goes: accounts stay right
and no task is lost, but slices may be cut short and counted as preemptions.

`MCMultiCore.cfg` (`mq_core`): five symmetric tasks, two cores, both balancers,
stealing on and off, arrivals {0,1}, executions {1,3}, slice 2, `Eps` 1, stop
time 6 (some runs drain before it, some are cut by it). Five
tasks are the least with which the least-loaded balancer can leave a queue of
two beside a core that runs dry, so that a steal happens; arrivals at 1 come
after the first completions, so they meet idle cores.

- `OnePlace`, `WaitAccounting`, `SliceEventPending`, `ImplementsPool` (here
  `ServicePool`: separate queues do not conserve work in general).
- `OwnQueueServed`: a core never idles beside its own queue.
- `NoIdleBesideLongQueue`: with least-loaded and stealing, no core idles while
  another has two tasks waiting.
- `MigrationOnlyBySteal`: a task changes cores only by a steal that is allowed,
  counted, made by a core with nothing of its own, from a longest queue that is
  not emptied by it.

`MCMultiCoreRR.cfg` (`mq_rr`, a violation): the README says "Idle cores steal
from busiest queue". A core steals only at the moment it runs dry. With the
round-robin balancer, which does not look at loads, a core runs dry while the
other has one task waiting, too few to steal from, and the next arrival joins
that queue: two tasks wait beside an idle core, and no handler of the code makes
it look again. `Eps` is 0 here too.

The policies run on `PolicySimulator`, with every workload chosen in the initial
state, so that a few thousand workloads are explored in one run. `SchedulerContract`
is checked for each: the policy's containers hold the tasks the simulator
believes ready, and what it would schedule next is a task among them.

`MCCFS.cfg` (`cfs`): one core, three tasks, weights 1 and 3 (NICE_0 being 3), with
arrivals and work long and short against the latency period (1680 ticks) and a
minimum granularity that is reached, and that stretches the period, with three
tasks. `FairShare`: tasks that arrive together receive CPU time in proportion to
their weights up to one slice. `CreditBounded`: the clamp on return bounds what a
task can be owed; it matters because the minimum jumps over a newcomer.

`MCMLFQ.cfg` (`mlfq`): one core, four tasks, the default queues, and a boost period
of 16 so that boosts occur within the runs. `LevelsConsistent`; `HigherPriorityRuns`
(rule 1); `StarvationBounded`: a task waits no longer than the boost period, the
slice in which it runs out, and one top quantum for each task boosted before it.
Without the boost the instance exceeds this bound.

`MCEEVDF.cfg` (`eevdf`): one core, three tasks, weights of half, once and twice
NICE_0. `LatencyGuaranteed`: a queued task's virtual deadline is missed by at most
one slice per other task.

`MCStride.cfg` (`stride`): one core, three tasks, real weights. `NoneBehind`: no task
keeps a pass behind the global pass.

`MCStrideShare.cfg` (`stride_share`, a violation): the header promises
"deterministic proportional share". The clamp behind `NoneBehind` takes the
minimum over the tasks queued when another is charged and raises that other to
it on return, which deprives a task with a small stride of its lead: with strides
29 and 9 the second receives twice the CPU time of the first, not more than three
times.

`MCTrace.cfg` (`trace`): two instances, each with one of thirteen histories (plain,
resubmitted, evicted, finished or scheduled too early, submissions that tie, a
burst of 0, an event missing), with and without a window and a limit. Two
instances are enough for the order of the lines, the limit and the sort to
matter; the priorities are the boundaries of the tiers.

- `ExtractionExact`: the records are those the trace as a whole defines. The
  definition it is compared with (`Expected`) knows no reading order and applies
  the window once per instance; the code drops single lines. The window is a
  finding: `extract_google_v3.py:103` documents "only include tasks with SUBMIT
  time < this value" (`WithinWindow`), while line 133 drops only what is later, so
  that a task submitted at the very end is extracted too (`AtWindowEnd`). The
  instance submitted at 4 under the window of 4 is that case; without `AtWindowEnd`
  TLC finds the property violated there.
- `OutputIsWorkload`: the file is a workload the simulator takes.
- `PriorityRespected`: no task of higher priority gets less weight.

`MCSuite.cfg` (`suite`): 1543 documents. Most are pairs of experiments, with one id
or two, the second with or without reuse of the first, and each with one of nineteen
lists of runs: aliases, defaults left out, repetitions, other cases of letters,
schedulers that differ, that only the registry has, or nobody, a plugin of its own
for a built-in generator, stop times with a fraction, wrong values. The others are three
experiments with every pattern of reuse, circles included, and wrong defaults.

- `PlanCoversRuns`: the plan loses no run, invents none and runs none twice.
- `ResolvesIffAcyclic`: resolving overflows exactly on circular reuse. Neither the
  validator nor the runner rejects it, so such a suite is executed in full before
  the aggregation ends with a `RecursionError`.
- `AttributionAgrees`: what the runner records for a run and what is inferred from
  its rows. The inference never looks at the scheduler of a run
  (`aggregate_results.py:203`), while the plan keeps schedulers apart: so an
  experiment is also inferred for the cases that differ from its own by the
  scheduler, and the property says exactly that for plain suites. What is recorded is
  inferred too, as long as the rows can be told (`Recognizable`); where they cannot
  is listed among the observations below.

`MCPipeline.cfg` (`pipeline`): two suites, one with two documents (a run more, a
simulation more), two executions in any order, wrapper and suite, two faults
anywhere. Two executions and a document that shrinks are the least with which
stale directories exist; two faults are needed to have a cut line beside a
manifest that is out of date, or a kill while the next execution repairs the
first. A line is cut before a comma or inside a cell, one of `metrics.csv` behind the
name of its scheduler or in its last number, one of `tasks.csv` in the name of its workload. The
larger plan of the first suite turns to all workloads, of which one has no trace;
the second suite has nothing but this workload, so that whole executions without
tasks occur, alone and after others that had some. 2.1 million states.

- `ReportsCurrentRun`: if `run_full_analysis.sh` gets to its end, everything it
  leaves about its suite is of this execution and complete. Simulations without tasks
  are missing from the three tables made from `tasks.csv`, and from no other;
  each has a `low_completion_ratio` warning; and when no run anywhere has tasks,
  these three tables may be those of an earlier aggregation.
- `ManifestDescribesMetrics`: a manifest describes the metrics beside it when its
  suite was cleaned before it was last executed.
- `QualityFlagged`: a cut line is read as a row, and flagged.
- `SharesBalance`: what the buckets of a simulation share out adds up, and the three
  tables made from tasks agree.
- `FiguresAgree`: the publication figures, drawn from four tables, can be read side
  by side.

Observations made while modelling, which no run of this project checks:

- CFS: "set vruntime to current min to be fair" (`cfs_scheduler.hpp:43`). The
  minimum is taken over the ready queue only, so a task running alone does not
  move it, and a newcomer starts behind by all that the other has run.
- MLFQ on two cores: rule 1 "If Priority(A) > Priority(B), A runs" fails. The
  simulator preempts the first core that may be preempted rather than the one
  with the lowest level, and a boost raises queued tasks without any preemption.
- EEVDF: a returning task's vruntime is raised to the virtual time
  (`eevdf_scheduler.hpp:43`), which ran ahead by the weights of the ready queue
  without it. Only deadlines are checked; shares under EEVDF are not.
- `extract_google_v3.py:198`: a burst cannot be negative, because the finish was
  chosen from the schedule on. `StatsCorrect` proves that this branch is dead.
- A fresh checkout has no trace CSVs. `trace_replay_workload.cpp:91` and `:196`
  return an empty list for a missing or empty one, `main.cpp` writes the row of the
  simulation all the same and exits 0, so that `run_full_analysis.sh` reports success
  with these simulations missing from the allocation, bucket and characteristics
  tables. Only a warning in `quality_checks.csv` tells of it. `ReportsCurrentRun`
  includes this.
- Runs that no row tells (`Recognizable` leaves them out). `run_suite.py:272` passes
  `int(stop_time)`: 1.5 is simulated, and inferred, as 1, and 0.5 as 0, on which the
  simulator exits 1, though the validator took it. A workload named by an alias or by a plugin
  of its own is not translated by `WORKLOAD_KEY_TO_NAME`, so it is recorded but never
  inferred.
- `analysis/visualization_plan.md:94`: "regenerate `runs/` and all `analysis/*.csv`
  outputs from scratch". `run_full_analysis.sh` cleans the directory of its own suite and no other.
- A row whose last cell is cut has one digit too few and is not flagged: nothing
  in the file tells it from a whole one.

## 4. What is proved

### The simulators

`Simulator_proofs` proves, for every set of tasks, number of cores, workload,
stop time and scheduler that keeps the contract, from the named assumptions of
`Task` and `SimulatorBase` (at least one core; times are naturals; execution
times and the default slice are positive; `NoTask` is not a task), all seven
invariants of `sim_core` - `TypeCorrect`, `TasksInOnePlace`, `NoIdleCoreWithWork`,
`TimesAddUp`, `BusyCoreHasEvent`, `ClockEnds`, `SwitchesCounted` - and the
refinement `SimulatorImplementsPool`: every behaviour of the simulator is one of
`WorkConservingPool`.

`MultiCoreSimulator_proofs` proves the same for the multi-queue simulator, with
either balancer, stealing on or off, for any finite workload (`FiniteWorkload`:
queue lengths are cardinalities), all that `mq_core` checks: `TypeCorrect`,
`TasksInOnePlace`, `OwnQueuesServed`, `NoneIdlesBesideLongQueue`, `TimesAddUp`,
`BusyCoreHasEvent`, the action property `OnlyStealsMigrate` and the refinement
`SimulatorImplementsPool` of `ServicePool`.

Both rest on one inductive invariant `IInv` each, because none of these is
inductive alone. That times add up needs each task in one place and charged only
within its remaining time; that in turn needs every event, live or stale, to be
due no later than its task can be over (`EventsGood`), since a stale event may end
a dispatch; the clock's bound follows from the same fact; and a preempted task can
be charged because the event of its own dispatch, still in the heap, is not yet
due (`Slots`). These parts are `Sound`, which the two simulators share.

A handler passes through states that no action of the specification exposes, so
what its elementary steps preserve is stated in `SimulatorBase_proofs` over
explicit arguments (`tk` task records, `q` ready tasks, `run` the tasks of the
cores, ...), with the tasks of all queues for `q` in the multi-queue simulator.
`Consistent` holds between two steps; `Interrupted` holds once a task may have
lost the event of its dispatch, until it is charged. One lemma per step and
predicate: `ArrivalConsistent`, `RequeueConsistent`, `CompleteConsistent`,
`DispatchConsistent`, over `PopGood`, `ArriveGood`, `RequeueGood`, `CompleteGood`,
`DispatchGood`. In each simulator `HandlerEnds` says what the trailing
`dispatch_next` makes of such a state, one lemma per action brings its handler
there, and `StepInv` collects them.

What each adds to `Sound`:

- work conservation needs the queue to hold at most one task when a handler
  dispatches on one core while another is idle (`OneIfOthersIdle`);
- the switch counter lies between the dispatches and the dispatches plus the
  preemptions (`Counted`), where dispatches are the preemptions, the completions
  and the tasks on cores: `CountedPreempt`, `CountedComplete` and
  `CountedDispatch` follow the cardinalities through the steps of a handler;
- `OwnQueueServed` and `NoIdleBesideLongQueue` are only inductive together. A
  core about to dispatch while another idles finds at most two ready tasks in
  its own queue and one in any other (`NoLongQueue`): the idle core serves its
  own queue, so its load was nought, and the balancer sends an arrival to a core
  of least load. `SomeBusiest` shows that `find_busiest_core` finds a victim
  whenever some core has two tasks waiting;
- for `MigrationOnlyBySteal`, no task is in two queues (`Apart`) and so at home
  on two cores (`HomesApart`); a handler changes the queues of the core it
  dispatches on and, by a steal, of one other (`DispatchMigrates`).

The refinements follow the same path. Between two scheduling points a handler
takes no time and changes no task's CPU time (`Handled`); the time since the last
point is charged, in the accounts, to exactly the tasks on cores (`ServedWhile`).
Together they make every handler a step of the pool (`HandlerPoolStep`, stated as
`PoolStep` over explicit arguments), and every other action stutters
(`StepFacts`: `Advances` or `Stutters`). `StepPool` translates this into the
abstract variables, and work conservation carries over from the invariant.

### The policies

The second half of `Simulator_proofs` proves that the simulator with a policy implements the
simulator that leaves every decision open (`PolicyImplementsSimulator`), whatever
the six operators are, so that the same invariants and the same refinement hold
with every policy (`PolicyCorrect`, `PolicyImplementsPool`). This is because
`DispatchNext` admits only decisions within the contract; that a policy never asks
for anything else, so that no step is blocked, is `SchedulerContract`.

To prove that, a policy is described by a set `P` of objects. `Contract(P)` says,
call by call and without the simulator, that the constructor's objects are in `P`,
that calls stay in `P`, that `add_task` and `remove_task` put a task into the ready
queue and take it out, that `on_cpu_used` leaves the queue alone and that `schedule`
answers within the contract. `ContractKept` concludes `SchedulerContract` on any
number of cores. The calls are only required of arguments the simulator makes
them with: it never adds a task twice or charges a queued one, and the lemma of
each action proves that from `IInv` for every call of the handler in order.

Two theorems carry a relation `F` between objects and tasks ("`p` treats `t` well")
from the calls to the runs. `Protects(P, F)` says that `add_task` establishes `F`
for its task, returning or new, and that no call breaks it for a ready one;
`OneCoreProtected` concludes that on one core it holds of every task ready *and
running*. It speaks of one core, because there the object does not change while a
task runs. `Preserves(P, F)` asks more, that no call breaks it for any task, but of
`add_task` only that it establishes `F` for a new task; `AlwaysProtected` concludes
the same on any number of cores. It needs that a task that has not arrived has
never been started (`Fresh`), so that each task is once added as new.

A third, `OneCoreAlternates`, is about a property of the object that a charge weakens:
`F` while a task runs and `G` once it has been charged (`Alternates`). A charge of at
most the slice leads from `F` to `G`, the dispatch of what `schedule` answers back to
`F`, arrivals keep both, and an empty ready queue has both. That no charge is longer
than the slice is proved with it, from the event of the slice that is pending while
the task runs (`InTurn`).

`Policies_proofs` applies these. For CFS and Stride, for all weights, parameters and
workloads:

- `StrideKeepsContract` and `NobodyFallsBehind` (`NoneBehind`). The
  global pass only rises to the least pass of the ready queue (`UpdatedFacts`), so
  it overtakes nobody in it, and who returns is raised to it.
- `CfsKeepsContract` and `CreditStaysBounded` (`CreditBounded`), by the
  same argument with the credit of a latency period.

In both `schedule` has an answer because the comparator is a total order on natural
keys, ids last (`SomeFirst`).

For MLFQ, for all levels, quanta, allotments, boost periods and workloads:

- `MlfqKeepsContract`, on any number of cores. An object has each queued task in the
  queue of its level, once (`Placed`). A boost, which
  concatenates the queues, then repeats no task, because no two of them share one. What
  `remove_if` leaves of a queue is proved from its definition (`WithoutFacts`).
- `MlfqLevelsConsistent`, on any number of cores, by `AlwaysProtected`: allotments are
  refilled on demotion and boost, and no call leaves one empty.
- `MlfqRunsHighest`, on one core. The running task was taken from the highest queue
  that held a task; arrivals above it preempt it; it is demoted only when it leaves
  the core; and a boost, which raises queued tasks above a running one, happens only
  when the one core has just been charged. With two cores that last step fails: the
  boost found at the end of one core's slice does not reach the task on the other.
- `MlfqStarvationBounded`, on one core, for finitely many tasks. The bound is
  not inductive. Its strengthening `Timely` (which TLC checked on the instance of the
  run before it was proved) looks at each queued task at the last dispatch
  (`InTime`): it had waited no longer than the boost timer had run; or it had been
  boosted since, waited at most the period, the longest slice and a top quantum for
  each dispatch after the boost (`Turns`), and stood in the top queue at a place
  that those dispatches leave of the number of tasks. While a task
  runs, the event of its slice is pending within the slice. Dispatches take the first of the top queue, so
  the others move up; arrivals and demoted tasks go to the end of a queue
  (`KeepsTop`).

For EEVDF, for all weights, base and minimal slices and workloads:

- `EevdfKeepsContract`, on any number of cores. `schedule` has an answer whether
  some ready task is eligible or none is (`FirstLeastFacts`), and the weight by which
  `on_cpu_used` divides is not 0: sums over a set, which the community module defines
  by a recursive function, exist and are no less than any summand (`SumsExist`,
  `SumsNatural`).
- `EevdfLatencyGuaranteed`, on one core, for finitely many tasks, by the
  argument of `OneCoreAlternates`. `F` and `G` bound by how much virtual time has passed the
  deadline of a ready task: one longest slice, in its own virtual time, for each task
  that may have gone before, less those that are still before it (`InLatency`,
  `Before`). A newcomer's deadline lies in the future, so it does not come before a
  task that is late; a charge advances virtual time by no more than such a slice,
  since the ready queue weighs no less than the task (`ChargedInLatency`); and a late
  task is eligible (a task's eligible time is never after its deadline), so that the
  task dispatched is one of those before it, or itself (`DispatchedInLatency`).

The hypotheses `DrivesStride`, `DrivesCfs`, `DrivesMlfq` and `DrivesEevdf` say that the operators
of `PolicySimulator` are those of the policy, for CFS and Stride that tasks are
their ids, and that
`Slices` holds the slices the policy computes; the configurations of the runs
meet them.

### The scripts

`TraceExtraction_proofs` proves, for every set of instances, trace, window and limit (traces are sets of lines with natural times
and priorities; `NsPerUs` is positive), every invariant of the run `trace`:

- `TypeCorrect`, `StatsCorrect`, `OutputCorrect`: from one invariant (`TInv`) whose
  core is that a verdict counts under one of five outcomes and brings a record
  exactly when it is "complete" (`VerdictsType`).
- `WeightsCorrect`: within a tier the map and the clamp are antitone, and tiers lie
  below each other (`NiceByTier`, `NiceOfTier`, `NiceAntitone`); the weight table
  falls (`WeightsAntitone`). This is over all priorities, not the ten of the run.
- `ExtractionCorrect`: while lines are read, the events filed are those of the lines
  read and kept (`ReadingInv`); when all are read a verdict is therefore a fact of
  the trace, whichever of the events that tie were taken (`VerdictExact`); the
  records are the expected ones of the instances matched so far, each once
  (`RecordsInv`); and an injection, or at the end of the instances a bijection,
  between records and instances that complete gives their number
  (`RecordsCount`).

`BenchmarkSuite_proofs` proves, for every set of documents, `PlanCoversRuns`,
`AttributionAgrees` and `ResolvesIffAcyclic`. The assumptions: experiments and runs
are arrays and a run has its fields (`DocumentsAssumption`); lower case is lower
case, also of the words the code compares with (`LowerCaseAssumption`); the built-in workloads
are registered under the simulator's own tokens, as `builtins.py` does
(`BuiltinsAssumption`); no document has as many experiments as Python may have open
calls (`RecursionLimitAssumption`); no id is the value that stands for a missing
`reuse` (`AbsentAssumption`). Nothing is assumed of other plugins and of aliases.

- The first two are about concatenated lists. What `FlattenSeq` does to a list that grows is
  proved from its definition: `Concatenates` describes the concatenations of its
  prefixes, and an induction on a set of indices (`UpTo`, from well-foundedness)
  gives that one exists, that `FlattenSeq` is its last (`FlattenConcatenates`), that
  its elements are those of the lists (`FlattenType`, `FlattenElements`), and what
  appending a list or growing one does to it (`FlattenAppend`, `FlattenLonger`).
- `PlanCoversRuns` speaks of finished plans. The inductive invariant says the same of
  the first k runs while runs are left (`PlanOf`, `Planning`): what is left is the end
  of the document, and a turn of the loop makes the plan of k runs one of k + 1,
  with a case of its own (`PlanNewCase`) or in one planned before (`PlanSameCase`).
- `AttributionAgrees` adds that a result of `resolved_runs` starts with the runs of the
  experiment itself (`OwnFirst`). What the rows of a run that can be told say of it is
  written down field by field (`SummaryOfTold`), where the two tables of names agree
  (`NamesAgree`). So a run matches the rows of its own configuration (`MatchesOwnKey`),
  which gives that what is recorded is inferred (`RecordedIsInferred`); and the rows it
  matches are of its configuration but for the scheduler (`MatchesOnlyOwnKey`), while
  those of configurations that differ by it are alike (`SummaryOfAlike`), so that in a
  plain suite what is inferred was recorded for one of these (`InferredIsRecorded`).
- `ResolvesIffAcyclic` relates the stack of calls to `Chain`, the experiments along
  reuse without repetition. The inductive invariant (`ResolvingCorrect`): the open
  calls walk along reuse (`Walks`), and what is recorded are the runs along chains
  that end (`Results`). A chain has at most as many experiments as there are ids, so
  that as many steps as ids reach its end or come back (`ChainFacts`, from
  `DistinctLength`); where reuse ends every walk ends (`WalkEnds`), so that a stack
  as deep as the limit is on a circle (`DeepIsCyclic`); and an experiment before a
  chain that ends is one with its runs first (`ChainOfChild`, `AlongPrepended`).

`BenchmarkPipeline_proofs` proves `ManifestDescribesMetrics`, `FiguresAgree`,
`QualityFlagged`, `ReportsCurrentRun` and `SharesBalance` for any suites, plans,
results, cuts and bounds on executions and faults. Assumed is that plans, the simulations of a case and the tasks of a simulation
are lists (`PlansAssumption`), that run directories are pairs (`RunOrderAssumption`),
that a cut is in a column from `Scheduler` on, in either file (`CutsAssumption`), that what a task got
and its weight are natural numbers (`TasksAssumption`), and of the plans what
the code around them ensures (`RunsAssumption`): `run_suite.py` stops on an empty plan
and names each run once and after its experiments, the simulator's tables of schedulers
and workloads list each once, by its name, and with one replication, which all suites of
the repository ask for, no simulation is repeated; and one without tasks has
completed none (`Metrics::calculate` returns at once and `write_metrics_row` divides
zero by a positive number). That there are tasks is not assumed. A file that does not exist is told
from those written (`NoneAssumption`) and executions are numbered (`MaxGenAssumption`).

- `ManifestDescribesMetrics` is not inductive: a case that overwrites `metrics.csv`
  would leave an old manifest beside it. The strengthening is `NoManifestYet`: while
  the cases of a cleaned suite run, none of its directories has a manifest. A cleaning
  cut short only takes files away (`KillCleanIs`), and may leave a manifest that
  describes nothing, which nobody reads.
- `FiguresAgree` follows the rows from the simulator to the figures, in four
  invariants. Both files of a run directory are of one execution, cut or not
  (`OneExecution`). While an aggregation runs, each table it has written is what the
  files say to the last (`AsWritten`, because no step of it changes a file:
  `ContentsSame`); so at its end, or when it is killed, the rows of the tables agree
  on the execution of each run (`TablesAgree`, `AsWrittenAgrees`), and they go on to
  when the next executions have overwritten the directories (`TablesKept`). And each
  figure drawn is that of its tables (`Publishing`).
  The lemmas under them say what a concatenation or a filter holds (`FlattenToSet`,
  `FilteredBy`), and from which run directory each row of each table is
  (`MetricsTableIs`, `TasksOfKey`, `ContentsOfRun`).
- `QualityFlagged` rests on the same invariants and on `FilesApart`: no two lines of a
  `metrics.csv` are read with the same names, since a line cut in a name is read with
  part of one or none (`MetricsLinesApart`). Rows and lines are then matched by
  position, which needs to know from which file and line of it each row of the
  concatenation is (`FlattenPlaces`, `RowsAre`). So the issues of a row are its own
  (`IssuesOfRow`), and a cell is missing exactly where the line ends (`MissingIffCut`).
- `ReportsCurrentRun` speaks of the end of `run_full_analysis.sh`; three more invariants
  lead there. `Phase` says which wrapper may be where. `Progress` says what the suite's
  directories hold: after n cases, what these have written and nothing else (`Sound`),
  which starts from the cleaning and needs that runs are told by their names; behind
  the runner, that no case has failed and all were executed (`Whole`). `Reporting` says
  that a table with rows was written by this aggregation, the summary from these
  tables, and each figure from this suite's rows. What is left is about one state, in
  which the tables are those of the files (`TablesLeft`): the rows of the suite are those
  of its cases (`OnlyCases`, `SuiteMetrics`, `SuiteKeys`), with the execution, the
  experiments and the number of rows of each (`CaseRead`); their keys are the
  simulations of the plan, those of the tables made from tasks the ones that had some
  (`TaskedAre`), and rows are told by their keys, so that they are as many
  (`KeyedRows`, `LengthIsSize`); a simulation without tasks has its warning
  (`TasklessWarned`), because its whole line says that it completed none; and the MLFQ row a difference was taken from is of the
  same case (`DifferencesReport`).
- `SharesBalance` says that of the CPU time of a simulation's tasks the buckets by nice
  value hold each part once. A sum over a set is a fold that takes its elements in an
  order of its own choice, so the lemmas first free it from that order: it is the value
  at the whole set of a function on its subsets that adds one element at a time,
  whichever comes first (`IsSum`). Such a sum
  is the same when its elements are renamed (`SumMoved`), can be taken class by class
  (`SumByClass`), and is bounded by the bounds of its elements (`SumBound`). With one
  bucket for each nice value (`BucketPerNice`), whose tasks are found at places of their
  own among all tasks (`FilteredPlaces`), follow the shares observed
  (`ObservedBalances`), those expected (`ExpectedBalances`) and the bound of the error
  (`ErrorBounded`). `SharesInv` carries them on from the end of an aggregation, during
  which they follow from `AsWritten`.

### Only model-checked

- Liveness (`AllTasksComplete`), which is outside the prover's reach.
- `FairShare` (CFS), which is stated for parameters with exact quotients: where the
  integer divisions of the model round, the vruntimes of equals may drift apart by
  one at each charge, so that the bound is not a theorem of all parameters.

## 5. Not modelled, and plan

Next, in this order:

1. weighted shares under EEVDF, and the policies on the multi-queue simulator;
2. the plugin registry.

Abstractions of the scripts, beyond those named in each module's head:

- `--dry-run`, `--continue-on-error` and the other options of the runner that no
  wrapper passes; parsing of options and JSON; the command line built for the
  simulator.
- Lines are cut from the column `Scheduler` on. Before it stand the versions, ids
  and sizes that the aggregation copies. A line of `tasks.csv` cut behind
  `AllocatedCPU` is read as a whole one by what is modelled, and a name that is
  gone (`None`) as one that is blank.
- A file other than the simulator's is written at once. What a failure other than a
  kill does to these scripts (a full disk) is not modelled. A kill while figures are
  drawn leaves some of them; they are not kept, as nothing reads them.
- Statistics over rows (correlations, coefficients of variation, Jain's index,
  percentiles) and columns that are copied.

Not planned: metrics (arithmetic over finished records), the Lehmer generator
(`rngs.c`: its recurrence restates its formula, and its period is out of reach of a
run) and the distribution functions of `rvgs.c`/`rvms.c` (floating point), the
synthetic workload generators, `make_subset.py`, the rendering of plots and of the
report pack, and the legacy headers that no target compiles.
