----------------------------- MODULE RunAnalysis -----------------------------
(***************************************************************************)
(* What the scripts compute from the artifacts of the runs: the tables of  *)
(* aggregate_results.py, the summary of export_summary_table.py and the    *)
(* rows each figure of plot_publication_figures.py draws.                  *)
(*                                                                         *)
(* A line of metrics.csv is one simulation: the scheduler and workload it  *)
(* ran, its configuration, its result and, when the simulator was killed   *)
(* as it wrote, where the line was cut.  A line of tasks.csv is one task   *)
(* of such a simulation; a cut one is kept as aggregate_results.py, the    *)
(* only script that opens the file, reads it.  Both carry gen, the         *)
(* execution that wrote them, which the files do not name.  The rows of    *)
(* metrics_enriched.csv are a sequence, those of the other tables a set.   *)
(* A share is kept as its numerator over the product of the two totals.    *)
(*                                                                         *)
(* Left out: seeds, replications, sizes and versions, which are copied;    *)
(* correlations, coefficients of variation and Jain's index; and how a     *)
(* figure looks.                                                           *)
(***************************************************************************)
EXTENDS Integers, FiniteSetsExt, SequencesExt

\* The elements of a sequence that pass the test, in their order.
Filtered(s, Test(_)) ==
  FlattenSeq([i \in DOMAIN s |-> IF Test(s[i]) THEN <<s[i]>> ELSE << >>])

FairSchedulers == {"CFS", "EEVDF", "Stride"}

-----------------------------------------------------------------------------
(* metrics_enriched.csv and quality_checks.csv *)

RequiredText ==
  {"BenchmarkVersion", "SchemaVersion", "SuiteId", "RunId", "Topology",
   "Scheduler", "Workload"}

RequiredNumeric ==
  {"Completed", "CompletionRatio", "MeanRT", "P99RT", "Throughput",
   "JainsFairness", "ContextSwitches", "Preemptions"}

\* The columns above in the order write_metrics_header gives them.
Columns ==
  <<"BenchmarkVersion", "SchemaVersion", "SuiteId", "RunId", "Topology",
    "Scheduler", "Workload", "Completed", "CompletionRatio", "MeanRT", "P99RT",
    "Throughput", "JainsFairness", "ContextSwitches", "Preemptions">>

WholeLine == Len(Columns) + 1

\* The cells of a line.  At the cut one is "gone", "blank" after a comma, or a
\* "part" of the value; csv.DictReader gives None for those that are gone.
CellNo(i, cut, edge) ==
  CASE i < cut -> "value" [] i = cut -> edge [] i > cut -> "gone"

Cell(line, col) ==
  CellNo(CHOOSE i \in DOMAIN Columns : Columns[i] = col, line.cut, line.edge)

\* to_float and to_int, 0 for what is not a number.  Part of a number is short
\* of its last digits, and no less a number.
NumberIn(cell, value) ==
  CASE cell = "value" -> value
    [] cell = "part" -> IF value < 0 THEN -((-value) \div 10) ELSE value \div 10
    [] cell \in {"blank", "gone"} -> 0

PartOfName == "part of a name"

TextIn(cell, value) ==
  CASE cell = "value" -> value
    [] cell = "part" -> PartOfName
    [] cell \in {"blank", "gone"} -> ""

Number(line, col, value) == NumberIn(Cell(line, col), value)

Text(line, col, value) == TextIn(Cell(line, col), value)

\* The row of metrics_enriched.csv for a line.
Enriched(line, experiments) ==
  [suite       |-> line.suite,
   run         |-> line.run,
   gen         |-> line.gen,
   config      |-> line.config,
   sched       |-> Text(line, "Scheduler", line.sched),
   workload    |-> Text(line, "Workload", line.workload),
   experiments |-> experiments,
   completed   |-> Number(line, "Completed", line.result.completed),
   permille    |-> Number(line, "CompletionRatio", line.result.permille),
   meanRT      |-> Number(line, "MeanRT", line.result.meanRT),
   p99RT       |-> Number(line, "P99RT", line.result.p99RT),
   throughput  |-> Number(line, "Throughput", line.result.throughput),
   switches    |-> Number(line, "ContextSwitches", line.result.switches)]

\* add_quality_issue
Issue(type, severity, row, metric) ==
  [type |-> type, severity |-> severity, suite |-> row.suite, run |-> row.run,
   sched |-> row.sched, workload |-> row.workload, metric |-> metric]

\* Faulty variant of MissingCells: only cells that are there and blank.
BlankCells(line, row) ==
  {Issue("missing_cell", "ERROR", row, col) :
     col \in {c \in RequiredText \cup RequiredNumeric : Cell(line, c) = "blank"}}

\* A text cell that is gone reads as None, which is not empty; a number that is
\* gone reads as None, which is not a number.
MissingCells(line, row) ==
  {Issue("missing_cell", "ERROR", row, col) :
     col \in {c \in RequiredText : Cell(line, c) = "blank"}
             \cup {c \in RequiredNumeric : Cell(line, c) \in {"blank", "gone"}}}

LowCompletion(row) ==
  IF row.permille < 10
  THEN {Issue("low_completion_ratio", "WARN", row, "CompletionRatio")}
  ELSE IF row.permille < 100
  THEN {Issue("low_completion_ratio", "INFO", row, "CompletionRatio")}
  ELSE {}

\* Context switches per task are 0 when no task completed.
InvalidLogScale(row) ==
  {Issue("invalid_log_scale_candidate", "WARN", row, metric) :
     metric \in {m \in {"MeanRT", "P99RT", "ContextSwitchesPerTask"} :
       CASE m = "MeanRT" -> row.meanRT <= 0
         [] m = "P99RT" -> row.p99RT <= 0
         [] m = "ContextSwitchesPerTask" -> row.completed = 0 \/ row.switches = 0}}

ConfigKey(row) == <<row.suite, row.run, row.config, row.sched, row.workload>>

Duplicates(rows) ==
  {Issue("duplicate_config", "WARN", rows[i], "config_key") :
     i \in {i \in DOMAIN rows :
              /\ \E j \in DOMAIN rows : j # i /\ ConfigKey(rows[j]) = ConfigKey(rows[i])
              /\ \A j \in 1 .. i - 1 : ConfigKey(rows[j]) # ConfigKey(rows[i])}}

-----------------------------------------------------------------------------
(* The tables made from tasks.csv *)

\* The columns they are made of, in the order write_task_header gives them.
TaskColumns == <<"Scheduler", "Workload", "Nice", "Weight", "AllocatedCPU">>

\* A line that ends at the cut, as it is read.  A name that is gone is written
\* as one that is blank is.
CutTask(line, c) ==
  LET In(i) == CellNo(i, c[1], c[2])
  IN  [line EXCEPT !.sched = TextIn(In(1), line.sched),
                   !.workload = TextIn(In(2), line.workload),
                   !.task = [nice   |-> NumberIn(In(3), line.task.nice),
                             weight |-> NumberIn(In(4), line.task.weight),
                             alloc  |-> NumberIn(In(5), line.task.alloc)]]

\* run_key: the simulation a task line belongs to.
RunKey(line) == <<line.suite, line.run, line.config, line.sched, line.workload>>

Keys(lines) == {RunKey(lines[i]) : i \in DOMAIN lines}

TasksOf(lines, key) == Filtered(lines, LAMBDA line : RunKey(line) = key)

Total(Field(_), lines) == MapThenSumSet(LAMBDA i : Field(lines[i]), DOMAIN lines)

Alloc(line) == line.task.alloc

TaskWeight(line) == line.task.weight

AbsDiff(x, y) == IF x < y THEN y - x ELSE x - y

\* A row of weighted_allocation_summary.csv.  shareError is the sum over the
\* tasks of the difference between the share of CPU observed and the share by
\* weight, over the product of the totals, or over the one that is not 0:
\* safe_div takes a share of nothing to be 0.
Allocation(key, tasks, experiments) ==
  LET alloc  == Total(Alloc, tasks)
      weight == Total(TaskWeight, tasks)
      Error(line) ==
        CASE alloc > 0 /\ weight > 0 ->
               AbsDiff(Alloc(line) * weight, TaskWeight(line) * alloc)
          [] alloc > 0 /\ weight = 0 -> Alloc(line)
          [] alloc = 0 -> TaskWeight(line)
  IN  [key |-> key, gen |-> tasks[1].gen, experiments |-> experiments,
       alloc |-> alloc, weight |-> weight, shareError |-> Total(Error, tasks)]

Nices(tasks) == {tasks[i].task.nice : i \in DOMAIN tasks}

\* Faulty variant of NiceBucket: the tasks of all lower nice values too.
NiceBucketUpTo(key, tasks, nice, experiments) ==
  LET bucket == Filtered(tasks, LAMBDA line : line.task.nice <= nice)
      alloc  == Total(Alloc, tasks)
      weight == Total(TaskWeight, tasks)
  IN  [key |-> key, gen |-> tasks[1].gen, experiments |-> experiments,
       nice |-> nice, count |-> Len(bucket),
       observed |-> Total(Alloc, bucket) * weight,
       expected |-> Total(TaskWeight, bucket) * alloc]

\* A row of nice_bucket_allocation.csv, with the shares of the bucket over the
\* product of the totals.
NiceBucket(key, tasks, nice, experiments) ==
  LET bucket == Filtered(tasks, LAMBDA line : line.task.nice = nice)
      alloc  == Total(Alloc, tasks)
      weight == Total(TaskWeight, tasks)
  IN  [key |-> key, gen |-> tasks[1].gen, experiments |-> experiments,
       nice |-> nice, count |-> Len(bucket),
       observed |-> Total(Alloc, bucket) * weight,
       expected |-> Total(TaskWeight, bucket) * alloc]

\* A row of workload_characteristics.csv.
Characteristics(key, tasks, experiments) ==
  [key |-> key, gen |-> tasks[1].gen, experiments |-> experiments,
   uniqueNice |-> Cardinality(Nices(tasks))]

-----------------------------------------------------------------------------
(* fairness_vs_characteristics.csv *)

\* What a simulation has in common with the MLFQ one it is compared to.
BaselineKey(row) == <<row.suite, row.run, row.config, row.workload>>

NoBaseline == 0

\* A row of the table: the differences are 0 when there is no MLFQ row, and of
\* several the last is taken.
Fairness(row, rows, characteristics) ==
  LET mlfq  == Filtered(rows, LAMBDA r : r.sched = "MLFQ"
                                          /\ BaselineKey(r) = BaselineKey(row))
      found == mlfq # << >>
      chars == {c \in characteristics : c.key = ConfigKey(row)}
  IN  [key |-> ConfigKey(row), gen |-> row.gen, experiments |-> row.experiments,
       baseline |-> IF found THEN Last(mlfq).gen ELSE NoBaseline,
       throughputDelta |-> IF found THEN row.throughput - Last(mlfq).throughput ELSE 0,
       meanRTDelta |-> IF found THEN row.meanRT - Last(mlfq).meanRT ELSE 0,
       uniqueNice |-> IF chars = {} THEN 0 ELSE (CHOOSE c \in chars : TRUE).uniqueNice]

FairnessTable(rows, characteristics) ==
  {Fairness(row, rows, characteristics) :
     row \in {r \in ToSet(rows) : r.sched \in FairSchedulers}}

-----------------------------------------------------------------------------
(* summary_table.csv and the figures *)

\* The experiments a row is counted under.
SplitExperiments(row) == IF row.experiments = {} THEN {"none"} ELSE row.experiments

SlotsOf(row) ==
  {<<exp, row.workload, row.sched>> : exp \in SplitExperiments(row)}

\* A row of the summary: a sample per row of the slot, and the sums its means
\* are taken of.
SummaryTable(rows) ==
  LET slots == UNION {SlotsOf(rows[i]) : i \in DOMAIN rows}
      In(slot) == Filtered(rows, LAMBDA row : slot \in SlotsOf(row))
      Throughput(row) == row.throughput
      MeanRT(row) == row.meanRT
  IN  {[slot |-> slot, samples |-> Len(In(slot)),
        throughput |-> Total(Throughput, In(slot)),
        meanRT |-> Total(MeanRT, In(slot))] : slot \in slots}

\* scenario_label, "other" for those the figures have no place for.
ScenarioLabel(config) ==
  CASE config.topology = "sq" /\ config.cores = 1 -> "SQSS-1c"
    [] config.topology = "sq" /\ config.cores = 4 -> "SQMS-4c"
    [] config.topology = "mq" /\ config.cores = 4 /\ config.steal = "on" -> "MQMS-4c-WS-on"
    [] config.topology = "mq" /\ config.cores = 4 /\ config.steal = "off" -> "MQMS-4c-WS-off"
    [] OTHER -> "other"

HasScenario(config) == ScenarioLabel(config) # "other"

\* Key is that of ConfigKey and RunKey: suite, run, configuration, ...
InScenario(table) == {row \in table : HasScenario(row.key[3])}

\* The axes list the schedulers and the workloads, so that rows whose name was
\* cut are not drawn.
Named(name) == name \notin {"", PartOfName}

OfScheduler(metrics) == Filtered(metrics, LAMBDA row : Named(row.sched))

ThroughputRows(metrics) ==
  Filtered(OfScheduler(metrics),
            LAMBDA row : HasScenario(row.config) /\ Named(row.workload))

DeltaRows(fairness) == {row \in InScenario(fairness) : Named(row.key[5])}

\* Faulty variant of PlotRq1Throughput: the differences of all scenarios.
PlotRq1Everything(metrics, fairness) ==
  [rq1_throughput_by_scheduler |-> ThroughputRows(metrics),
   rq1_throughput_delta_vs_mlfq |-> {row \in fairness : Named(row.key[5])}]

\* The rows each figure draws.  Those laid out by scenario leave out every
\* other number of cores.
PlotRq1Throughput(metrics, fairness) ==
  [rq1_throughput_by_scheduler |-> ThroughputRows(metrics),
   rq1_throughput_delta_vs_mlfq |-> DeltaRows(fairness)]

\* The heatmap is laid out by scheduler and workload, the lines by scheduler.
PlotRq2WeightedBehavior(allocation, buckets) ==
  LET lines == {row \in buckets : Named(row.key[4])}
  IN  [rq2_weight_slowdown_correlation_heatmap |->
         {row \in InScenario(allocation) : Named(row.key[4]) /\ Named(row.key[5])},
       rq2_nice_bucket_slowdown |-> lines,
       rq2_nice_bucket_share_delta |-> lines]

PlotRq3SynthVsReal(metrics) ==
  [rq3_synthetic_vs_real |-> OfScheduler(metrics),
   rq3_completion_ratio |-> OfScheduler(metrics)]

PlotRq4Characteristics(fairness) ==
  [rq4_workload_characteristics_scatter |-> fairness]

PlotRq5Overhead(metrics) ==
  [rq5_overhead_bars |-> OfScheduler(metrics),
   rq5_overhead_vs_latency_tradeoff |-> OfScheduler(metrics)]

=============================================================================
