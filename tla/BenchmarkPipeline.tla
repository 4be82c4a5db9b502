-------------------------- MODULE BenchmarkPipeline --------------------------
(***************************************************************************)
(* The benchmark pipeline over the files it leaves behind.                 *)
(*                                                                         *)
(* run_full_analysis.sh executes the cases of a suite into a cleaned       *)
(* directory per run, generates manifests, aggregates everything found     *)
(* under runs/, exports the summary and draws the experiment figures, and  *)
(* stops at the first command that fails.  run_matrix.sh only executes,    *)
(* and does not clean.  aggregate_results.py and                           *)
(* plot_publication_figures.py can also be called by themselves.  Between  *)
(* two executions the document of the suite may change.  Anything may be   *)
(* killed, which leaves what was written; each of the two files of a       *)
(* simulator that ends early ends anywhere, in the middle of a line too,   *)
(* or is what it was before; and a cleaning cut short leaves any of the    *)
(* files it was to remove.                                                 *)
(*                                                                         *)
(* Which cases a document makes is BenchmarkSuite's part, what the tables  *)
(* hold RunAnalysis's.  A file that is not the simulator's is written at   *)
(* once.                                                                   *)
(***************************************************************************)
EXTENDS RunAnalysis

CONSTANTS
  Plans,      \* for each suite the plans its document may have
  RunOrder,   \* the run directories <<suite, run>>, in the order of paths
  Result,     \* the simulator: result and tasks by <<workload, scheduler>>
  Cuts,       \* where a line of metrics.csv may be cut: <<column, edge>>
  TaskCuts,   \* the same for tasks.csv, both from "Scheduler" on
  MaxGen,     \* executions in all
  MaxFaults,  \* simulators that end early and commands killed, in all
  None        \* a file that does not exist

Suites == DOMAIN Plans

\* Plans, their simulations and the tasks of each are lists.
ASSUME PlansAssumption ==
  \A s \in Suites : \A plan \in Plans[s] :
    /\ plan \in Seq(ToSet(plan))
    /\ \A case \in ToSet(plan) :
         /\ case.sims \in Seq(ToSet(case.sims))
         /\ \A sim \in ToSet(case.sims) : Result[sim].tasks \in Seq(ToSet(Result[sim].tasks))

\* RunOrder lists pairs.
ASSUME RunOrderAssumption ==
  /\ RunOrder \in Seq(ToSet(RunOrder))
  /\ \A d \in ToSet(RunOrder) : d = <<d[1], d[2]>>

\* A plan is not empty and its runs are told by their names, which RunOrder has
\* once; each is a run of an experiment and simulates something, nothing twice
\* (a suite asks for one replication), by names.  A simulation has no tasks when
\* its trace cannot be read, and then completes none.
ASSUME RunsAssumption ==
  /\ \A i, j \in DOMAIN RunOrder : RunOrder[i] = RunOrder[j] => i = j
  /\ \A s \in Suites : \A plan \in Plans[s] :
       /\ plan # << >>
       /\ \A i, j \in DOMAIN plan : plan[i].run = plan[j].run => i = j
       /\ \A case \in ToSet(plan) :
            /\ <<s, case.run>> \in ToSet(RunOrder)
            /\ case.experiments # {} /\ case.sims # << >>
            /\ \A i, j \in DOMAIN case.sims : case.sims[i] = case.sims[j] => i = j
            /\ \A sim \in ToSet(case.sims) :
                 /\ sim = <<sim[1], sim[2]>> /\ Named(sim[1]) /\ Named(sim[2])
                 /\ Result[sim].metrics.permille \in Nat
                 /\ Result[sim].tasks = << >> => Result[sim].metrics.permille = 0

\* What a task got of the CPU, at most what it needed, and its weight are not
\* negative.
ASSUME TasksAssumption ==
  \A s \in Suites : \A plan \in Plans[s] : \A case \in ToSet(plan) :
    \A sim \in ToSet(case.sims) : \A task \in ToSet(Result[sim].tasks) :
      task.alloc \in Nat /\ task.weight \in Nat

\* A cut is in one of the columns from "Scheduler" on.
ASSUME CutsAssumption ==
  /\ Cuts \subseteq (6 .. Len(Columns)) \X {"gone", "blank", "part"}
  /\ TaskCuts \subseteq (1 .. Len(TaskColumns)) \X {"gone", "blank", "part"}

\* Executions are numbered.
ASSUME MaxGenAssumption == MaxGen \in Nat

NoArtifacts == [metrics |-> None, tasks |-> None, manifest |-> None]

\* The files of aggregate_results.py in the order it writes them: the three
\* canonical tables, then those of write_rows.
TableOrder ==
  <<"metrics", "index", "quality", "allocation", "buckets", "characteristics", "fairness">>

Canonical == {"metrics", "index", "quality"}

VARIABLES
  pc,          \* what runs now, "idle" between commands
  full,        \* whether run_full_analysis.sh runs it
  suite,       \* the suite it executes
  statuses,    \* status of each case executed so far
  cursor,      \* position in the loop of the current command
  drawn,       \* the figures it has drawn, by name: the rows of each
  spec,        \* the cases of each suite's document
  gen,         \* number of the execution
  runs,        \* the artifacts in each run directory
  summaries,   \* each suite's execution summary
  tables,      \* analysis/*.csv
  faults,      \* simulators that ended early and commands killed
  uncleaned,   \* suites executed without cleaning since they were cleaned last
  fresh        \* the tables written by the last aggregation

vars == <<pc, full, suite, statuses, cursor, drawn, spec, gen, runs, summaries,
          tables, faults, uncleaned, fresh>>

command == <<pc, full, suite, statuses, cursor, drawn>>

files == <<runs, summaries, tables>>

ghosts == <<faults, uncleaned, fresh>>

Plan == spec[suite]

Init ==
  /\ pc = "idle" /\ full = FALSE /\ suite = None
  /\ statuses = << >> /\ cursor = 1 /\ drawn = << >>
  /\ spec = [s \in Suites |-> << >>] /\ gen = 0
  /\ runs = [d \in ToSet(RunOrder) |-> NoArtifacts]
  /\ summaries = [s \in Suites |-> None]
  /\ tables = [t \in ToSet(TableOrder) \cup {"summary"} |-> None]
  /\ faults = 0 /\ uncleaned = {} /\ fresh = {}

\* A command has ended, and with it what ran it.
EndCommand ==
  /\ pc' = "idle" /\ full' = FALSE /\ suite' = None
  /\ statuses' = << >> /\ cursor' = 1 /\ drawn' = << >>

Fault == faults < MaxFaults /\ faults' = faults + 1

-----------------------------------------------------------------------------
(* The suite runner *)

\* A wrapper starts, on the document as it is now.
Begin ==
  /\ pc = "idle" /\ gen < MaxGen
  /\ \E s \in Suites : \E plan \in Plans[s], f \in BOOLEAN :
       /\ suite' = s /\ full' = f
       /\ spec' = [spec EXCEPT ![s] = plan]
       /\ pc' = IF f THEN "clean" ELSE "cases"
       /\ uncleaned' = IF f THEN uncleaned ELSE uncleaned \cup {s}
  /\ gen' = gen + 1
  /\ UNCHANGED <<statuses, cursor, drawn, files, faults, fresh>>

\* Faulty variant of Clean: nothing is removed.
CleanNothing ==
  /\ pc = "clean"
  /\ pc' = "cases"
  /\ uncleaned' = uncleaned \ {suite}
  /\ UNCHANGED <<full, suite, statuses, cursor, drawn, spec, gen, files, faults, fresh>>

\* Faulty variant of Clean: the manifests stay.
CleanButManifests ==
  /\ pc = "clean"
  /\ pc' = "cases"
  /\ runs' = [d \in DOMAIN runs |-> IF d[1] = suite
                                   THEN [NoArtifacts EXCEPT !.manifest = runs[d].manifest]
                                   ELSE runs[d]]
  /\ uncleaned' = uncleaned \ {suite}
  /\ UNCHANGED <<full, suite, statuses, cursor, drawn, spec, gen, summaries, tables, faults, fresh>>

\* --clean-suite-dir removes the run directories of this suite only.
Clean ==
  /\ pc = "clean"
  /\ pc' = "cases"
  /\ runs' = [d \in DOMAIN runs |-> IF d[1] = suite THEN NoArtifacts ELSE runs[d]]
  /\ uncleaned' = uncleaned \ {suite}
  /\ UNCHANGED <<full, suite, statuses, cursor, drawn, spec, gen, summaries, tables, faults, fresh>>

\* A directory of which some files are left.
Remaining(dir, left) ==
  [metrics  |-> IF "metrics" \in left THEN runs[dir].metrics ELSE None,
   tasks    |-> IF "tasks" \in left THEN runs[dir].tasks ELSE None,
   manifest |-> IF "manifest" \in left THEN runs[dir].manifest ELSE None]

\* rmtree goes from directory to directory, and through each from file to file,
\* in any order.  It is killed, or fails, and the runner with it.
KillClean ==
  /\ pc = "clean"
  /\ Fault
  /\ LET dirs == {d \in DOMAIN runs : d[1] = suite}
     IN  \E gone \in SUBSET dirs, dir \in dirs, left \in SUBSET DOMAIN NoArtifacts :
           runs' = [d \in DOMAIN runs |-> CASE d \in gone -> NoArtifacts
                                          [] d = dir /\ d \notin gone -> Remaining(d, left)
                                          [] OTHER -> runs[d]]
  /\ EndCommand
  /\ UNCHANGED <<spec, gen, summaries, tables, uncleaned, fresh>>

\* What the simulator writes for a case of a suite in an execution: a line per
\* simulation, and its tasks.
MetricsLines(s, g, case) ==
  [i \in DOMAIN case.sims |->
     [suite |-> s, run |-> case.run, gen |-> g, config |-> case.config,
      workload |-> case.sims[i][1], sched |-> case.sims[i][2],
      result |-> Result[case.sims[i]].metrics, cut |-> WholeLine, edge |-> "gone"]]

TaskLines(s, g, case) ==
  FlattenSeq([i \in DOMAIN case.sims |->
    [k \in DOMAIN Result[case.sims[i]].tasks |->
       [suite |-> s, run |-> case.run, gen |-> g, config |-> case.config,
        workload |-> case.sims[i][1], sched |-> case.sims[i][2],
        task |-> Result[case.sims[i]].tasks[k]]]])

\* A line that ends at the cut.
CutLine(line, c) == [line EXCEPT !.cut = c[1], !.edge = c[2]]

\* The beginnings of each file: some lines and, maybe, part of the next one.
Beginnings(lines) ==
  {SubSeq(lines, 1, n) : n \in 0 .. Len(lines)} \cup
  {Append(SubSeq(lines, 1, n), CutLine(lines[n + 1], c)) :
     n \in 0 .. Len(lines) - 1, c \in Cuts}

TaskBeginnings(lines) ==
  {SubSeq(lines, 1, n) : n \in 0 .. Len(lines)} \cup
  {Append(SubSeq(lines, 1, n), CutTask(lines[n + 1], c)) :
     n \in 0 .. Len(lines) - 1, c \in TaskCuts}

\* The metrics and tasks a simulator leaves that ends early: before it opens its
\* files, between the two, or after, and then they end independently of each
\* other, because each stream has a buffer of its own.
Leavings(case) ==
  LET old == runs[<<suite, case.run>>]
  IN  {<<old.metrics, old.tasks>>, <<<< >>, old.tasks>>}
      \cup Beginnings(MetricsLines(suite, gen, case))
           \X TaskBeginnings(TaskLines(suite, gen, case))

\* execute_plan: a case has left these files, and the manifest stays.
Executed(case, metrics, tasks) ==
  runs' = [runs EXCEPT ![<<suite, case.run>>].metrics = metrics,
                       ![<<suite, case.run>>].tasks = tasks]

Status(case, status) ==
  [run |-> case.run, experiments |-> case.experiments, status |-> status]

\* A file that does not exist is told from any that is written.
ASSUME NoneAssumption ==
  \A s \in Suites : \A plan \in Plans[s] :
    /\ None # [k \in DOMAIN plan |-> Status(plan[k], "ok")]
    /\ \A case \in ToSet(plan) : \A g \in 1 .. MaxGen :
         None # MetricsLines(s, g, case) /\ None # TaskLines(s, g, case)

RunCase ==
  /\ pc = "cases" /\ cursor <= Len(Plan)
  /\ LET case == Plan[cursor]
     IN  Executed(case, MetricsLines(suite, gen, case), TaskLines(suite, gen, case))
  /\ statuses' = Append(statuses, Status(Plan[cursor], "ok"))
  /\ cursor' = cursor + 1
  /\ UNCHANGED <<pc, full, suite, drawn, spec, gen, summaries, tables, ghosts>>

\* The simulator ends early: by itself, and the runner leaves its loop with the
\* case failed, or together with the runner.
BreakCase ==
  /\ pc = "cases" /\ cursor <= Len(Plan)
  /\ Fault
  /\ LET case == Plan[cursor]
     IN  /\ \E left \in Leavings(case) : Executed(case, left[1], left[2])
         /\ \/ /\ pc' = "summary"
               /\ statuses' = Append(statuses, Status(case, "failed"))
               /\ UNCHANGED <<full, suite, cursor, drawn>>
            \/ EndCommand
  /\ UNCHANGED <<spec, gen, summaries, tables, uncleaned, fresh>>

EndOfCases ==
  /\ pc = "cases" /\ cursor > Len(Plan)
  /\ pc' = "summary"
  /\ UNCHANGED <<full, suite, statuses, cursor, drawn, spec, gen, files, ghosts>>

WriteSummary ==
  /\ pc = "summary"
  /\ pc' = "manifests" /\ cursor' = 1
  /\ summaries' = [summaries EXCEPT ![suite] = statuses]
  /\ UNCHANGED <<full, suite, statuses, drawn, spec, gen, runs, tables, ghosts>>

-----------------------------------------------------------------------------
(* generate_run_manifests.py *)

\* build_manifest; gen stands for the hashes of the files.
Manifest(lines) ==
  [gen |-> lines[1].gen, rows |-> Len(lines),
   workloads |-> {Text(lines[i], "Workload", lines[i].workload) : i \in DOMAIN lines} \ {""}]

\* The run directories in turn, those without a metrics.csv passed over.  A run
\* without data rows raises ValueError, and the later ones keep the manifest
\* they have.
GenerateManifest ==
  /\ pc = "manifests" /\ cursor <= Len(RunOrder)
  /\ LET dir == RunOrder[cursor]
     IN  CASE runs[dir].metrics = None -> cursor' = cursor + 1 /\ UNCHANGED runs
           [] runs[dir].metrics = << >> -> cursor' = Len(RunOrder) + 1 /\ UNCHANGED runs
           [] OTHER ->
                /\ runs' = [runs EXCEPT ![dir].manifest = Manifest(runs[dir].metrics)]
                /\ cursor' = cursor + 1
  /\ UNCHANGED <<pc, full, suite, statuses, drawn, spec, gen, summaries, tables, ghosts>>

\* How that ended is not looked at; a failed case fails the runner, and with it
\* the wrapper.
EndOfRunner ==
  /\ pc = "manifests" /\ cursor > Len(RunOrder)
  /\ IF full /\ ~\E i \in DOMAIN statuses : statuses[i].status = "failed"
     THEN /\ pc' = "aggregate" /\ cursor' = 1 /\ fresh' = {}
          /\ UNCHANGED <<full, suite, statuses, drawn>>
     ELSE EndCommand /\ UNCHANGED fresh
  /\ UNCHANGED <<spec, gen, files, faults, uncleaned>>

-----------------------------------------------------------------------------
(* aggregate_results.py *)

\* The run directories with a metrics.csv, in the order both scripts visit them.
MetricsPaths == Filtered(RunOrder, LAMBDA d : runs[d].metrics # None)

\* The command by itself; it ends at once when there are no metrics.
BeginAggregate ==
  /\ pc = "idle" /\ MetricsPaths # << >>
  /\ pc' = "aggregate" /\ fresh' = {}
  /\ UNCHANGED <<full, suite, statuses, cursor, drawn, spec, gen, files, faults, uncleaned>>

\* The run directories it makes rows of.
DataPaths == Filtered(MetricsPaths, LAMBDA d : runs[d].metrics # << >>)

\* load_execution_summary_index: the entry of a run, when a summary has one.
Executions(dir) ==
  IF summaries[dir[1]] = None THEN {}
  ELSE {c \in ToSet(summaries[dir[1]]) : c.run = dir[2]}

\* infer_experiments_from_spec, from the document as it is now.
InferredFor(dir, workloads) ==
  UNION {c.experiments :
    c \in {c \in ToSet(spec[dir[1]]) :
             /\ c.config = runs[dir].metrics[1].config
             /\ \/ c.workload = "all" /\ Cardinality(workloads) >= 2
                \/ c.workload \in workloads}}

\* run_summary of the manifest, or else of the rows.
RunSummary(dir) ==
  IF runs[dir].manifest # None THEN runs[dir].manifest ELSE Manifest(runs[dir].metrics)

ExperimentIds(dir) ==
  LET recorded == UNION {c.experiments : c \in Executions(dir)}
  IN  IF recorded # {} THEN recorded ELSE InferredFor(dir, RunSummary(dir).workloads)

EnrichedRows(dir) ==
  [i \in DOMAIN runs[dir].metrics |-> Enriched(runs[dir].metrics[i], ExperimentIds(dir))]

MetricsTable == FlattenSeq([i \in DOMAIN DataPaths |-> EnrichedRows(DataPaths[i])])

\* A row of run_index.csv per run with data rows.
RunIndexRow(dir) ==
  [suite |-> dir[1], run |-> dir[2], experiments |-> ExperimentIds(dir),
   rows |-> RunSummary(dir).rows, workloads |-> RunSummary(dir).workloads,
   hasTasks |-> runs[dir].tasks # None, hasManifest |-> runs[dir].manifest # None,
   status |-> {c.status : c \in Executions(dir)}]

QualityTable ==
  LET lines == FlattenSeq([i \in DOMAIN DataPaths |-> runs[DataPaths[i]].metrics])
  IN  UNION {MissingCells(lines[i], MetricsTable[i])
             \cup LowCompletion(MetricsTable[i])
             \cup InvalidLogScale(MetricsTable[i]) : i \in DOMAIN lines}
      \cup Duplicates(MetricsTable)

\* task_rows: every tasks.csv is read, whatever is in the metrics.csv beside it.
AllTasks ==
  LET paths == Filtered(RunOrder, LAMBDA d : runs[d].tasks # None)
  IN  FlattenSeq([i \in DOMAIN paths |-> runs[paths[i]].tasks])

\* run_experiments_map: known for the runs with data rows.
ExperimentsOfKey(key) ==
  LET dir == <<key[1], key[2]>>
  IN  IF dir \in ToSet(DataPaths) THEN ExperimentIds(dir) ELSE {}

AllocationTable ==
  {Allocation(key, TasksOf(AllTasks, key), ExperimentsOfKey(key)) : key \in Keys(AllTasks)}

NiceBucketTable ==
  UNION {{NiceBucket(key, TasksOf(AllTasks, key), nice, ExperimentsOfKey(key)) :
            nice \in Nices(TasksOf(AllTasks, key))} : key \in Keys(AllTasks)}

CharacteristicsTable ==
  {Characteristics(key, TasksOf(AllTasks, key), ExperimentsOfKey(key)) :
     key \in Keys(AllTasks)}

Contents(table) ==
  CASE table = "metrics" -> MetricsTable
    [] table = "index" -> {RunIndexRow(dir) : dir \in ToSet(DataPaths)}
    [] table = "quality" -> QualityTable
    [] table = "allocation" -> AllocationTable
    [] table = "buckets" -> NiceBucketTable
    [] table = "characteristics" -> CharacteristicsTable
    [] table = "fairness" -> FairnessTable(MetricsTable, CharacteristicsTable)

\* write_rows writes nothing when there are no rows, and the file stays.
Written(table) == table \in Canonical \/ Contents(table) # {}

WriteTable ==
  /\ pc = "aggregate" /\ cursor <= Len(TableOrder)
  /\ LET table == TableOrder[cursor]
     IN  IF Written(table)
         THEN /\ tables' = [tables EXCEPT ![table] = Contents(table)]
              /\ fresh' = fresh \cup {table}
         ELSE UNCHANGED <<tables, fresh>>
  /\ cursor' = cursor + 1
  /\ UNCHANGED <<pc, full, suite, statuses, drawn, spec, gen, runs, summaries, faults, uncleaned>>

EndOfAggregate ==
  /\ pc = "aggregate" /\ cursor > Len(TableOrder)
  /\ IF full THEN pc' = "export" /\ UNCHANGED <<full, suite, statuses, cursor, drawn>>
     ELSE EndCommand
  /\ UNCHANGED <<spec, gen, files, ghosts>>

-----------------------------------------------------------------------------
(* export_summary_table.py and plot_experiment_suite.py *)

Export ==
  /\ pc = "export"
  /\ pc' = "plot"
  /\ tables' = [tables EXCEPT !["summary"] = SummaryTable(tables["metrics"])]
  /\ UNCHANGED <<full, suite, statuses, cursor, drawn, spec, gen, runs, summaries, ghosts>>

SuiteRows == Filtered(tables["metrics"], LAMBDA row : row.suite = suite)

\* exp_subset, and the experiment whose rows exp4 and exp6 fall back on.
Subset(exp) == Filtered(SuiteRows, LAMBDA row : exp \in row.experiments)

FigureRows(exp) ==
  IF Subset(exp) = << >> /\ exp \in {"exp4", "exp6"} THEN Subset("exp3") ELSE Subset(exp)

Experiments == {"exp1", "exp2", "exp3", "exp4", "exp5", "exp6"}

\* The figures that have rows are drawn and listed in the index; without the
\* plotting packages the script is skipped.  It would fail without rows, but no
\* case has failed.
Plot ==
  /\ pc = "plot"
  /\ pc' = "done"
  /\ \/ UNCHANGED drawn
     \/ drawn' = [exp \in {e \in Experiments : FigureRows(e) # << >>} |-> FigureRows(exp)]
  /\ UNCHANGED <<full, suite, statuses, cursor, spec, gen, files, ghosts>>

Finish ==
  /\ pc = "done"
  /\ EndCommand
  /\ UNCHANGED <<spec, gen, files, ghosts>>

-----------------------------------------------------------------------------
(* plot_publication_figures.py *)

\* read_csv ends the command when one of the tables is missing.
BeginPublish ==
  /\ pc = "idle"
  /\ \A t \in {"metrics", "allocation", "buckets", "fairness"} : tables[t] # None
  /\ pc' = "publish"
  /\ UNCHANGED <<full, suite, statuses, cursor, drawn, spec, gen, files, ghosts>>

\* The tables were all read before the first figure; nothing rewrites them.
PlotRq(n) ==
  CASE n = 1 -> PlotRq1Throughput(tables["metrics"], tables["fairness"])
    [] n = 2 -> PlotRq2WeightedBehavior(tables["allocation"], tables["buckets"])
    [] n = 3 -> PlotRq3SynthVsReal(tables["metrics"])
    [] n = 4 -> PlotRq4Characteristics(tables["fairness"])
    [] n = 5 -> PlotRq5Overhead(tables["metrics"])

Publish ==
  /\ pc = "publish" /\ cursor <= 5
  /\ LET figures == PlotRq(cursor)
     IN  drawn' = [stem \in DOMAIN figures \cup DOMAIN drawn |->
                     IF stem \in DOMAIN figures THEN figures[stem] ELSE drawn[stem]]
  /\ cursor' = cursor + 1
  /\ UNCHANGED <<pc, full, suite, statuses, spec, gen, files, ghosts>>

EndOfPublish ==
  /\ pc = "publish" /\ cursor > 5
  /\ EndCommand
  /\ UNCHANGED <<spec, gen, files, ghosts>>

-----------------------------------------------------------------------------

\* A command is killed between two of its steps.  What is left of the figures
\* is not kept, so that it does not matter when they are drawn.
Kill ==
  /\ pc \in {"cases", "summary", "manifests", "aggregate", "export"}
  /\ Fault
  /\ EndCommand
  /\ UNCHANGED <<spec, gen, files, uncleaned, fresh>>

\* No command is ever due.
Idle == pc = "idle" /\ UNCHANGED vars

Next ==
  \/ Begin \/ Clean \/ KillClean \/ RunCase \/ BreakCase \/ EndOfCases \/ WriteSummary
  \/ GenerateManifest \/ EndOfRunner
  \/ BeginAggregate \/ WriteTable \/ EndOfAggregate
  \/ Export \/ Plot \/ Finish
  \/ BeginPublish \/ Publish \/ EndOfPublish
  \/ Kill \/ Idle

Spec == Init /\ [][Next]_vars

-----------------------------------------------------------------------------
(* Properties *)

\* The simulations of a plan, as the rows of the tables name them.
Sims(plan) ==
  UNION {{<<suite, plan[i].run, plan[i].config, sim[2], sim[1]>> : sim \in ToSet(plan[i].sims)} :
         i \in DOMAIN plan}

OfSuite(table) == {row \in table : row.key[1] = suite}

KeysOf(table) == {row.key : row \in table}

\* A table has one row per simulation of the plan, all of this execution.
IsReportOf(table, sims) ==
  /\ KeysOf(OfSuite(table)) = sims
  /\ Cardinality(OfSuite(table)) = Cardinality(sims)
  /\ \A row \in OfSuite(table) : row.gen = gen

\* When run_full_analysis.sh reports success, everything it leaves about its
\* suite is of this execution and of all of it, whatever earlier executions,
\* other plans, failures and kills have left under runs/ and analysis/: each
\* row of each table, its experiments, the index beside the rows, the baseline
\* each difference was taken from, its slots in the summary and each figure
\* drawn.  A simulation that had no tasks is missing from the tables made from
\* tasks.csv, and only from them; what tells of it is a warning.  These tables and
\* the one of differences may be older when no run anywhere has a row for them.
ReportsCurrentRun ==
  pc = "done" =>
    LET sims == Sims(Plan)
        rows == SuiteRows
        fair == {row \in ToSet(tables["metrics"]) : row.sched \in FairSchedulers}
        fairSims == {k \in sims : k[4] \in FairSchedulers}
        tasked == {k \in sims : Result[<<k[5], k[4]>>].tasks # << >>}
        index == {row \in tables["index"] : row.suite = suite}
    IN  /\ {ConfigKey(rows[i]) : i \in DOMAIN rows} = sims
        /\ Len(rows) = Cardinality(sims)
        /\ \A i \in DOMAIN rows :
             /\ rows[i].gen = gen
             /\ \E c \in ToSet(Plan) : /\ c.run = rows[i].run
                                      /\ c.experiments = rows[i].experiments
        /\ {<<i.run, i.rows>> : i \in index} =
             {<<c.run, Len(Filtered(rows, LAMBDA row : row.run = c.run))>> : c \in ToSet(Plan)}
        /\ AllTasks # << >> =>
             /\ IsReportOf(tables["allocation"], tasked)
             /\ IsReportOf(tables["characteristics"], tasked)
             /\ KeysOf(OfSuite(tables["buckets"])) = tasked
        /\ \A k \in sims \ tasked :
             Issue("low_completion_ratio", "WARN",
                   [suite |-> k[1], run |-> k[2], sched |-> k[4], workload |-> k[5]],
                   "CompletionRatio") \in tables["quality"]
        /\ fair # {} =>
             /\ IsReportOf(tables["fairness"], fairSims)
             /\ \A row \in OfSuite(tables["fairness"]) :
                  row.baseline = IF \E k \in sims : /\ k[4] = "MLFQ" /\ k[2] = row.key[2]
                                                  /\ k[5] = row.key[5]
                                 THEN gen ELSE NoBaseline
        /\ \A row \in ToSet(rows) : \A exp \in row.experiments :
             \E s \in tables["summary"] : s.slot = <<exp, row.workload, row.sched>>
        /\ \A exp \in DOMAIN drawn : \A row \in ToSet(drawn[exp]) : row.gen = gen

\* The manifest of a run describes the metrics beside it, through failures and
\* kills and when a run without rows ends the generation half-way, as long as
\* its suite was cleaned before it was last executed, and whatever a cleaning that
\* was cut short has left.  One without metrics beside it is read by nobody.
ManifestDescribesMetrics ==
  \A d \in DOMAIN runs :
    (d[1] \notin uncleaned /\ runs[d].manifest # None /\ runs[d].metrics # None) =>
      /\ runs[d].metrics # << >>
      /\ runs[d].manifest = Manifest(runs[d].metrics)

\* A line that the simulator did not finish gets into the tables, but not
\* unnoticed: once an aggregation has written its canonical tables such a row
\* has an issue of severity ERROR, unless all it lacks are the last digits of
\* its last cell, and a whole row has none.  Every row of fewer than one task
\* completed in ten is reported once, and no row is taken for a duplicate.
QualityFlagged ==
  (pc = "aggregate" /\ Canonical \subseteq fresh) =>
    LET lines == FlattenSeq([i \in DOMAIN DataPaths |-> runs[DataPaths[i]].metrics])
        rows  == tables["metrics"]
        IssuesOf(i, type) ==
          {q \in tables["quality"] :
             /\ q.type = type /\ q.suite = rows[i].suite /\ q.run = rows[i].run
             /\ q.sched = rows[i].sched /\ q.workload = rows[i].workload}
    IN  \A i \in DOMAIN rows :
          /\ IssuesOf(i, "missing_cell") # {} <=>
               \/ lines[i].cut < Len(Columns)
               \/ lines[i].cut = Len(Columns) /\ lines[i].edge # "part"
          /\ Cardinality(IssuesOf(i, "low_completion_ratio")) =
               IF rows[i].permille < 100 THEN 1 ELSE 0
          /\ IssuesOf(i, "duplicate_config") = {}

\* The buckets of a simulation share out all of its tasks, the CPU they got and
\* the CPU their weights entitle them to; no distribution of CPU is further
\* than 2 from the one by weight; and the three tables made from tasks.csv
\* agree, in the set of simulations and in the nice values of each.
SharesBalance ==
  {"allocation", "buckets", "characteristics"} \subseteq fresh =>
    /\ KeysOf(tables["allocation"]) = KeysOf(tables["buckets"])
    /\ KeysOf(tables["allocation"]) = KeysOf(tables["characteristics"])
    /\ \A a \in tables["allocation"] :
         LET buckets == {b \in tables["buckets"] : b.key = a.key}
         IN  /\ MapThenSumSet(LAMBDA b : b.observed, buckets) = a.alloc * a.weight
             /\ MapThenSumSet(LAMBDA b : b.expected, buckets) = a.alloc * a.weight
             /\ (a.alloc > 0 /\ a.weight > 0) => a.shareError <= 2 * a.alloc * a.weight
             /\ \A c \in tables["characteristics"] :
                  c.key = a.key => c.uniqueNice = Cardinality(buckets)

\* The publication figures can be read side by side: after an aggregation that
\* wrote all of its tables, the rows of one simulation come from one execution
\* in all of them, and beside each throughput of a fair scheduler there is its
\* difference to MLFQ.
FiguresAgree ==
  (pc = "publish" /\ cursor > 5 /\ ToSet(TableOrder) \subseteq fresh) =>
    LET Drawn(stem) ==
          IF stem \in {"rq1_throughput_by_scheduler", "rq3_synthetic_vs_real",
                       "rq3_completion_ratio", "rq5_overhead_bars",
                       "rq5_overhead_vs_latency_tradeoff"}
          THEN {[key |-> ConfigKey(row), gen |-> row.gen] : row \in ToSet(drawn[stem])}
          ELSE {[key |-> row.key, gen |-> row.gen] : row \in drawn[stem]}
        throughputs == Drawn("rq1_throughput_by_scheduler")
    IN  /\ \A s, t \in DOMAIN drawn : \A x \in Drawn(s), y \in Drawn(t) :
             x.key = y.key => x.gen = y.gen
        /\ {x \in throughputs : x.key[4] \in FairSchedulers} =
             Drawn("rq1_throughput_delta_vs_mlfq")

=============================================================================
