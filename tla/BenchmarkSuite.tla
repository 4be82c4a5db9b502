---------------------------- MODULE BenchmarkSuite ----------------------------
(***************************************************************************)
(* A suite of benchmark experiments, from its JSON document to the         *)
(* experiments a run is counted for: validate_benchmark_spec.py, the       *)
(* planning half of run_suite.py and, in aggregate_results.py, what        *)
(* list_suite_specs makes of the document and how a run is attributed to   *)
(* experiments without an execution summary.                               *)
(*                                                                         *)
(* A document is a record of defaults and a sequence of experiments, each  *)
(* with its id, its runs and the experiment it reuses.  The cores, tasks   *)
(* and stop time of a run are one number, its size: 0 when one of them is  *)
(* not positive, odd when the stop time has a fraction.  A field a run     *)
(* leaves out is "absent".                                                 *)
(*                                                                         *)
(* Left out: titles, objectives and versions, the types of JSON values,    *)
(* blanks around names, and command-line options that replace a default.   *)
(***************************************************************************)
EXTENDS Integers, FiniteSets, SequencesExt

CONSTANTS
  Documents,       \* the suite documents
  LowerCase,       \* the lower case of each name that has capitals
  WorkloadCli,     \* for each lower-case name the registry resolves to a
  SchedulerCli,    \* workload or a scheduler, the plugin's cli_token
  RecursionLimit   \* calls that may be open at once in Python

ASSUME RecursionLimitAssumption ==
  RecursionLimit \in Nat /\ \A doc \in Documents : Len(doc.experiments) < RecursionLimit

IsSeq(s) == s \in Seq(ToSet(s))

Absent == "absent"

Run ==
  [workload : STRING, scheduler : STRING, size : Nat, topology : STRING,
   balancer : STRING, steal : {"on", "off", Absent}]

\* Experiments and runs are JSON arrays, a run is an object.
ASSUME DocumentsAssumption ==
  \A doc \in Documents :
    /\ IsSeq(doc.experiments)
    /\ \A i \in DOMAIN doc.experiments :
         IsSeq(doc.experiments[i].runs) /\ ToSet(doc.experiments[i].runs) \subseteq Run

\* WORKLOAD_KEY_TO_NAME of aggregate_results.py.
WorkloadKeyToName ==
  [desktop |-> "Desktop", server |-> "Server", google |-> "GoogleTraceV3",
   alibaba |-> "AlibabaTraceV2018"]

\* all_workloads of main.cpp: the name in the rows of each generator.
GeneratorName ==
  [server |-> "Server", desktop |-> "Desktop", google |-> "GoogleTraceV3",
   alibaba |-> "AlibabaTraceV2018"]

\* all_schedulers of main.cpp, and the filter that takes them all.
SimulatorSchedulers == {"cfs", "eevdf", "mlfq", "stride", "all"}

Lower(name) == IF name \in DOMAIN LowerCase THEN LowerCase[name] ELSE name

\* The words the code compares with, and lower case itself, are in lower case.
ASSUME LowerCaseAssumption ==
  /\ \A name \in DOMAIN LowerCase : LowerCase[name] \notin DOMAIN LowerCase
  /\ DOMAIN LowerCase \cap
       ({Absent, "sq", "mq", "rr", "leastloaded", "all"} \cup DOMAIN WorkloadKeyToName) = {}

\* The plugins of builtins.py are registered under the simulator's tokens.
ASSUME BuiltinsAssumption ==
  \A key \in DOMAIN WorkloadKeyToName \cup {"all"} :
    key \in DOMAIN WorkloadCli /\ WorkloadCli[key] = key

VARIABLES
  phase,        \* see Next
  suite,        \* the document
  dedupe,       \* FALSE with --no-dedupe
  selected,     \* --only-experiments, or every id
  validated,    \* whether validate_benchmark_spec.py was run, and passed
  todo,         \* the runs still to plan, as <<experiment id, run>>
  plan,         \* the cases
  stack,        \* the open calls of resolved_runs
  memo,         \* its results so far
  inferred      \* the experiments attributed to each case

vars == <<phase, suite, dedupe, selected, validated, todo, plan, stack, memo, inferred>>

options == <<suite, dedupe, selected>>

-----------------------------------------------------------------------------
(* The document *)

Ids == {suite.experiments[i].id : i \in DOMAIN suite.experiments}

AllIds(doc) == {doc.experiments[i].id : i \in DOMAIN doc.experiments}

\* No experiment has the id that stands for none.
ASSUME AbsentAssumption == \A doc \in Documents : Absent \notin AllIds(doc)

\* validate_defaults, and what validate_suite asks of them.
ValidDefaults(d) ==
  /\ Lower(d.scheduler) \in DOMAIN SchedulerCli
  /\ d.replications >= 1 /\ d.topology \in {"sq", "mq"} /\ d.seedBase >= 1

\* validate_run
ValidRun(r) ==
  /\ Lower(r.workload) \in DOMAIN WorkloadCli
  /\ r.size > 0
  /\ r.topology \in {"sq", "mq"}
  /\ r.topology = "mq" => r.balancer \in {"rr", "leastloaded"}
  /\ r.scheduler # Absent => Lower(r.scheduler) \in DOMAIN SchedulerCli

\* validate_top_level and validate_experiments
ValidExperiments(doc) ==
  LET exps == doc.experiments
  IN  /\ exps # << >>
      /\ \A i, j \in DOMAIN exps : exps[i].id = exps[j].id => i = j
      /\ \A i \in DOMAIN exps : \A k \in DOMAIN exps[i].runs : ValidRun(exps[i].runs[k])
      /\ \A i \in DOMAIN exps : exps[i].reuse \in AllIds(doc) \cup {Absent}

\* validate_suite takes topologies and balancers in any case, and experiments of
\* the same id.
RunnerAccepts(doc) ==
  LET exps == doc.experiments
  IN  /\ ValidDefaults(doc.defaults)
      /\ \A i \in DOMAIN exps : \A k \in DOMAIN exps[i].runs :
           ValidRun([exps[i].runs[k] EXCEPT !.topology = Lower(@), !.balancer = Lower(@)])
      /\ \A i \in DOMAIN exps : exps[i].reuse \in AllIds(doc) \cup {Absent}

-----------------------------------------------------------------------------
(* The plan *)

\* A run with the scheduler it is planned for.
Scheduled(r) ==
  [r EXCEPT !.scheduler = IF @ = Absent THEN suite.defaults.scheduler ELSE @]

\* run_key: what makes two runs the same case.
RunKey(r) ==
  [workload  |-> WorkloadCli[Lower(r.workload)],
   scheduler |-> SchedulerCli[Lower(r.scheduler)],
   size      |-> r.size,
   topology  |-> r.topology,
   balancer  |-> IF r.topology # "mq" THEN "na"
                 ELSE IF r.balancer = Absent THEN "leastloaded" ELSE r.balancer,
   steal     |-> IF r.topology # "mq" THEN "na"
                 ELSE IF r.steal = Absent THEN "on" ELSE r.steal]

\* The runs of the selected experiments, in the order of the document.
DeclaredRuns ==
  LET OfExp(exp) ==
        IF exp.id \in selected
        THEN [k \in DOMAIN exp.runs |-> <<exp.id, Scheduled(exp.runs[k])>>]
        ELSE << >>
  IN  FlattenSeq([i \in DOMAIN suite.experiments |-> OfExp(suite.experiments[i])])

Init ==
  /\ phase = "document"
  /\ suite \in Documents /\ dedupe \in BOOLEAN
  /\ selected \in {Ids} \cup {{e} : e \in Ids}
  /\ validated = FALSE
  /\ todo = << >> /\ plan = << >> /\ stack = << >> /\ memo = << >> /\ inferred = << >>

\* run_full_analysis.sh validates the document first and stops when it is wrong.
Validate ==
  /\ phase = "document" /\ ~validated
  /\ IF ValidDefaults(suite.defaults) /\ ValidExperiments(suite)
     THEN validated' = TRUE /\ UNCHANGED phase
     ELSE phase' = "rejected" /\ UNCHANGED validated
  /\ UNCHANGED <<options, todo, plan, stack, memo, inferred>>

\* load_suite and the start of build_run_plan; run_matrix.sh begins here.
Load ==
  /\ phase = "document"
  /\ phase' = IF RunnerAccepts(suite) THEN "planning" ELSE "rejected"
  /\ todo' = IF RunnerAccepts(suite) THEN DeclaredRuns ELSE todo
  /\ UNCHANGED <<options, validated, plan, stack, memo, inferred>>

\* The case of a run, with the number its run id and its seed are made from.
NewCase(id, run) == [index |-> Len(plan) + 1, key |-> RunKey(run), experiments |-> <<id>>]

\* Faulty variant of PlanRun: a configuration already planned is passed over.
PlanRunOnce ==
  /\ phase = "planning" /\ todo # << >>
  /\ LET same == {c \in DOMAIN plan : plan[c].key = RunKey(todo[1][2])}
     IN  plan' = IF dedupe /\ same # {} THEN plan
                 ELSE Append(plan, NewCase(todo[1][1], todo[1][2]))
  /\ todo' = Tail(todo)
  /\ UNCHANGED <<phase, options, validated, stack, memo, inferred>>

\* One turn of the loop of build_run_plan: a run of a configuration already
\* planned adds its experiment to that case.
PlanRun ==
  /\ phase = "planning" /\ todo # << >>
  /\ LET id    == todo[1][1]
         run   == todo[1][2]
         same  == {c \in DOMAIN plan : plan[c].key = RunKey(run)}
     IN  plan' = IF dedupe /\ same # {}
                 THEN [plan EXCEPT ![CHOOSE c \in same : TRUE].experiments = Append(@, id)]
                 ELSE Append(plan, NewCase(id, run))
  /\ todo' = Tail(todo)
  /\ UNCHANGED <<phase, options, validated, stack, memo, inferred>>

\* An empty plan ends the runner.
EndOfPlan ==
  /\ phase = "planning" /\ todo = << >>
  /\ phase' = IF plan = << >> THEN "rejected" ELSE "resolving"
  /\ UNCHANGED <<options, validated, todo, plan, stack, memo, inferred>>

-----------------------------------------------------------------------------
(* The runs of an experiment, with those it reuses *)

\* exp_by_id: of experiments with one id the last counts; none for an unknown id.
ExpById(id) ==
  IF id \in Ids
  THEN suite.experiments[CHOOSE i \in DOMAIN suite.experiments :
         /\ suite.experiments[i].id = id
         /\ \A j \in i + 1 .. Len(suite.experiments) : suite.experiments[j].id # id]
  ELSE [id |-> id, runs |-> << >>, reuse |-> Absent]

Memoized(id) == \E m \in DOMAIN memo : memo[m].id = id

RunsOf(id) == memo[CHOOSE m \in DOMAIN memo : memo[m].id = id].runs

\* The loop of list_suite_specs calls resolved_runs on the next experiment.
CallResolve ==
  /\ phase = "resolving" /\ stack = << >>
  /\ \E i \in DOMAIN suite.experiments :
       /\ ~Memoized(suite.experiments[i].id)
       /\ \A j \in 1 .. i - 1 : Memoized(suite.experiments[j].id)
       /\ stack' = <<suite.experiments[i].id>>
  /\ UNCHANGED <<phase, options, validated, todo, plan, memo, inferred>>

\* resolved_runs calls itself on the experiment reused, which raises
\* RecursionError at the limit.
CallParent ==
  /\ phase = "resolving" /\ stack # << >>
  /\ LET parent == ExpById(Last(stack)).reuse
     IN  /\ parent # Absent /\ ~Memoized(parent)
         /\ IF Len(stack) < RecursionLimit
            THEN stack' = Append(stack, parent) /\ UNCHANGED phase
            ELSE phase' = "overflow" /\ UNCHANGED stack
  /\ UNCHANGED <<options, validated, todo, plan, memo, inferred>>

\* Faulty variant of ReturnResolve: the runs the parent itself reuses are left out.
ReturnResolveShallow ==
  /\ phase = "resolving" /\ stack # << >>
  /\ LET exp    == ExpById(Last(stack))
         reused == IF exp.reuse = Absent THEN << >> ELSE ExpById(exp.reuse).runs
     IN  /\ exp.reuse = Absent \/ Memoized(exp.reuse)
         /\ memo' = Append(memo, [id |-> exp.id, runs |-> exp.runs \o reused])
  /\ stack' = Front(stack)
  /\ UNCHANGED <<phase, options, validated, todo, plan, inferred>>

\* Its result is recorded only as it returns.
ReturnResolve ==
  /\ phase = "resolving" /\ stack # << >>
  /\ LET exp    == ExpById(Last(stack))
         reused == IF exp.reuse = Absent THEN << >> ELSE RunsOf(exp.reuse)
     IN  /\ exp.reuse = Absent \/ Memoized(exp.reuse)
         /\ memo' = Append(memo, [id |-> exp.id, runs |-> exp.runs \o reused])
  /\ stack' = Front(stack)
  /\ UNCHANGED <<phase, options, validated, todo, plan, inferred>>

-----------------------------------------------------------------------------
(* Attribution *)

\* The number build_command passes for the stop time is its whole part.
Whole(size) == 2 * (size \div 2)

\* main.cpp ends without a row on a scheduler or a workload it does not have,
\* and on a stop time of 0.
WritesRows(key) ==
  /\ key.scheduler \in SimulatorSchedulers
  /\ key.workload \in DOMAIN GeneratorName \cup {"all"}
  /\ Whole(key.size) > 0

\* summarize_run_rows, of the rows the simulator writes for a case: it is given
\* no balancer and no --no-steal unless the topology is spelt "mq".
Summary(case) ==
  LET key      == case.key
      topology == Lower(key.topology)
  IN  [workload |-> IF ~WritesRows(key) THEN {}
                    ELSE IF key.workload = "all"
                         THEN {GeneratorName[w] : w \in DOMAIN GeneratorName}
                         ELSE {GeneratorName[key.workload]},
       size     |-> Whole(key.size),
       topology |-> topology,
       balancer |-> IF topology # "mq" THEN "na"
                    ELSE IF key.balancer = "na" THEN "leastloaded" ELSE Lower(key.balancer),
       steal    |-> IF topology # "mq" THEN "na"
                    ELSE IF key.steal = "na" THEN "on" ELSE key.steal]

\* canonical_workload_name: a name that is not the key of a built-in stays.
CanonicalName(workload) ==
  IF workload \in DOMAIN WorkloadKeyToName THEN WorkloadKeyToName[workload] ELSE workload

HasWorkload(run, summary) ==
  IF Lower(run.workload) = "all" THEN Cardinality(summary.workload) >= 2
  ELSE CanonicalName(Lower(run.workload)) \in summary.workload

\* Faulty variant of Matches: what a run leaves out is not filled in.
MatchesLiterally(run, summary) ==
  /\ HasWorkload(run, summary)
  /\ run.size = summary.size
  /\ run.topology = summary.topology
  /\ run.topology = "mq" => run.balancer = summary.balancer /\ run.steal = summary.steal

\* run_def_matches_summary, with the defaults that list_suite_specs fills in.
\* The scheduler of a run is not looked at.
Matches(run, summary) ==
  /\ HasWorkload(run, summary)
  /\ run.size = summary.size
  /\ run.topology = summary.topology
  /\ run.topology = "mq" =>
       /\ (IF run.balancer = Absent THEN "leastloaded" ELSE run.balancer) = summary.balancer
       /\ (IF run.steal = Absent THEN "on" ELSE run.steal) = summary.steal

\* infer_experiments_from_spec
Inferred(summary) ==
  {e \in Ids : \E k \in DOMAIN RunsOf(e) : Matches(RunsOf(e)[k], summary)}

Attribute ==
  /\ phase = "resolving" /\ stack = << >>
  /\ \A e \in Ids : Memoized(e)
  /\ inferred' = [c \in DOMAIN plan |-> Inferred(Summary(plan[c]))]
  /\ phase' = "attributed"
  /\ UNCHANGED <<options, validated, todo, plan, stack, memo>>

Ended == phase \in {"rejected", "overflow", "attributed"} /\ UNCHANGED vars

Next ==
  \/ Validate \/ Load \/ PlanRun \/ EndOfPlan
  \/ CallResolve \/ CallParent \/ ReturnResolve
  \/ Attribute \/ Ended

Spec == Init /\ [][Next]_vars

-----------------------------------------------------------------------------
(* Properties *)

Planned == phase \in {"resolving", "overflow", "attributed"}

\* The plan loses no run and invents none: every run of a selected experiment
\* is in a case of its own configuration, every experiment listed for a case
\* declared that configuration, and counted with repetitions the lists are as
\* long as the document.  With deduplication no configuration is run twice, and
\* no two cases share the index that names their directory and their seed.
PlanCoversRuns ==
  Planned =>
    /\ \A d \in ToSet(DeclaredRuns) :
         \E c \in DOMAIN plan : /\ plan[c].key = RunKey(d[2])
                                /\ d[1] \in ToSet(plan[c].experiments)
    /\ \A c \in DOMAIN plan : \A e \in ToSet(plan[c].experiments) :
         \E d \in ToSet(DeclaredRuns) : d[1] = e /\ RunKey(d[2]) = plan[c].key
    /\ Len(DeclaredRuns) = Len(FlattenSeq([c \in DOMAIN plan |-> plan[c].experiments]))
    /\ \A c, d \in DOMAIN plan :
         (plan[c].index = plan[d].index \/ (dedupe /\ plan[c].key = plan[d].key)) => c = d

\* The experiments reached from id by reuse, id first, each once.
Chain(id) ==
  LET chain[n \in 0 .. Cardinality(Ids)] ==
        IF n = 0 THEN <<id>>
        ELSE LET next == ExpById(Last(chain[n - 1])).reuse
             IN  IF next \in {Absent} \cup ToSet(chain[n - 1]) THEN chain[n - 1]
                 ELSE Append(chain[n - 1], next)
  IN  chain[Cardinality(Ids)]

\* Reuse leads from id back to an experiment already on the way.
Cyclic(id) == ExpById(Last(Chain(id))).reuse # Absent

\* Resolving reuse overflows exactly when the reuses of some experiment run in
\* a circle, which neither validation rejects; when it ends, an experiment has
\* its own runs and then those of every experiment along its chain.
ResolvesIffAcyclic ==
  /\ phase = "overflow" => \E e \in Ids : Cyclic(e)
  /\ phase = "attributed" =>
       \A e \in Ids :
         /\ ~Cyclic(e)
         /\ RunsOf(e) =
              FlattenSeq([i \in DOMAIN Chain(e) |-> ExpById(Chain(e)[i]).runs])

\* Runs whose rows can be told: the workload is named by the key of a built-in,
\* not by an alias or by a plugin of its own, the simulator has the scheduler,
\* and the stop time is whole.
Recognizable ==
  \A d \in ToSet(DeclaredRuns) :
    /\ Lower(d[2].workload) \in DOMAIN WorkloadKeyToName \cup {"all"}
    /\ SchedulerCli[Lower(d[2].scheduler)] \in SimulatorSchedulers
    /\ Whole(d[2].size) = d[2].size

\* No run of all workloads and no reuse, and every experiment planned.
Plain ==
  /\ selected = Ids
  /\ \A d \in ToSet(DeclaredRuns) : Lower(d[2].workload) # "all"
  /\ \A e \in Ids : ExpById(e).reuse = Absent

\* The cases whose rows differ from those of case c by the scheduler at most.
AlikeButScheduler(c) ==
  {d \in DOMAIN plan :
     [plan[d].key EXCEPT !.scheduler = plan[c].key.scheduler] = plan[c].key}

\* How far the two ways a run is attributed to experiments agree: what the
\* runner recorded for a case of a valid suite is inferred from its rows too, as
\* long as the rows can be told.  What is inferred besides was recorded for a
\* case that differs by its scheduler, which the inference does not compare, or
\* is due to an experiment that reuses others, covers all workloads or was left
\* out of the execution.
AttributionAgrees ==
  (phase = "attributed" /\ validated /\ Recognizable) =>
    \A c \in DOMAIN plan :
      /\ ToSet(plan[c].experiments) \subseteq inferred[c]
      /\ Plain => inferred[c] = UNION {ToSet(plan[d].experiments) : d \in AlikeButScheduler(c)}

=============================================================================
