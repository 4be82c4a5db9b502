----------------------- MODULE BenchmarkPipeline_proofs -----------------------
(***************************************************************************)
(* Manifests describe the metrics beside them, the publication figures     *)
(* agree, cut lines are flagged, shares balance and run_full_analysis.sh   *)
(* reports its own execution and all of it, for every set of suites, every *)
(* plan, simulator and way of cutting its files, and any number of         *)
(* executions, failures and kills.                                         *)
(*                                                                         *)
(* What makes the manifests right is an order: a case overwrites           *)
(* metrics.csv before any manifest of its suite is generated, so that      *)
(* while the cases of a cleaned suite run, none of its directories may     *)
(* have a manifest (NoManifestYet).                                        *)
(*                                                                         *)
(* What makes the figures agree is that both files of a run directory are  *)
(* written by one execution, and so all of their lines are of it           *)
(* (OneExecution); that no file changes while an aggregation runs, so that *)
(* each table it has written is what the files say to the last             *)
(* (AsWritten); and that only an aggregation rewrites these tables, whose  *)
(* rows therefore agree on the execution of each run ever after            *)
(* (TablesAgree), also when the run directories have moved on.             *)
(*                                                                         *)
(* What lets an issue be told from those of other rows is that no two rows *)
(* have the same names (FilesApart, RowsAre): a cut line has names of its  *)
(* own, or those it would have had.                                        *)
(*                                                                         *)
(* What makes the report whole is that, from the cleaning on, the          *)
(* directories of the suite hold what the cases so far have written and    *)
(* nothing else (Sound, Progress).  The tables are then counted: rows have *)
(* keys of their own, and the keys are the simulations of the plan         *)
(* (KeyedRows, LengthIsSize, SimsAre), in the tables made from tasks.csv   *)
(* those that had tasks (TaskedAre); the others have a warning             *)
(* (TasklessWarned).                                                       *)
(*                                                                         *)
(* What makes the shares balance is that the buckets of a simulation part  *)
(* its tasks by their nice values, so that a sum over the buckets is one   *)
(* over the tasks (SumByClass), and that the three tables are made from    *)
(* the same files (ThreeTables).                                           *)
(***************************************************************************)
EXTENDS BenchmarkPipeline, SequenceLemmas, SequenceTheorems, FiniteSetTheorems, TLAPS

\* Each directory has the three artifacts and nothing else.
RunsShape ==
  \A d \in DOMAIN runs :
    runs[d] = [metrics |-> runs[d].metrics, tasks |-> runs[d].tasks,
               manifest |-> runs[d].manifest]

NoManifestYet ==
  (pc = "cases" /\ suite \notin uncleaned) =>
    \A d \in DOMAIN runs : d[1] = suite => runs[d].manifest = None

IInv == RunsShape /\ NoManifestYet /\ ManifestDescribesMetrics

LEMMA InitIInv == Init => IInv
BY DEF Init, IInv, RunsShape, NoManifestYet, ManifestDescribesMetrics, NoArtifacts

\* A step that leaves the artifacts alone, and does not start to execute.
LEMMA RunsUnchanged ==
  ASSUME IInv, runs' = runs, uncleaned \subseteq uncleaned',
         pc' = "cases" => suite' \in uncleaned'
  PROVE  IInv'
BY DEF IInv, RunsShape, NoManifestYet, ManifestDescribesMetrics

\* A simulator, through or not, changes the artifacts of one directory of the
\* suite, but not its manifest.
LEMMA ExecutedIInv ==
  ASSUME IInv, pc = "cases", NEW case, NEW metrics, NEW lines, Executed(case, metrics, lines),
         uncleaned' = uncleaned, pc' = "cases" => suite' = suite
  PROVE  IInv'
<1> DEFINE e == <<suite, case.run>>
<1>1. /\ DOMAIN runs' = DOMAIN runs
      /\ \A d \in DOMAIN runs : d # e => runs'[d] = runs[d]
      /\ e \in DOMAIN runs =>
           runs'[e] = [[runs[e] EXCEPT !.metrics = metrics] EXCEPT !.tasks = lines]
  BY DEF Executed
<1>2. e \in DOMAIN runs =>
        runs'[e] = [metrics |-> metrics, tasks |-> lines, manifest |-> runs[e].manifest]
  BY <1>1 DEF IInv, RunsShape
<1>3. e[1] = suite
  OBVIOUS
<1> HIDE DEF e
<1>4. RunsShape'
  BY <1>1, <1>2 DEF IInv, RunsShape
<1>5. \A d \in DOMAIN runs : runs'[d].manifest = runs[d].manifest
  BY <1>1, <1>2
<1>6. NoManifestYet'
  BY <1>1, <1>5 DEF IInv, NoManifestYet
<1>7. ManifestDescribesMetrics'
  <2> SUFFICES ASSUME NEW d \in DOMAIN runs, d[1] \notin uncleaned, runs'[d].manifest # None,
                      runs'[d].metrics # None
               PROVE  /\ runs'[d].metrics # << >>
                      /\ runs'[d].manifest = Manifest(runs'[d].metrics)
    BY <1>1 DEF ManifestDescribesMetrics, Manifest
  <2>1. d # e
    BY <1>3, <1>5 DEF IInv, NoManifestYet
  <2>2. runs'[d] = runs[d]
    BY <1>1, <2>1
  <2>3. QED  BY <2>2 DEF IInv, ManifestDescribesMetrics
<1>8. QED  BY <1>4, <1>6, <1>7 DEF IInv

LEMMA CleanIInv == IInv /\ Clean => IInv'
<1> SUFFICES ASSUME IInv, Clean PROVE IInv'
  OBVIOUS
<1>1. /\ runs' = [d \in DOMAIN runs |-> IF d[1] = suite THEN NoArtifacts ELSE runs[d]]
      /\ uncleaned' = uncleaned \ {suite} /\ suite' = suite
  BY DEF Clean
<1>2. /\ DOMAIN runs' = DOMAIN runs
      /\ \A d \in DOMAIN runs : /\ d[1] = suite => runs'[d] = NoArtifacts
                                /\ d[1] # suite => runs'[d] = runs[d]
  BY <1>1
<1>3. RunsShape'
  BY <1>2 DEF IInv, RunsShape, NoArtifacts
<1>4. NoManifestYet'
  BY <1>1, <1>2 DEF NoManifestYet, NoArtifacts
<1>5. ManifestDescribesMetrics'
  BY <1>1, <1>2 DEF IInv, ManifestDescribesMetrics, NoArtifacts
<1>6. QED  BY <1>3, <1>4, <1>5 DEF IInv

\* A cleaning cut short leaves of each directory of the suite what it leaves, and
\* changes no file.
LEMMA KillCleanIs ==
  ASSUME RunsShape, KillClean
  PROVE  /\ DOMAIN runs' = DOMAIN runs
         /\ \A d \in DOMAIN runs :
              /\ runs'[d].metrics \in {runs[d].metrics, None}
              /\ runs'[d].tasks \in {runs[d].tasks, None}
              /\ runs'[d].manifest \in {runs[d].manifest, None}
              /\ runs'[d] = [metrics |-> runs'[d].metrics, tasks |-> runs'[d].tasks,
                             manifest |-> runs'[d].manifest]
<1>1. \E gone \in SUBSET {d \in DOMAIN runs : d[1] = suite},
         dir \in {d \in DOMAIN runs : d[1] = suite}, left \in SUBSET DOMAIN NoArtifacts :
        runs' = [d \in DOMAIN runs |-> CASE d \in gone -> NoArtifacts
                                       [] d = dir /\ d \notin gone -> Remaining(d, left)
                                       [] OTHER -> runs[d]]
  BY Zenon DEF KillClean
<1> PICK gone \in SUBSET {d \in DOMAIN runs : d[1] = suite},
         dir \in {d \in DOMAIN runs : d[1] = suite}, left \in SUBSET DOMAIN NoArtifacts :
        runs' = [d \in DOMAIN runs |-> CASE d \in gone -> NoArtifacts
                                       [] d = dir /\ d \notin gone -> Remaining(d, left)
                                       [] OTHER -> runs[d]]
  BY <1>1
<1>2. \A d \in DOMAIN runs :
        \/ runs'[d] = NoArtifacts \/ runs'[d] = Remaining(d, left) \/ runs'[d] = runs[d]
  OBVIOUS
<1>3. ASSUME NEW d \in DOMAIN runs
      PROVE  /\ runs'[d].metrics \in {runs[d].metrics, None}
             /\ runs'[d].tasks \in {runs[d].tasks, None}
             /\ runs'[d].manifest \in {runs[d].manifest, None}
             /\ runs'[d] = [metrics |-> runs'[d].metrics, tasks |-> runs'[d].tasks,
                            manifest |-> runs'[d].manifest]
  <2>1. CASE runs'[d] = NoArtifacts
    BY <2>1 DEF NoArtifacts
  <2>2. CASE runs'[d] = Remaining(d, left)
    BY <2>2 DEF Remaining
  <2>3. CASE runs'[d] = runs[d]
    BY <2>3 DEF RunsShape
  <2>4. QED
    BY <1>2, <2>1, <2>2, <2>3
<1>4. DOMAIN runs' = DOMAIN runs
  OBVIOUS
<1>5. QED
  BY <1>3, <1>4

LEMMA KillCleanIInv ==
  ASSUME IInv, KillClean
  PROVE  IInv'
<1>1. pc' = "idle" /\ uncleaned' = uncleaned
  BY DEF KillClean, EndCommand
<1>2. RunsShape
  BY DEF IInv
<1>3. RunsShape'
  BY <1>2, KillCleanIs DEF RunsShape
<1>4. ManifestDescribesMetrics'
  <2> SUFFICES ASSUME NEW d \in DOMAIN runs, d[1] \notin uncleaned, runs'[d].manifest # None,
                      runs'[d].metrics # None
               PROVE  /\ runs'[d].metrics # << >>
                      /\ runs'[d].manifest = Manifest(runs'[d].metrics)
    BY <1>1, <1>2, KillCleanIs DEF ManifestDescribesMetrics, Manifest
  <2>1. runs'[d].metrics = runs[d].metrics /\ runs'[d].manifest = runs[d].manifest
    BY <1>2, KillCleanIs
  <2>2. QED
    BY <2>1 DEF IInv, ManifestDescribesMetrics
<1>5. QED
  BY <1>1, <1>3, <1>4 DEF IInv, NoManifestYet

LEMMA GenerateManifestIInv == IInv /\ GenerateManifest => IInv'
<1> SUFFICES ASSUME IInv, GenerateManifest PROVE IInv'
  OBVIOUS
<1> DEFINE dir == RunOrder[cursor]
<1>1. pc' = "manifests" /\ uncleaned' = uncleaned
  BY DEF GenerateManifest, ghosts
<1>2. \/ runs' = runs
      \/ /\ runs[dir].metrics \notin {None, << >>}
         /\ runs' = [runs EXCEPT ![dir].manifest = Manifest(runs[dir].metrics)]
  BY DEF GenerateManifest
<1> HIDE DEF dir
<1>3. CASE runs' = runs
  BY <1>1, <1>3, RunsUnchanged
<1>4. CASE /\ runs[dir].metrics \notin {None, << >>}
           /\ runs' = [runs EXCEPT ![dir].manifest = Manifest(runs[dir].metrics)]
  <2>1. /\ DOMAIN runs' = DOMAIN runs
        /\ \A d \in DOMAIN runs : d # dir => runs'[d] = runs[d]
        /\ dir \in DOMAIN runs =>
             runs'[dir] = [runs[dir] EXCEPT !.manifest = Manifest(runs[dir].metrics)]
    BY <1>4
  <2>2. dir \in DOMAIN runs =>
          runs'[dir] = [metrics |-> runs[dir].metrics, tasks |-> runs[dir].tasks,
                        manifest |-> Manifest(runs[dir].metrics)]
    BY <2>1 DEF IInv, RunsShape
  <2>3. RunsShape'
    BY <2>1, <2>2 DEF IInv, RunsShape
  <2>4. ManifestDescribesMetrics'
    BY <1>1, <1>4, <2>1, <2>2 DEF IInv, ManifestDescribesMetrics
  <2>5. QED  BY <1>1, <2>3, <2>4 DEF IInv, NoManifestYet
<1>5. QED  BY <1>2, <1>3, <1>4

LEMMA NextIInv == IInv /\ [Next]_vars => IInv'
<1> SUFFICES ASSUME IInv, [Next]_vars PROVE IInv'
  OBVIOUS
<1>1. CASE Begin
  <2>1. PICK s \in Suites, f \in BOOLEAN :
          /\ suite' = s
          /\ pc' = IF f THEN "clean" ELSE "cases"
          /\ uncleaned' = IF f THEN uncleaned ELSE uncleaned \cup {s}
    BY <1>1 DEF Begin
  <2>2. runs' = runs
    BY <1>1 DEF Begin, files
  <2>3. QED  BY <2>1, <2>2, RunsUnchanged
<1>2. CASE Clean
  BY <1>2, CleanIInv
<1>3. CASE RunCase
  BY <1>3, ExecutedIInv DEF RunCase, ghosts
<1>4. CASE BreakCase
  <2>1. PICK metrics, lines : Executed(Plan[cursor], metrics, lines)
    BY <1>4 DEF BreakCase
  <2>2. pc = "cases" /\ uncleaned' = uncleaned /\ pc' # "cases"
    BY <1>4 DEF BreakCase, EndCommand
  <2>3. QED  BY <2>1, <2>2, ExecutedIInv
<1>5. CASE GenerateManifest
  BY <1>5, GenerateManifestIInv
<1>6. CASE \/ EndOfCases \/ WriteSummary \/ EndOfRunner \/ BeginAggregate \/ WriteTable
           \/ EndOfAggregate \/ Export \/ Plot \/ Finish \/ BeginPublish \/ Publish
           \/ EndOfPublish \/ Kill
  <2>1. runs' = runs /\ uncleaned' = uncleaned /\ pc' # "cases"
    BY <1>6 DEF EndOfCases, WriteSummary, EndOfRunner, BeginAggregate, WriteTable,
                EndOfAggregate, Export, Plot, Finish, BeginPublish, Publish, EndOfPublish,
                Kill, EndCommand, files, ghosts
  <2>2. QED  BY <2>1, RunsUnchanged
<1>9. CASE KillClean
  BY <1>9, KillCleanIInv
<1>7. CASE Idle \/ UNCHANGED vars
  BY <1>7 DEF Idle, vars, IInv, RunsShape, NoManifestYet, ManifestDescribesMetrics
<1>8. QED  BY <1>1, <1>2, <1>3, <1>4, <1>5, <1>6, <1>7, <1>9 DEF Next

\* The manifest of a run describes the metrics beside it, whatever fails or is
\* killed, as long as the suite was cleaned before it was last executed.
THEOREM ManifestsCorrect == Spec => []ManifestDescribesMetrics
<1>1. IInv => ManifestDescribesMetrics
  BY DEF IInv
<1>2. QED  BY InitIInv, NextIInv, <1>1, PTL DEF Spec

-----------------------------------------------------------------------------
(* What the tables are made of *)

\* The paths the aggregation visits.
LEMMA PathsAre ==
  /\ MetricsPaths \in Seq(ToSet(RunOrder))
  /\ ToSet(MetricsPaths) = {d \in ToSet(RunOrder) : runs[d].metrics # None}
  /\ DataPaths \in Seq(ToSet(RunOrder))
  /\ ToSet(DataPaths) = {d \in ToSet(RunOrder) : runs[d].metrics \notin {None, << >>}}
<1>1. PICK X : X = ToSet(RunOrder)
  OBVIOUS
<1>2. PICK s : s = RunOrder
  OBVIOUS
<1>3. s \in Seq(X)
  BY <1>1, <1>2, RunOrderAssumption
<1> DEFINE T == {d \in X : runs[d].metrics # None}
           W == {d \in X : runs[d].metrics # << >>}
<1>4. MetricsPaths = FlattenSeq([i \in DOMAIN s |-> IF s[i] \in T THEN <<s[i]>> ELSE << >>])
  <2>1. \A i \in DOMAIN s : s[i] \in T <=> runs[s[i]].metrics # None
    BY <1>3
  <2>2. [i \in DOMAIN s |-> IF s[i] \in T THEN <<s[i]>> ELSE << >>]
        = [i \in DOMAIN s |-> IF runs[s[i]].metrics # None THEN <<s[i]>> ELSE << >>]
    BY <2>1, Zenon
  <2>3. QED
    BY <1>2, <2>2 DEF MetricsPaths, Filtered
<1> HIDE DEF T
<1>5. PICK u : u = MetricsPaths
  OBVIOUS
<1>6. u \in Seq(X) /\ ToSet(u) = ToSet(s) \cap T
  BY <1>3, <1>4, <1>5, FilteredBy
<1>7. DataPaths = FlattenSeq([i \in DOMAIN u |-> IF u[i] \in W THEN <<u[i]>> ELSE << >>])
  <2>1. \A i \in DOMAIN u : u[i] \in W <=> runs[u[i]].metrics # << >>
    BY <1>6
  <2>2. [i \in DOMAIN u |-> IF u[i] \in W THEN <<u[i]>> ELSE << >>]
        = [i \in DOMAIN u |-> IF runs[u[i]].metrics # << >> THEN <<u[i]>> ELSE << >>]
    BY <2>1, Zenon
  <2>3. QED
    BY <1>5, <2>2 DEF DataPaths, Filtered
<1> HIDE DEF W
<1>8. PICK v : v = DataPaths
  OBVIOUS
<1>9. v \in Seq(X) /\ ToSet(v) = ToSet(u) \cap W
  <2>1. u \in Seq(X)
    BY <1>6
  <2>2. v = FlattenSeq([i \in DOMAIN u |-> IF u[i] \in W THEN <<u[i]>> ELSE << >>])
    BY <1>7, <1>8
  <2>3. QED
    BY <2>1, <2>2, FilteredBy
<1>10. QED
  BY <1>1, <1>2, <1>5, <1>6, <1>8, <1>9 DEF T, W

\* The lines of a file are a sequence, those of one execution of the run.
LinesOf(lines, d, g) ==
  /\ lines \in Seq(ToSet(lines))
  /\ \A l \in ToSet(lines) : l.suite = d[1] /\ l.run = d[2] /\ l.gen = g

\* Its lines, none when it does not exist.
Metrics(d) == IF runs[d].metrics = None THEN << >> ELSE runs[d].metrics

Tasks(d) == IF runs[d].tasks = None THEN << >> ELSE runs[d].tasks

\* Both files of a run directory are of execution g.
FilesOf(d, g) == LinesOf(Metrics(d), d, g) /\ LinesOf(Tasks(d), d, g)

\* They are always of the same one.
OneExecution == \A d \in DOMAIN runs : \E g : FilesOf(d, g)

\* The execution its files are of.
Generation(d) == CHOOSE g : FilesOf(d, g)

LEMMA GenerationIs ==
  ASSUME OneExecution, NEW d \in DOMAIN runs
  PROVE  FilesOf(d, Generation(d))
<1>1. \E g : FilesOf(d, g)
  BY DEF OneExecution
<1> HIDE DEF FilesOf
<1>2. QED
  BY <1>1, Zenon DEF Generation

\* What is known of the files when tables are made of them.
LinesHere == OneExecution /\ DOMAIN runs = ToSet(RunOrder)

\* The rows of metrics_enriched.csv.
LEMMA MetricsTableIs ==
  ASSUME LinesHere
  PROVE  /\ MetricsTable \in Seq(ToSet(MetricsTable))
         /\ \A row \in ToSet(MetricsTable) :
              /\ <<row.suite, row.run>> \in DOMAIN runs
              /\ row.gen = Generation(<<row.suite, row.run>>)
<1>1. PICK s : s = DataPaths
  OBVIOUS
<1>2. s \in Seq(ToSet(RunOrder))
      /\ ToSet(s) = {d \in ToSet(RunOrder) : runs[d].metrics \notin {None, << >>}}
  BY <1>1, PathsAre
<1>3. PICK n \in Nat : n = Len(s)
  BY <1>2
<1>4. DOMAIN s = 1 .. n
  BY <1>2, <1>3
<1>5. PICK t : t = [i \in 1 .. n |-> EnrichedRows(s[i])]
  OBVIOUS
<1>6. MetricsTable = FlattenSeq(t)
  BY <1>1, <1>4, <1>5 DEF MetricsTable
<1> DEFINE Good(row) == /\ <<row.suite, row.run>> \in DOMAIN runs
                        /\ row.gen = Generation(<<row.suite, row.run>>)
<1>7. ASSUME NEW i \in 1 .. n
      PROVE  /\ t[i] \in Seq(ToSet(t[i]))
             /\ \A row \in ToSet(t[i]) : Good(row)
  <2>1. PICK d : d = s[i]
    OBVIOUS
  <2>2. d \in ToSet(RunOrder) /\ runs[d].metrics \notin {None, << >>}
    <3>1. d \in ToSet(s)
      BY <1>4, <2>1 DEF ToSet
    <3>2. QED
      BY <1>2, <3>1
  <2>3. d \in DOMAIN runs /\ d = <<d[1], d[2]>>
    BY <2>2, RunOrderAssumption DEF LinesHere
  <2>4. PICK lines, g : lines = runs[d].metrics /\ g = Generation(d)
    OBVIOUS
  <2>5. FilesOf(d, g)
    BY <2>3, <2>4, GenerationIs DEF LinesHere
  <2>6. LinesOf(lines, d, g)
    BY <2>2, <2>4, <2>5 DEF FilesOf, Metrics
  <2>7. lines \in Seq(ToSet(lines)) /\ \A l \in ToSet(lines) : l.suite = d[1] /\ l.run = d[2] /\ l.gen = g
    BY <2>6 DEF LinesOf
  <2>8. PICK m \in Nat : m = Len(lines)
    BY <2>7
  <2>9. DOMAIN lines = 1 .. m
    BY <2>7, <2>8
  <2>10. PICK e, x : e = ExperimentIds(d) /\ x = [k \in 1 .. m |-> Enriched(lines[k], e)]
    OBVIOUS
  <2>11. t[i] = x
    BY <1>5, <2>1, <2>4, <2>9, <2>10 DEF EnrichedRows
  <2>12. DOMAIN x = 1 .. m
    BY <2>10
  <2>13. x \in Seq(ToSet(x))
    <3>1. \A k \in 1 .. m : x[k] \in ToSet(x)
      BY <2>12 DEF ToSet
    <3>2. x = [k \in 1 .. m |-> x[k]]
      BY <2>10
    <3>3. QED
      BY <3>1, <3>2
  <2>14. ASSUME NEW row \in ToSet(x)
         PROVE  Good(row)
    <3>1. PICK k \in 1 .. m : row = x[k]
      BY <2>12 DEF ToSet
    <3>2. PICK l : l = lines[k]
      OBVIOUS
    <3>3. l \in ToSet(lines)
      BY <2>9, <3>2 DEF ToSet
    <3>4. row = Enriched(l, e)
      BY <2>10, <3>1, <3>2
    <3>5. row.suite = l.suite /\ row.run = l.run /\ row.gen = l.gen
      BY <3>4 DEF Enriched
    <3>6. QED
      BY <2>3, <2>4, <2>7, <3>3, <3>5
  <2>15. QED
    BY <2>11, <2>13, <2>14
<1>8. PICK U : U = UNION {ToSet(t[i]) : i \in 1 .. n}
  OBVIOUS
<1>9. t \in Seq(Seq(U)) /\ Len(t) = n
  <2>1. ASSUME NEW i \in 1 .. n
        PROVE  t[i] \in Seq(U)
    <3>1. PICK x : x = t[i]
      OBVIOUS
    <3>2. x \in Seq(ToSet(x)) /\ ToSet(x) \subseteq U
      BY <1>7, <1>8, <3>1
    <3>3. QED
      BY <3>1, <3>2
  <2>2. QED
    BY <1>5, <2>1
<1>10. FlattenSeq(t) \in Seq(U) /\ ToSet(FlattenSeq(t)) = UNION {ToSet(t[i]) : i \in 1 .. Len(t)}
  BY <1>9, FlattenToSet
<1>11. ToSet(FlattenSeq(t)) = U
  BY <1>8, <1>9, <1>10
<1>12. \A row \in U : Good(row)
  BY <1>7, <1>8
<1>13. QED
  BY <1>6, <1>10, <1>11, <1>12

\* The lines of all tasks.csv.
LEMMA AllTasksAre ==
  ASSUME LinesHere
  PROVE  /\ AllTasks \in Seq(ToSet(AllTasks))
         /\ \A l \in ToSet(AllTasks) :
              /\ <<l.suite, l.run>> \in DOMAIN runs
              /\ l.gen = Generation(<<l.suite, l.run>>)
<1>1. PICK r, X : r = RunOrder /\ X = ToSet(RunOrder)
  OBVIOUS
<1>2. r \in Seq(X)
  BY <1>1, RunOrderAssumption
<1> DEFINE T == {d \in X : runs[d].tasks # None}
<1>3. PICK s : s = FlattenSeq([i \in DOMAIN r |-> IF r[i] \in T THEN <<r[i]>> ELSE << >>])
  OBVIOUS
<1>4. AllTasks = FlattenSeq([i \in DOMAIN s |-> runs[s[i]].tasks])
  <2>1. \A i \in DOMAIN r : r[i] \in T <=> runs[r[i]].tasks # None
    BY <1>2
  <2>2. [i \in DOMAIN r |-> IF r[i] \in T THEN <<r[i]>> ELSE << >>]
        = [i \in DOMAIN r |-> IF runs[r[i]].tasks # None THEN <<r[i]>> ELSE << >>]
    BY <2>1, Zenon
  <2>3. QED
    BY <1>1, <1>3, <2>2 DEF AllTasks, Filtered
<1> HIDE DEF T
<1>5. s \in Seq(X) /\ ToSet(s) = ToSet(r) \cap T
  BY <1>2, <1>3, FilteredBy
<1>6. PICK n \in Nat : n = Len(s)
  BY <1>5
<1>7. DOMAIN s = 1 .. n
  BY <1>5, <1>6
<1>8. PICK t : t = [i \in 1 .. n |-> runs[s[i]].tasks]
  OBVIOUS
<1>9. AllTasks = FlattenSeq(t)
  BY <1>4, <1>7, <1>8
<1> DEFINE Good(row) == /\ <<row.suite, row.run>> \in DOMAIN runs
                        /\ row.gen = Generation(<<row.suite, row.run>>)
<1>10. ASSUME NEW i \in 1 .. n
       PROVE  /\ t[i] \in Seq(ToSet(t[i]))
              /\ \A row \in ToSet(t[i]) : Good(row)
  <2>1. PICK d : d = s[i]
    OBVIOUS
  <2>2. d \in ToSet(RunOrder) /\ runs[d].tasks # None
    <3>1. d \in ToSet(s)
      BY <1>7, <2>1 DEF ToSet
    <3>2. QED
      BY <1>1, <1>5, <3>1 DEF T
  <2>3. d \in DOMAIN runs /\ d = <<d[1], d[2]>>
    BY <2>2, RunOrderAssumption DEF LinesHere
  <2>4. PICK lines, g : lines = runs[d].tasks /\ g = Generation(d)
    OBVIOUS
  <2>5. FilesOf(d, g)
    BY <2>3, <2>4, GenerationIs DEF LinesHere
  <2>6. LinesOf(lines, d, g)
    BY <2>2, <2>4, <2>5 DEF FilesOf, Tasks
  <2>7. lines \in Seq(ToSet(lines)) /\ \A l \in ToSet(lines) : l.suite = d[1] /\ l.run = d[2] /\ l.gen = g
    BY <2>6 DEF LinesOf
  <2>8. t[i] = lines
    BY <1>8, <2>1, <2>4
  <2>9. QED
    BY <2>3, <2>4, <2>7, <2>8
<1>11. PICK U : U = UNION {ToSet(t[i]) : i \in 1 .. n}
  OBVIOUS
<1>12. t \in Seq(Seq(U)) /\ Len(t) = n
  <2>1. ASSUME NEW i \in 1 .. n
        PROVE  t[i] \in Seq(U)
    <3>1. PICK x : x = t[i]
      OBVIOUS
    <3>2. x \in Seq(ToSet(x)) /\ ToSet(x) \subseteq U
      BY <1>10, <1>11, <3>1
    <3>3. QED
      BY <3>1, <3>2
  <2>2. QED
    BY <1>8, <2>1
<1>13. FlattenSeq(t) \in Seq(U) /\ ToSet(FlattenSeq(t)) = UNION {ToSet(t[i]) : i \in 1 .. Len(t)}
  BY <1>12, FlattenToSet
<1>14. ToSet(FlattenSeq(t)) = U
  BY <1>11, <1>12, <1>13
<1>15. \A row \in U : Good(row)
  BY <1>10, <1>11
<1>16. QED
  BY <1>9, <1>13, <1>14, <1>15

\* What is drawn of the rows of a table: their simulations and executions.
Drawable(table, rows) ==
  IF table = "metrics" THEN {[key |-> ConfigKey(row), gen |-> row.gen] : row \in ToSet(rows)}
  ELSE {[key |-> row.key, gen |-> row.gen] : row \in rows}

DrawnTables == {"metrics", "allocation", "buckets", "fairness"}

\* Executions are told by the run.
OfRun(x, G) == x.gen = G[<<x.key[1], x.key[2]>>]

\* A task of a simulation that has some.
LEMMA TasksOfKey ==
  ASSUME LinesHere, NEW key \in Keys(AllTasks)
  PROVE  /\ TasksOf(AllTasks, key) # << >> /\ 1 \in DOMAIN TasksOf(AllTasks, key)
         /\ <<key[1], key[2]>> \in DOMAIN runs
         /\ TasksOf(AllTasks, key)[1].gen = Generation(<<key[1], key[2]>>)
<1>1. PICK s, X : s = AllTasks /\ X = ToSet(s)
  OBVIOUS
<1>2. s \in Seq(X)
  BY <1>1, AllTasksAre
<1> DEFINE T == {l \in X : RunKey(l) = key}
<1>3. PICK u : u = FlattenSeq([i \in DOMAIN s |-> IF s[i] \in T THEN <<s[i]>> ELSE << >>])
  OBVIOUS
<1>4. TasksOf(s, key) = u
  <2>1. \A i \in DOMAIN s : s[i] \in T <=> RunKey(s[i]) = key
    BY <1>2
  <2>2. [i \in DOMAIN s |-> IF s[i] \in T THEN <<s[i]>> ELSE << >>]
        = [i \in DOMAIN s |-> IF RunKey(s[i]) = key THEN <<s[i]>> ELSE << >>]
    BY <2>1, Zenon
  <2>3. QED
    BY <1>3, <2>2 DEF TasksOf, Filtered
<1> HIDE DEF T
<1>5. u \in Seq(X) /\ ToSet(u) = X \cap T
  <2>1. u \in Seq(X) /\ ToSet(u) = ToSet(s) \cap T
    BY <1>2, <1>3, FilteredBy
  <2>2. QED
    BY <1>1, <2>1
<1>6. PICK i \in DOMAIN s : key = RunKey(s[i])
  BY <1>1 DEF Keys
<1>7. s[i] \in X \cap T
  BY <1>1, <1>6 DEF T, ToSet
<1>8. u # << >>
  <2>1. u = << >> => ToSet(u) = {}
    BY DEF ToSet
  <2>2. QED
    BY <1>5, <1>7, <2>1
<1>9. 1 \in DOMAIN u /\ u[1] \in X \cap T
  <2>1. 1 \in DOMAIN u
    BY <1>5, <1>8
  <2>2. QED
    BY <1>5, <2>1 DEF ToSet
<1>10. PICK l : l = u[1]
  OBVIOUS
<1>11. RunKey(l) = key /\ l \in ToSet(AllTasks)
  BY <1>1, <1>9, <1>10 DEF T
<1>12. l.suite = key[1] /\ l.run = key[2]
  BY <1>11 DEF RunKey
<1>13. QED
  BY <1>1, <1>4, <1>8, <1>9, <1>10, <1>11, <1>12, AllTasksAre

\* The rows of each table are of the execution of their run.
LEMMA ContentsOfRun ==
  ASSUME LinesHere, NEW table \in DrawnTables, NEW x \in Drawable(table, Contents(table))
  PROVE  /\ <<x.key[1], x.key[2]>> \in DOMAIN runs
         /\ x.gen = Generation(<<x.key[1], x.key[2]>>)
<1> DEFINE Good(y) == /\ <<y.key[1], y.key[2]>> \in DOMAIN runs
                      /\ y.gen = Generation(<<y.key[1], y.key[2]>>)
<1>1. ASSUME NEW row \in ToSet(MetricsTable)
      PROVE  Good([key |-> ConfigKey(row), gen |-> row.gen])
  BY MetricsTableIs DEF ConfigKey
<1>2. CASE table = "metrics"
  <2>1. x \in {[key |-> ConfigKey(row), gen |-> row.gen] : row \in ToSet(MetricsTable)}
    BY <1>2 DEF Drawable, Contents
  <2>2. QED
    BY <1>1, <2>1
<1>3. CASE table = "allocation"
  <2>1. PICK row \in AllocationTable : x = [key |-> row.key, gen |-> row.gen]
    BY <1>3 DEF Drawable, Contents
  <2>2. PICK key \in Keys(AllTasks) :
           row = Allocation(key, TasksOf(AllTasks, key), ExperimentsOfKey(key))
    BY <2>1 DEF AllocationTable
  <2>3. row.key = key /\ row.gen = TasksOf(AllTasks, key)[1].gen
    BY <2>2 DEF Allocation
  <2>4. QED
    BY <2>1, <2>3, TasksOfKey
<1>4. CASE table = "buckets"
  <2>1. PICK row \in NiceBucketTable : x = [key |-> row.key, gen |-> row.gen]
    BY <1>4 DEF Drawable, Contents
  <2>2. PICK key \in Keys(AllTasks) :
          \E nice \in Nices(TasksOf(AllTasks, key)) :
            row = NiceBucket(key, TasksOf(AllTasks, key), nice, ExperimentsOfKey(key))
    BY <2>1 DEF NiceBucketTable
  <2>3. row.key = key /\ row.gen = TasksOf(AllTasks, key)[1].gen
    BY <2>2 DEF NiceBucket
  <2>4. QED
    BY <2>1, <2>3, TasksOfKey
<1>5. CASE table = "fairness"
  <2>1. PICK row \in FairnessTable(MetricsTable, CharacteristicsTable) :
           x = [key |-> row.key, gen |-> row.gen]
    BY <1>5 DEF Drawable, Contents
  <2>2. PICK r \in ToSet(MetricsTable) : row = Fairness(r, MetricsTable, CharacteristicsTable)
    BY <2>1 DEF FairnessTable
  <2>3. row.key = ConfigKey(r) /\ row.gen = r.gen
    BY <2>2 DEF Fairness
  <2>4. QED
    BY <1>1, <2>1, <2>3
<1>6. QED
  BY <1>2, <1>3, <1>4, <1>5 DEF DrawnTables

\* What the tables of one aggregation have in common.
TablesAgree ==
  /\ \E G : \A t \in fresh \cap DrawnTables : \A x \in Drawable(t, tables[t]) : OfRun(x, G)
  /\ "metrics" \in fresh => tables["metrics"] \in Seq(ToSet(tables["metrics"]))
  /\ {"metrics", "characteristics", "fairness"} \subseteq fresh =>
       tables["fairness"] = FairnessTable(tables["metrics"], tables["characteristics"])

\* The tables written are those of the files.
AsWritten == \A t \in fresh : tables[t] = Contents(t)

LEMMA AsWrittenAgrees ==
  ASSUME LinesHere, AsWritten
  PROVE  TablesAgree
<1>1. PICK G : G = [d \in DOMAIN runs |-> Generation(d)]
  OBVIOUS
<1>2. ASSUME NEW t \in fresh \cap DrawnTables, NEW x \in Drawable(t, tables[t])
      PROVE  OfRun(x, G)
  <2>1. x \in Drawable(t, Contents(t)) /\ t \in DrawnTables
    BY <1>2 DEF AsWritten
  <2>2. /\ <<x.key[1], x.key[2]>> \in DOMAIN runs
        /\ x.gen = Generation(<<x.key[1], x.key[2]>>)
    BY <2>1, ContentsOfRun
  <2>3. QED
    BY <1>1, <2>2 DEF OfRun
<1>3. "metrics" \in fresh => tables["metrics"] \in Seq(ToSet(tables["metrics"]))
  BY MetricsTableIs DEF AsWritten, Contents
<1>4. {"metrics", "characteristics", "fairness"} \subseteq fresh =>
        tables["fairness"] = FairnessTable(tables["metrics"], tables["characteristics"])
  BY DEF AsWritten, Contents
<1>5. QED
  BY <1>2, <1>3, <1>4 DEF TablesAgree

-----------------------------------------------------------------------------
(* What a simulator writes *)

\* A sequence is one of its elements.
LEMMA OwnElements ==
  ASSUME NEW X, NEW s \in Seq(X)
  PROVE  s \in Seq(ToSet(s))
<1>1. s = [k \in 1 .. Len(s) |-> s[k]] /\ Len(s) \in Nat /\ DOMAIN s = 1 .. Len(s)
  OBVIOUS
<1>2. \A k \in 1 .. Len(s) : s[k] \in ToSet(s)
  BY <1>1 DEF ToSet
<1>3. QED
  BY <1>1, <1>2

LEMMA BeginningOf ==
  ASSUME NEW lines, NEW d, NEW g, LinesOf(lines, d, g), NEW n \in 0 .. Len(lines)
  PROVE  LinesOf(SubSeq(lines, 1, n), d, g)
<1>1. lines \in Seq(ToSet(lines)) /\ Len(lines) \in Nat
  BY DEF LinesOf
<1>2. PICK u : u = SubSeq(lines, 1, n)
  OBVIOUS
<1>3. u \in Seq(ToSet(lines))
  BY <1>1, <1>2
<1>4. u \in Seq(ToSet(u)) /\ ToSet(u) \subseteq ToSet(lines)
  <2>1. u \in Seq(ToSet(u))
    BY <1>3, OwnElements
  <2>2. \A x \in ToSet(u) : x \in ToSet(lines)
    BY <1>3 DEF ToSet
  <2>3. QED
    BY <2>1, <2>2
<1>5. QED
  BY <1>2, <1>4 DEF LinesOf

LEMMA OneMoreLine ==
  ASSUME NEW lines, NEW d, NEW g, LinesOf(lines, d, g),
         NEW l, l.suite = d[1], l.run = d[2], l.gen = g
  PROVE  LinesOf(Append(lines, l), d, g)
<1>1. PICK X : X = ToSet(lines) \cup {l}
  OBVIOUS
<1>2. lines \in Seq(X) /\ \A x \in X : x.suite = d[1] /\ x.run = d[2] /\ x.gen = g
  BY <1>1 DEF LinesOf
<1>3. PICK u : u = Append(lines, l)
  OBVIOUS
<1>4. u \in Seq(X)
  BY <1>1, <1>2, <1>3
<1>5. u \in Seq(ToSet(u))
  BY <1>4, OwnElements
<1>6. \A x \in ToSet(u) : x \in X
  BY <1>4 DEF ToSet
<1>7. QED
  BY <1>2, <1>3, <1>5, <1>6 DEF LinesOf

\* A beginning is some lines, or some lines and a cut one.
LEMMA BeginningIs ==
  ASSUME NEW lines, NEW u, u \in Beginnings(lines)
  PROVE  \/ \E n \in 0 .. Len(lines) : u = SubSeq(lines, 1, n)
         \/ \E n \in 0 .. Len(lines) - 1, c \in Cuts :
              u = Append(SubSeq(lines, 1, n), CutLine(lines[n + 1], c))
<1>1. \/ u \in {SubSeq(lines, 1, n) : n \in 0 .. Len(lines)}
      \/ u \in {Append(SubSeq(lines, 1, n), CutLine(lines[n + 1], c)) :
                n \in 0 .. Len(lines) - 1, c \in Cuts}
  BY DEF Beginnings
<1>2. QED
  BY <1>1

LEMMA TaskBeginningIs ==
  ASSUME NEW lines, NEW u, u \in TaskBeginnings(lines)
  PROVE  \/ \E n \in 0 .. Len(lines) : u = SubSeq(lines, 1, n)
         \/ \E n \in 0 .. Len(lines) - 1, c \in TaskCuts :
              u = Append(SubSeq(lines, 1, n), CutTask(lines[n + 1], c))
<1>1. \/ u \in {SubSeq(lines, 1, n) : n \in 0 .. Len(lines)}
      \/ u \in {Append(SubSeq(lines, 1, n), CutTask(lines[n + 1], c)) :
                n \in 0 .. Len(lines) - 1, c \in TaskCuts}
  BY DEF TaskBeginnings
<1>2. QED
  BY <1>1

\* The case of a plan.
CaseOfPlan(case) ==
  /\ case.sims \in Seq(ToSet(case.sims))
  /\ \A sim \in ToSet(case.sims) : Result[sim].tasks \in Seq(ToSet(Result[sim].tasks))

LEMMA MetricsLinesOf ==
  ASSUME NEW case, CaseOfPlan(case)
  PROVE  /\ LinesOf(MetricsLines(suite, gen, case), <<suite, case.run>>, gen)
         /\ \A metrics \in Beginnings(MetricsLines(suite, gen, case)) :
              LinesOf(metrics, <<suite, case.run>>, gen)
<1>1. PICK sims, d : sims = case.sims /\ d = <<suite, case.run>>
  OBVIOUS
<1>2. PICK n \in Nat : n = Len(sims)
  BY <1>1 DEF CaseOfPlan
<1>3. DOMAIN sims = 1 .. n
  BY <1>1, <1>2 DEF CaseOfPlan
<1> DEFINE Line(i) == [suite |-> suite, run |-> case.run, gen |-> gen, config |-> case.config,
      workload |-> sims[i][1], sched |-> sims[i][2],
      result |-> Result[sims[i]].metrics, cut |-> WholeLine, edge |-> "gone"]
<1>4. PICK lines : lines = MetricsLines(suite, gen, case)
  OBVIOUS
<1>5. lines = [i \in 1 .. n |-> Line(i)]
  BY <1>1, <1>3, <1>4 DEF MetricsLines
<1>6. DOMAIN lines = 1 .. n /\ \A i \in 1 .. n : lines[i] = Line(i)
  BY <1>5
<1>7. lines \in Seq(ToSet(lines)) /\ Len(lines) = n
  <2>1. \A i \in 1 .. n : lines[i] \in ToSet(lines)
    BY <1>6 DEF ToSet
  <2>2. lines = [i \in 1 .. n |-> lines[i]]
    BY <1>5
  <2>3. QED
    BY <2>1, <2>2
<1>8. \A i \in 1 .. n : Line(i).suite = d[1] /\ Line(i).run = d[2] /\ Line(i).gen = gen
  BY <1>1
<1>9. LinesOf(lines, d, gen)
  <2>1. \A l \in ToSet(lines) : l.suite = d[1] /\ l.run = d[2] /\ l.gen = gen
    BY <1>6, <1>8 DEF ToSet
  <2>2. QED
    BY <1>7, <2>1 DEF LinesOf
<1>10. ASSUME NEW metrics \in Beginnings(lines)
       PROVE  LinesOf(metrics, d, gen)
  <2>1. CASE \E k \in 0 .. Len(lines) : metrics = SubSeq(lines, 1, k)
    <3>1. PICK k \in 0 .. n : metrics = SubSeq(lines, 1, k)
      BY <1>7, <2>1
    <3>2. k \in 0 .. Len(lines)
      BY <1>7
    <3>3. QED
      BY <1>9, <3>1, <3>2, BeginningOf
  <2>2. CASE \E k \in 0 .. Len(lines) - 1, c \in Cuts :
               metrics = Append(SubSeq(lines, 1, k), CutLine(lines[k + 1], c))
    <3>1. PICK k \in 0 .. n - 1, c \in Cuts :
               metrics = Append(SubSeq(lines, 1, k), CutLine(lines[k + 1], c))
      BY <1>7, <2>2
    <3>2. k \in 0 .. Len(lines)
      BY <1>7
    <3>3. LinesOf(SubSeq(lines, 1, k), d, gen)
      BY <1>9, <3>2, BeginningOf
    <3>4. PICK j \in 1 .. n : j = k + 1
      OBVIOUS
    <3>5. PICK l : l = CutLine(lines[k + 1], c)
      OBVIOUS
    <3>6. l = CutLine(Line(j), c)
      BY <1>6, <3>4, <3>5
    <3>7. l.suite = d[1] /\ l.run = d[2] /\ l.gen = gen
      BY <1>1, <3>6 DEF CutLine
    <3>8. QED
      BY <3>1, <3>3, <3>5, <3>7, OneMoreLine
  <2>3. QED
    BY <2>1, <2>2, BeginningIs
<1>11. QED
  BY <1>1, <1>4, <1>9, <1>10

\* A line about a task of a case.
TaskOf(case, l) ==
  /\ l = [suite |-> l.suite, run |-> l.run, gen |-> l.gen, config |-> l.config,
          workload |-> l.workload, sched |-> l.sched, task |-> l.task]
  /\ \E sim \in ToSet(case.sims) : l.task \in ToSet(Result[sim].tasks)

LEMMA TaskLinesOf ==
  ASSUME NEW case, CaseOfPlan(case)
  PROVE  /\ LinesOf(TaskLines(suite, gen, case), <<suite, case.run>>, gen)
         /\ Len(TaskLines(suite, gen, case)) \in Nat
         /\ \A l \in ToSet(TaskLines(suite, gen, case)) : TaskOf(case, l)
<1>1. PICK sims, d : sims = case.sims /\ d = <<suite, case.run>>
  OBVIOUS
<1>2. PICK n \in Nat : n = Len(sims)
  BY <1>1 DEF CaseOfPlan
<1>3. DOMAIN sims = 1 .. n
  BY <1>1, <1>2 DEF CaseOfPlan
<1> DEFINE Line(i, k) == [suite |-> suite, run |-> case.run, gen |-> gen, config |-> case.config,
        workload |-> sims[i][1], sched |-> sims[i][2],
        task |-> Result[sims[i]].tasks[k]]
           Part(i) == [k \in DOMAIN Result[sims[i]].tasks |-> Line(i, k)]
           t == [i \in 1 .. n |-> Part(i)]
<1>4. TaskLines(suite, gen, case) = FlattenSeq(t)
  BY <1>1, <1>3 DEF TaskLines
<1>5. PICK U : U = UNION {ToSet(Part(i)) : i \in 1 .. n}
  OBVIOUS
<1>6. ASSUME NEW i \in 1 .. n
      PROVE  /\ Part(i) \in Seq(U)
             /\ \A l \in ToSet(Part(i)) : l.suite = d[1] /\ l.run = d[2] /\ l.gen = gen
             /\ \A l \in ToSet(Part(i)) : TaskOf(case, l)
  <2>1. PICK x, tasks : x = Part(i) /\ tasks = Result[sims[i]].tasks
    OBVIOUS
  <2>2. PICK m \in Nat : DOMAIN tasks = 1 .. m
    <3>1. sims[i] \in ToSet(sims)
      BY <1>3 DEF ToSet
    <3>2. tasks \in Seq(ToSet(tasks))
      BY <1>1, <2>1, <3>1 DEF CaseOfPlan
    <3>3. Len(tasks) \in Nat /\ DOMAIN tasks = 1 .. Len(tasks)
      BY <3>2
    <3>4. QED
      BY <3>3
  <2>3. x = [k \in 1 .. m |-> Line(i, k)]
    BY <2>1, <2>2
  <2> HIDE DEF Line, t
  <2>4. DOMAIN x = 1 .. m /\ x = [k \in 1 .. m |-> x[k]] /\ \A k \in 1 .. m : x[k] = Line(i, k)
    BY <2>3
  <2>5. \A k \in 1 .. m : x[k] \in ToSet(x)
    BY <2>4 DEF ToSet
  <2>6. ToSet(x) \subseteq U
    BY <1>5, <2>1
  <2>7. x \in Seq(U)
    <3>1. \A k \in 1 .. m : x[k] \in U
      BY <2>5, <2>6
    <3>2. x = [k \in 1 .. m |-> x[k]] /\ m \in Nat
      BY <2>2, <2>4
    <3>3. QED
      BY <3>1, <3>2
  <2>8. \A k \in 1 .. m : /\ Line(i, k).suite = d[1] /\ Line(i, k).run = d[2]
                          /\ Line(i, k).gen = gen
    BY <1>1 DEF Line
  <2>9. \A l \in ToSet(x) : l.suite = d[1] /\ l.run = d[2] /\ l.gen = gen
    BY <2>4, <2>8 DEF ToSet
  <2>10. \A l \in ToSet(x) : TaskOf(case, l)
    <3>1. sims[i] \in ToSet(case.sims)
      BY <1>1, <1>3 DEF ToSet
    <3>2. \A k \in 1 .. m : tasks[k] \in ToSet(tasks)
      BY <2>2 DEF ToSet
    <3>3. \A k \in 1 .. m : Line(i, k).task = tasks[k]
      BY <2>1 DEF Line
    <3>4. \A k \in 1 .. m : TaskOf(case, Line(i, k))
      <4>1. ASSUME NEW k \in 1 .. m, NEW l, l = Line(i, k)
            PROVE  l = [suite |-> l.suite, run |-> l.run, gen |-> l.gen, config |-> l.config,
                        workload |-> l.workload, sched |-> l.sched, task |-> l.task]
        BY <4>1 DEF Line
      <4>2. QED
        BY <2>1, <3>1, <3>2, <3>3, <4>1 DEF TaskOf
    <3>5. QED
      BY <2>4, <3>4 DEF ToSet
  <2>11. QED
    BY <2>1, <2>7, <2>9, <2>10
<1>7. PICK w : w = t
  OBVIOUS
<1>8. Len(w) = n /\ w \in Seq(Seq(U)) /\ \A i \in 1 .. n : w[i] = Part(i)
  <2>1. \A i \in 1 .. n : Part(i) \in Seq(U)
    BY <1>6
  <2> HIDE DEF Part
  <2>2. QED
    BY <1>7, <2>1
<1> HIDE DEF Part, t
<1>9. PICK lines : lines = FlattenSeq(w)
  OBVIOUS
<1>10. lines \in Seq(U) /\ ToSet(lines) = UNION {ToSet(w[i]) : i \in 1 .. Len(w)}
  BY <1>8, <1>9, FlattenToSet
<1>11. lines \in Seq(ToSet(lines)) /\ Len(lines) \in Nat
  BY <1>10, OwnElements
<1>12. \A l \in ToSet(lines) : l.suite = d[1] /\ l.run = d[2] /\ l.gen = gen
  BY <1>6, <1>8, <1>10
<1>13. \A l \in ToSet(lines) : TaskOf(case, l)
  BY <1>6, <1>8, <1>10
<1>14. LinesOf(lines, d, gen)
  BY <1>11, <1>12 DEF LinesOf
<1>15. QED
  BY <1>1, <1>4, <1>7, <1>9, <1>11, <1>13, <1>14

-----------------------------------------------------------------------------
(* The steps *)

\* What holds of the other variables.
Control ==
  /\ cursor \in Nat \ {0}
  /\ DOMAIN runs = ToSet(RunOrder) /\ DOMAIN spec = Suites
  /\ DOMAIN tables = ToSet(TableOrder) \cup {"summary"}
  /\ fresh \subseteq ToSet(TableOrder)
  /\ pc = "idle" => cursor = 1 /\ drawn = << >>
  /\ pc \in {"clean", "cases"} => suite \in Suites /\ spec[suite] \in Plans[suite]

\* The tables, by name.
LEMMA TableNames ==
  /\ "summary" \notin ToSet(TableOrder) /\ Len(TableOrder) = 7
  /\ \A c \in 1 .. 7 : TableOrder[c] \in ToSet(TableOrder)
  /\ DrawnTables \cup {"characteristics"} \subseteq ToSet(TableOrder)
<1>1. PICK s : s = TableOrder
  OBVIOUS
<1>2. /\ DOMAIN s = 1 .. 7 /\ Len(s) = 7
      /\ s[1] = "metrics" /\ s[2] = "index" /\ s[3] = "quality" /\ s[4] = "allocation"
      /\ s[5] = "buckets" /\ s[6] = "characteristics" /\ s[7] = "fairness"
  BY <1>1 DEF TableOrder
<1>3. ToSet(s) = {s[1], s[2], s[3], s[4], s[5], s[6], s[7]}
  BY <1>2 DEF ToSet
<1>4. QED
  BY <1>1, <1>2, <1>3 DEF DrawnTables

LEMMA ControlInit == Init => Control
<1> SUFFICES ASSUME Init
             PROVE  Control
  OBVIOUS
<1>1. runs = [d \in ToSet(RunOrder) |-> NoArtifacts] /\ spec = [s \in Suites |-> << >>]
      /\ tables = [t \in ToSet(TableOrder) \cup {"summary"} |-> None]
  BY DEF Init
<1>2. pc = "idle" /\ cursor = 1 /\ drawn = << >> /\ fresh = {}
  BY DEF Init
<1>3. QED
  BY <1>1, <1>2 DEF Control

LEMMA ControlStep == Control /\ [Next]_vars => Control'
<1> SUFFICES ASSUME Control, [Next]_vars
             PROVE  Control'
  OBVIOUS
<1>1. DOMAIN runs' = ToSet(RunOrder)
  <2>1. CASE Clean \/ RunCase \/ BreakCase \/ GenerateManifest
    BY <2>1 DEF Control, Clean, RunCase, BreakCase, Executed, GenerateManifest
  <2>2. CASE KillClean
    BY <2>2 DEF Control, KillClean
  <2>3. CASE ~ (Clean \/ KillClean \/ RunCase \/ BreakCase \/ GenerateManifest)
    <3>1. runs' = runs
      BY <2>3 DEF Next, vars, Begin, EndOfCases, WriteSummary, EndOfRunner, BeginAggregate,
                  WriteTable, EndOfAggregate, Export, Plot, Finish, BeginPublish, Publish,
                  EndOfPublish, Kill, Idle, files
    <3>2. QED
      BY <3>1 DEF Control
  <2>4. QED
    BY <2>1, <2>2, <2>3
<1>2. /\ DOMAIN spec' = Suites
      /\ pc' \in {"clean", "cases"} => suite' \in Suites /\ spec'[suite'] \in Plans[suite']
  <2>1. CASE Begin
    <3>1. PICK s \in Suites : \E plan \in Plans[s] :
             suite' = s /\ spec' = [spec EXCEPT ![s] = plan]
      BY <2>1 DEF Begin
    <3>2. DOMAIN spec' = Suites /\ spec'[s] \in Plans[s]
      BY <3>1 DEF Control
    <3>3. QED
      BY <3>1, <3>2
  <2>2. CASE ~ Begin
    <3>1. spec' = spec
      BY <2>2 DEF Next, vars, Clean, RunCase, BreakCase, GenerateManifest, EndOfCases,
                  WriteSummary, EndOfRunner, BeginAggregate, WriteTable, EndOfAggregate,
                  Export, Plot, Finish, BeginPublish, Publish, EndOfPublish, Kill, KillClean, Idle
    <3>2. CASE Clean \/ RunCase \/ Idle \/ UNCHANGED vars
      <4>1. suite' = suite /\ (pc' \in {"clean", "cases"} => pc \in {"clean", "cases"})
        BY <3>2 DEF Clean, RunCase, Idle, vars
      <4>2. QED
        BY <3>1, <4>1 DEF Control
    <3>3. CASE ~ (Clean \/ RunCase \/ Idle \/ UNCHANGED vars)
      <4>1. pc' \notin {"clean", "cases"}
        BY <2>2, <3>3 DEF Next, BreakCase, GenerateManifest, EndOfCases, WriteSummary,
              EndOfRunner, BeginAggregate, WriteTable, EndOfAggregate, Export, Plot, Finish,
              BeginPublish, Publish, EndOfPublish, Kill, KillClean, EndCommand
      <4>2. QED
        BY <3>1, <4>1 DEF Control
    <3>4. QED
      BY <3>2, <3>3
  <2>3. QED
    BY <2>1, <2>2
<1>3. DOMAIN tables' = DOMAIN tables
  <2>1. CASE WriteTable \/ Export
    BY <2>1 DEF WriteTable, Export
  <2>2. CASE ~ (WriteTable \/ Export)
    <3>1. tables' = tables
      BY <2>2 DEF Next, vars, Begin, Clean, RunCase, BreakCase, GenerateManifest, EndOfCases,
                  WriteSummary, EndOfRunner, BeginAggregate, EndOfAggregate, Plot, Finish,
                  BeginPublish, Publish, EndOfPublish, Kill, KillClean, Idle, files
    <3>2. QED
      BY <3>1
  <2>3. QED
    BY <2>1, <2>2
<1>4. fresh' \subseteq ToSet(TableOrder)
  <2>1. CASE WriteTable
    <3>1. cursor \in 1 .. 7
      BY <2>1, TableNames DEF WriteTable, Control
    <3>2. fresh' \subseteq fresh \cup {TableOrder[cursor]}
      BY <2>1 DEF WriteTable
    <3>3. QED
      BY <3>1, <3>2, TableNames DEF Control
  <2>2. CASE ~ WriteTable
    <3>1. fresh' = fresh \/ fresh' = {}
      BY <2>2 DEF Next, vars, Begin, Clean, RunCase, BreakCase, GenerateManifest, EndOfCases,
                  WriteSummary, EndOfRunner, BeginAggregate, EndOfAggregate, Export, Plot,
                  Finish, BeginPublish, Publish, EndOfPublish, Kill, KillClean, Idle, ghosts
    <3>2. QED
      BY <3>1 DEF Control
  <2>3. QED
    BY <2>1, <2>2
<1>5. cursor' \in Nat \ {0} /\ (pc' = "idle" => cursor' = 1 /\ drawn' = << >>)
  <2>1. CASE RunCase \/ WriteTable \/ Publish
    <3>1. cursor' = cursor + 1 /\ pc' # "idle"
      BY <2>1 DEF RunCase, WriteTable, Publish
    <3>2. QED
      BY <3>1 DEF Control
  <2>2. CASE GenerateManifest
    <3>1. RunOrder \in Seq(ToSet(RunOrder))
      BY RunOrderAssumption
    <3>2. Len(RunOrder) \in Nat
      BY <3>1
    <3>3. (cursor' = cursor + 1 \/ cursor' = Len(RunOrder) + 1) /\ pc' # "idle"
      BY <2>2 DEF GenerateManifest
    <3>4. QED
      BY <3>2, <3>3 DEF Control
  <2>3. CASE ~ (RunCase \/ WriteTable \/ Publish \/ GenerateManifest)
    <3>1. \/ cursor' = 1 /\ (drawn' = << >> \/ pc' # "idle")
          \/ cursor' = cursor /\ (pc' # "idle" \/ (pc = "idle" /\ drawn' = drawn))
      BY <2>3 DEF Next, vars, Begin, Clean, BreakCase, EndOfCases, WriteSummary, EndOfRunner,
                  BeginAggregate, EndOfAggregate, Export, Plot, Finish, BeginPublish,
                  EndOfPublish, Kill, KillClean, Idle, EndCommand
    <3>2. QED
      BY <3>1 DEF Control
  <2>4. QED
    BY <2>1, <2>2, <2>3
<1>6. QED
  BY <1>1, <1>2, <1>3, <1>4, <1>5 DEF Control

\* The artifacts of a case are of this execution, whole or not.
LEMMA ExecutedOnce ==
  ASSUME RunsShape, OneExecution, NEW case, NEW metrics, NEW lines,
         Executed(case, metrics, lines), NEW origin,
         metrics = None \/ LinesOf(metrics, <<suite, case.run>>, origin),
         lines = None \/ LinesOf(lines, <<suite, case.run>>, origin)
  PROVE  OneExecution'
<1>1. PICK e : e = <<suite, case.run>>
  OBVIOUS
<1>2. /\ DOMAIN runs' = DOMAIN runs
      /\ \A d \in DOMAIN runs : d # e => runs'[d] = runs[d]
      /\ e \in DOMAIN runs =>
           runs'[e] = [[runs[e] EXCEPT !.metrics = metrics] EXCEPT !.tasks = lines]
  BY <1>1 DEF Executed
<1>3. e \in DOMAIN runs =>
        runs'[e] = [metrics |-> metrics, tasks |-> lines, manifest |-> runs[e].manifest]
  BY <1>2 DEF RunsShape
<1>4. LinesOf(<< >>, e, origin)
  <2>1. << >> \in Seq(ToSet(<< >>))
    OBVIOUS
  <2>2. ToSet(<< >>) = {}
    BY DEF ToSet
  <2>3. QED
    BY <2>1, <2>2 DEF LinesOf
<1>5. ASSUME NEW d \in DOMAIN runs
      PROVE  \E g : FilesOf(d, g)'
  <2>1. CASE d = e
    <3>1. runs'[d].metrics = metrics /\ runs'[d].tasks = lines
      BY <1>3, <2>1
    <3>2. /\ metrics = None \/ LinesOf(metrics, d, origin)
          /\ lines = None \/ LinesOf(lines, d, origin)
          /\ LinesOf(<< >>, d, origin)
      BY <1>1, <1>4, <2>1
    <3>3. PICK g : g = origin
      OBVIOUS
    <3>4. /\ metrics = None \/ LinesOf(metrics, d, g)
          /\ lines = None \/ LinesOf(lines, d, g)
          /\ LinesOf(<< >>, d, g)
      BY <3>2, <3>3
    <3>5. FilesOf(d, g)'
      BY <3>1, <3>4 DEF FilesOf, Metrics, Tasks, LinesOf
    <3>6. QED
      BY <3>5
  <2>2. CASE d # e
    <3>1. PICK g : FilesOf(d, g)
      BY DEF OneExecution
    <3>2. runs'[d] = runs[d]
      BY <1>2, <2>2
    <3>3. FilesOf(d, g)'
      BY <3>1, <3>2 DEF FilesOf, Metrics, Tasks, LinesOf
    <3>4. QED
      BY <3>3
  <2>3. QED
    BY <2>1, <2>2
<1>6. QED
  BY <1>2, <1>5 DEF OneExecution

\* The files stay, or go.
LEMMA FilesStay ==
  ASSUME OneExecution, DOMAIN runs' = DOMAIN runs,
         \A d \in DOMAIN runs : /\ runs'[d].metrics \in {runs[d].metrics, None}
                                /\ runs'[d].tasks \in {runs[d].tasks, None}
  PROVE  OneExecution'
<1>1. ASSUME NEW d \in DOMAIN runs
      PROVE  \E g : FilesOf(d, g)'
  <2>1. PICK g : FilesOf(d, g)
    BY DEF OneExecution
  <2>2. LinesOf(<< >>, d, g)
    <3>1. << >> \in Seq(ToSet(<< >>))
      OBVIOUS
    <3>2. ToSet(<< >>) = {}
      BY DEF ToSet
    <3>3. QED
      BY <3>1, <3>2 DEF LinesOf
  <2>3. PICK m, t : m = Metrics(d)' /\ t = Tasks(d)'
    OBVIOUS
  <2>4. m \in {Metrics(d), << >>} /\ t \in {Tasks(d), << >>}
    BY <2>3 DEF Metrics, Tasks
  <2>5. LinesOf(m, d, g) /\ LinesOf(t, d, g)
    BY <2>1, <2>2, <2>4 DEF FilesOf
  <2>6. FilesOf(d, g)'
    BY <2>3, <2>5 DEF FilesOf, LinesOf
  <2>7. QED
    BY <2>6
<1>2. QED
  BY <1>1 DEF OneExecution

\* The simulations of the case of a plan.
SimsApart(case) ==
  /\ \A i, j \in DOMAIN case.sims : case.sims[i] = case.sims[j] => i = j
  /\ \A sim \in ToSet(case.sims) :
       /\ sim = <<sim[1], sim[2]>> /\ Named(sim[1]) /\ Named(sim[2])
       /\ Result[sim].metrics.permille \in Nat

\* The case to run next.
LEMMA NextCase ==
  ASSUME Control, pc = "cases", cursor <= Len(Plan)
  PROVE  /\ CaseOfPlan(Plan[cursor]) /\ SimsApart(Plan[cursor])
         /\ <<suite, Plan[cursor].run>> \in DOMAIN runs
<1>1. PICK plan : plan = Plan
  OBVIOUS
<1>2. suite \in Suites /\ plan \in Plans[suite] /\ DOMAIN runs = ToSet(RunOrder)
  BY <1>1 DEF Control, Plan
<1>3. plan \in Seq(ToSet(plan))
  BY <1>2, PlansAssumption
<1>4. cursor \in DOMAIN plan
  BY <1>1, <1>3 DEF Control
<1>5. plan[cursor] \in ToSet(plan)
  BY <1>4 DEF ToSet
<1>6. CaseOfPlan(plan[cursor])
  BY <1>2, <1>5, PlansAssumption DEF CaseOfPlan
<1>7. SimsApart(plan[cursor])
  BY <1>2, <1>5, RunsAssumption DEF SimsApart
<1>8. <<suite, plan[cursor].run>> \in DOMAIN runs
  BY <1>2, <1>5, RunsAssumption
<1>9. QED
  BY <1>1, <1>6, <1>7, <1>8

\* What a simulator that ends early leaves of each file: what it was, nothing of
\* the metrics, or a beginning.
LEMMA BreakCaseIs ==
  ASSUME Control, BreakCase
  PROVE  \E case, metrics, tasks :
           /\ pc = "cases" /\ cursor <= Len(Plan)
           /\ case = Plan[cursor] /\ CaseOfPlan(case) /\ SimsApart(case)
           /\ <<suite, case.run>> \in DOMAIN runs
           /\ Executed(case, metrics, tasks)
           /\ \/ /\ metrics \in {runs[<<suite, case.run>>].metrics, << >>}
                 /\ tasks = runs[<<suite, case.run>>].tasks
              \/ /\ metrics \in Beginnings(MetricsLines(suite, gen, case))
                 /\ tasks \in TaskBeginnings(TaskLines(suite, gen, case))
<1>1. PICK case : case = Plan[cursor]
  OBVIOUS
<1>2. pc = "cases" /\ cursor <= Len(Plan) /\ \E left \in Leavings(case) : Executed(case, left[1], left[2])
  BY <1>1 DEF BreakCase
<1>3. PICK left \in Leavings(case) : Executed(case, left[1], left[2])
  BY <1>2
<1>4. PICK B, T : B = Beginnings(MetricsLines(suite, gen, case))
                  /\ T = TaskBeginnings(TaskLines(suite, gen, case))
  OBVIOUS
<1>5. PICK m, t : m = runs[<<suite, case.run>>].metrics /\ t = runs[<<suite, case.run>>].tasks
  OBVIOUS
<1>6. left \in {<<m, t>>, <<<< >>, t>>} \cup B \X T
  BY <1>4, <1>5 DEF Leavings
<1>7. \/ left[1] \in {m, << >>} /\ left[2] = t
      \/ left[1] \in B /\ left[2] \in T
  BY <1>6
<1>8. CaseOfPlan(case) /\ SimsApart(case) /\ <<suite, case.run>> \in DOMAIN runs
  BY <1>1, <1>2, NextCase
<1>9. QED
  BY <1>1, <1>2, <1>3, <1>4, <1>5, <1>7, <1>8

\* A cut number is a number.
LEMMA NumberInNat ==
  ASSUME NEW cell \in {"value", "part", "blank", "gone"}, NEW v \in Nat
  PROVE  NumberIn(cell, v) \in Nat
<1>1. v \div 10 \in Nat
  OBVIOUS
<1>2. NumberIn(cell, v) = CASE cell = "value" -> v
                          [] cell = "part" -> IF v < 0 THEN -((-v) \div 10) ELSE v \div 10
                          [] cell \in {"blank", "gone"} -> 0
  BY DEF NumberIn
<1>3. CASE cell = "part"
  <2>1. NumberIn(cell, v) = IF v < 0 THEN -((-v) \div 10) ELSE v \div 10
    BY <1>2, <1>3
  <2>2. QED
    BY <1>1, <2>1
<1>4. CASE cell # "part"
  BY <1>2, <1>4
<1>5. QED
  BY <1>3, <1>4

\* A cut line is about the same run and execution, and its figures are natural
\* when the task's are.
LEMMA CutTaskIs ==
  ASSUME NEW case, NEW l, TaskOf(case, l), NEW c \in TaskCuts
  PROVE  /\ CutTask(l, c).suite = l.suite /\ CutTask(l, c).run = l.run
         /\ CutTask(l, c).gen = l.gen
         /\ (l.task.alloc \in Nat /\ l.task.weight \in Nat) =>
              CutTask(l, c).task.alloc \in Nat /\ CutTask(l, c).task.weight \in Nat
<1>1. PICK a, b, v, w, e : /\ a = TextIn(CellNo(1, c[1], c[2]), l.sched)
                           /\ b = TextIn(CellNo(2, c[1], c[2]), l.workload)
                           /\ v = NumberIn(CellNo(5, c[1], c[2]), l.task.alloc)
                           /\ w = NumberIn(CellNo(4, c[1], c[2]), l.task.weight)
                           /\ e = NumberIn(CellNo(3, c[1], c[2]), l.task.nice)
  OBVIOUS
<1>2. PICK x : x = CutTask(l, c)
  OBVIOUS
<1>3. x = [[[l EXCEPT !.sched = a] EXCEPT !.workload = b]
              EXCEPT !.task = [nice |-> e, weight |-> w, alloc |-> v]]
  BY <1>1, <1>2 DEF CutTask
<1>4. l = [suite |-> l.suite, run |-> l.run, gen |-> l.gen, config |-> l.config,
           workload |-> l.workload, sched |-> l.sched, task |-> l.task]
  BY DEF TaskOf
<1>5. x = [suite |-> l.suite, run |-> l.run, gen |-> l.gen, config |-> l.config,
           workload |-> b, sched |-> a, task |-> [nice |-> e, weight |-> w, alloc |-> v]]
  BY <1>3, <1>4
<1>6. /\ x.suite = l.suite /\ x.run = l.run /\ x.gen = l.gen
      /\ x.task.alloc = v /\ x.task.weight = w
  BY <1>5
<1>7. \A i \in 1 .. 5 : CellNo(i, c[1], c[2]) \in {"value", "part", "blank", "gone"}
  <2>1. c[1] \in Int /\ c[2] \in {"gone", "blank", "part"}
    BY CutsAssumption DEF TaskColumns
  <2>2. QED
    BY <2>1 DEF CellNo
<1>8. /\ l.task.alloc \in Nat => v \in Nat
      /\ l.task.weight \in Nat => w \in Nat
  BY <1>1, <1>7, NumberInNat
<1>9. QED
  BY <1>2, <1>6, <1>8

\* The beginnings of a file of tasks are of this execution, too.
LEMMA TaskBeginningsOf ==
  ASSUME NEW case, CaseOfPlan(case), NEW tasks \in TaskBeginnings(TaskLines(suite, gen, case))
  PROVE  LinesOf(tasks, <<suite, case.run>>, gen)
<1>1. PICK lines, d : lines = TaskLines(suite, gen, case) /\ d = <<suite, case.run>>
  OBVIOUS
<1>2. /\ LinesOf(lines, d, gen) /\ Len(lines) \in Nat
      /\ \A l \in ToSet(lines) : TaskOf(case, l)
  BY <1>1, TaskLinesOf
<1>3. CASE \E n \in 0 .. Len(lines) : tasks = SubSeq(lines, 1, n)
  BY <1>1, <1>2, <1>3, BeginningOf
<1>4. CASE \E n \in 0 .. Len(lines) - 1, c \in TaskCuts :
             tasks = Append(SubSeq(lines, 1, n), CutTask(lines[n + 1], c))
  <2>1. PICK n \in 0 .. Len(lines) - 1, c \in TaskCuts :
               tasks = Append(SubSeq(lines, 1, n), CutTask(lines[n + 1], c))
    BY <1>4
  <2>2. n \in 0 .. Len(lines) /\ n + 1 \in 1 .. Len(lines) /\ DOMAIN lines = 1 .. Len(lines)
    BY <1>2 DEF LinesOf
  <2>3. LinesOf(SubSeq(lines, 1, n), d, gen)
    BY <1>2, <2>2, BeginningOf
  <2>4. PICK l, x : l = lines[n + 1] /\ x = CutTask(l, c)
    OBVIOUS
  <2>5. l \in ToSet(lines)
    BY <2>2, <2>4 DEF ToSet
  <2>6. l.suite = d[1] /\ l.run = d[2] /\ l.gen = gen
    BY <1>2, <2>5 DEF LinesOf
  <2>7. x.suite = l.suite /\ x.run = l.run /\ x.gen = l.gen
    BY <1>2, <2>4, <2>5, CutTaskIs
  <2>8. QED
    BY <1>1, <2>1, <2>3, <2>4, <2>6, <2>7, OneMoreLine
<1>5. QED
  BY <1>1, <1>3, <1>4, TaskBeginningIs

LEMMA OneExecutionStep == RunsShape /\ Control /\ OneExecution /\ [Next]_vars => OneExecution'
<1> SUFFICES ASSUME RunsShape, Control, OneExecution, [Next]_vars
             PROVE  OneExecution'
  OBVIOUS
<1>2. CASE RunCase
  <2>1. PICK case : case = Plan[cursor]
    OBVIOUS
  <2>2. CaseOfPlan(case) /\ Executed(case, MetricsLines(suite, gen, case), TaskLines(suite, gen, case))
    BY <1>2, <2>1, NextCase DEF RunCase
  <2>3. QED
    BY <2>2, MetricsLinesOf, TaskLinesOf, ExecutedOnce
<1>3. CASE BreakCase
  <2>1. PICK case, metrics, tasks :
          /\ CaseOfPlan(case) /\ <<suite, case.run>> \in DOMAIN runs
          /\ Executed(case, metrics, tasks)
          /\ \/ /\ metrics \in {runs[<<suite, case.run>>].metrics, << >>}
                /\ tasks = runs[<<suite, case.run>>].tasks
             \/ /\ metrics \in Beginnings(MetricsLines(suite, gen, case))
                /\ tasks \in TaskBeginnings(TaskLines(suite, gen, case))
    BY <1>3, BreakCaseIs
  <2>2. PICK d : d = <<suite, case.run>>
    OBVIOUS
  <2>3. CASE metrics \in {runs[d].metrics, << >>} /\ tasks = runs[d].tasks
    <3>1. PICK g : FilesOf(d, g)
      BY <2>1, <2>2 DEF OneExecution
    <3>2. metrics = None \/ LinesOf(metrics, d, g)
      <4>1. LinesOf(<< >>, d, g)
        <5>1. << >> \in Seq(ToSet(<< >>))
          OBVIOUS
        <5>2. ToSet(<< >>) = {}
          BY DEF ToSet
        <5>3. QED
          BY <5>1, <5>2 DEF LinesOf
      <4>2. QED
        BY <2>3, <3>1, <4>1 DEF FilesOf, Metrics
    <3>3. tasks = None \/ LinesOf(tasks, d, g)
      BY <2>3, <3>1 DEF FilesOf, Tasks
    <3>4. QED
      BY <2>1, <2>2, <3>2, <3>3, ExecutedOnce
  <2>4. CASE /\ metrics \in Beginnings(MetricsLines(suite, gen, case))
             /\ tasks \in TaskBeginnings(TaskLines(suite, gen, case))
    <3>1. LinesOf(metrics, d, gen) /\ LinesOf(tasks, d, gen)
      BY <2>1, <2>2, <2>4, MetricsLinesOf, TaskBeginningsOf
    <3>2. QED
      BY <2>1, <2>2, <3>1, ExecutedOnce
  <2>5. QED
    BY <2>1, <2>2, <2>3, <2>4
<1>4. CASE Clean \/ KillClean
  <2>1. CASE Clean
    <3>1. /\ DOMAIN runs' = DOMAIN runs
          /\ \A d \in DOMAIN runs : runs'[d] = NoArtifacts \/ runs'[d] = runs[d]
      BY <2>1 DEF Clean
    <3>2. \A d \in DOMAIN runs : /\ runs'[d].metrics \in {runs[d].metrics, None}
                                 /\ runs'[d].tasks \in {runs[d].tasks, None}
      BY <3>1 DEF NoArtifacts
    <3>3. QED
      BY <3>1, <3>2, FilesStay
  <2>2. CASE KillClean
    BY <2>2, KillCleanIs, FilesStay
  <2>3. QED
    BY <1>4, <2>1, <2>2
<1>5. CASE GenerateManifest
  <2>1. PICK dir, m : runs' = runs \/ runs' = [runs EXCEPT ![dir].manifest = m]
    BY <1>5 DEF GenerateManifest
  <2>2. CASE runs' = runs
    BY <2>2, FilesStay
  <2>3. CASE runs' = [runs EXCEPT ![dir].manifest = m]
    <3>1. /\ DOMAIN runs' = DOMAIN runs
          /\ \A d \in DOMAIN runs : d # dir => runs'[d] = runs[d]
          /\ dir \in DOMAIN runs => runs'[dir] = [runs[dir] EXCEPT !.manifest = m]
      BY <2>3
    <3>2. dir \in DOMAIN runs =>
            runs'[dir] = [metrics |-> runs[dir].metrics, tasks |-> runs[dir].tasks, manifest |-> m]
      BY <3>1 DEF RunsShape
    <3>3. QED
      BY <3>1, <3>2, FilesStay
  <2>4. QED
    BY <2>1, <2>2, <2>3
<1>6. CASE ~ (RunCase \/ BreakCase \/ Clean \/ KillClean \/ GenerateManifest)
  <2>1. runs' = runs
    BY <1>6 DEF Next, vars, Begin, EndOfCases, WriteSummary, EndOfRunner, BeginAggregate,
                WriteTable, EndOfAggregate, Export, Plot, Finish, BeginPublish, Publish,
                EndOfPublish, Kill, Idle, files
  <2>2. QED
    BY <2>1, FilesStay
<1>7. QED
  BY <1>2, <1>3, <1>4, <1>5, <1>6

-----------------------------------------------------------------------------
(* The tables of an aggregation *)

\* They depend on the files, the summaries and the documents alone.
LEMMA ContentsSame ==
  ASSUME runs' = runs, summaries' = summaries, spec' = spec, NEW table
  PROVE  Contents(table)' = Contents(table)
<1>1. MetricsPaths' = MetricsPaths
  BY DEF MetricsPaths, Filtered
<1>2. DataPaths' = DataPaths
  BY <1>1 DEF DataPaths, Filtered
<1>3. ASSUME NEW d
      PROVE  RunSummary(d)' = RunSummary(d)
  BY DEF RunSummary
<1>4. ASSUME NEW d
      PROVE  Executions(d)' = Executions(d)
  BY DEF Executions
<1>5. ASSUME NEW d
      PROVE  ExperimentIds(d)' = ExperimentIds(d)
  BY DEF ExperimentIds, Executions, InferredFor, RunSummary
<1>6. ASSUME NEW d
      PROVE  EnrichedRows(d)' = EnrichedRows(d)
  BY <1>5 DEF EnrichedRows
<1>7. MetricsTable' = MetricsTable
  BY <1>2, <1>6 DEF MetricsTable
<1>8. AllTasks' = AllTasks
  BY DEF AllTasks, Filtered
<1>9. ASSUME NEW key
      PROVE  ExperimentsOfKey(key)' = ExperimentsOfKey(key)
  BY <1>2, <1>5 DEF ExperimentsOfKey
<1>10. ASSUME NEW d
       PROVE  RunIndexRow(d)' = RunIndexRow(d)
  BY <1>3, <1>4, <1>5 DEF RunIndexRow
<1>11. QualityTable' = QualityTable
  BY <1>2, <1>7 DEF QualityTable
<1>12. AllocationTable' = AllocationTable
  BY <1>8, <1>9 DEF AllocationTable
<1>13. NiceBucketTable' = NiceBucketTable
  BY <1>8, <1>9 DEF NiceBucketTable
<1>14. CharacteristicsTable' = CharacteristicsTable
  BY <1>8, <1>9 DEF CharacteristicsTable
<1>15. {RunIndexRow(dir) : dir \in ToSet(DataPaths)}' = {RunIndexRow(dir) : dir \in ToSet(DataPaths)}
  BY <1>2, <1>10
<1>16. QED
  BY <1>7, <1>11, <1>12, <1>13, <1>14, <1>15 DEF Contents

LEMMA OneExecutionInit == Init => OneExecution
<1> SUFFICES ASSUME Init
             PROVE  OneExecution
  OBVIOUS
<1>1. ASSUME NEW d \in DOMAIN runs
      PROVE  \E g : FilesOf(d, g)
  <2>1. runs[d] = NoArtifacts
    BY DEF Init
  <2>2. Metrics(d) = << >> /\ Tasks(d) = << >>
    BY <2>1 DEF NoArtifacts, Metrics, Tasks
  <2>3. << >> \in Seq(ToSet(<< >>))
    OBVIOUS
  <2>4. ToSet(<< >>) = {}
    BY DEF ToSet
  <2>5. FilesOf(d, gen)
    BY <2>2, <2>3, <2>4 DEF FilesOf, LinesOf
  <2>6. QED
    BY <2>5
<1>2. QED
  BY <1>1 DEF OneExecution

\* The tables written are those of the files while the aggregation runs, and
\* agree from then on.
TableState ==
  /\ pc = "aggregate" => AsWritten
  /\ pc # "aggregate" => TablesAgree

LEMMA TablesKept ==
  ASSUME TablesAgree, fresh' \in {fresh, {}}, \A t \in fresh : tables'[t] = tables[t]
  PROVE  TablesAgree'
<1>1. PICK G : \A t \in fresh \cap DrawnTables : \A x \in Drawable(t, tables[t]) : OfRun(x, G)
  BY DEF TablesAgree
<1>2. ASSUME NEW t \in fresh' \cap DrawnTables, NEW x \in Drawable(t, tables'[t])
      PROVE  OfRun(x, G)
  <2>1. t \in fresh \cap DrawnTables /\ tables'[t] = tables[t]
    BY <1>2
  <2>2. x \in Drawable(t, tables[t])
    BY <1>2, <2>1
  <2>3. QED
    BY <1>1, <2>1, <2>2
<1>3. (\E H : \A t \in fresh \cap DrawnTables : \A x \in Drawable(t, tables[t]) : OfRun(x, H))'
  BY <1>2 DEF Drawable, OfRun
<1>4. "metrics" \in fresh' => tables'["metrics"] \in Seq(ToSet(tables'["metrics"]))
  BY DEF TablesAgree
<1>5. {"metrics", "characteristics", "fairness"} \subseteq fresh' =>
        tables'["fairness"] = FairnessTable(tables'["metrics"], tables'["characteristics"])
  BY DEF TablesAgree
<1>6. QED
  BY <1>3, <1>4, <1>5 DEF TablesAgree

LEMMA TableStateInit == Init => TableState
<1> SUFFICES ASSUME Init
             PROVE  TableState
  OBVIOUS
<1>1. fresh = {} /\ pc = "idle"
  BY DEF Init
<1>2. QED
  BY <1>1 DEF TableState, TablesAgree

LEMMA TableStateStep == Control /\ OneExecution /\ TableState /\ [Next]_vars => TableState'
<1> SUFFICES ASSUME Control, OneExecution, TableState, [Next]_vars
             PROVE  TableState'
  OBVIOUS
<1>1. CASE WriteTable
  <2>1. pc = "aggregate" /\ pc' = "aggregate" /\ AsWritten
    BY <1>1 DEF WriteTable, TableState
  <2>2. PICK table : table = TableOrder[cursor]
    OBVIOUS
  <2>3. table \in DOMAIN tables
    <3>1. cursor \in 1 .. 7
      BY <1>1, TableNames DEF WriteTable, Control
    <3>2. QED
      BY <2>2, <3>1, TableNames DEF Control
  <2>4. \/ tables' = [tables EXCEPT ![table] = Contents(table)] /\ fresh' = fresh \cup {table}
        \/ tables' = tables /\ fresh' = fresh
    BY <1>1, <2>2 DEF WriteTable
  <2>5. runs' = runs /\ summaries' = summaries /\ spec' = spec
    BY <1>1 DEF WriteTable
  <2>6. ASSUME NEW t
        PROVE  Contents(t)' = Contents(t)
    BY <2>5, ContentsSame
  <2>7. ASSUME NEW t \in fresh'
        PROVE  tables'[t] = Contents(t)
    <3>1. PICK c : c = Contents(t)
      OBVIOUS
    <3>2. t \in fresh => tables[t] = c
      BY <2>1, <3>1 DEF AsWritten
    <3>3. t = table => c = Contents(table)
      BY <3>1
    <3>4. PICK e : e = Contents(table)
      OBVIOUS
    <3>5. \/ tables' = [tables EXCEPT ![table] = e] /\ fresh' = fresh \cup {table}
          \/ tables' = tables /\ fresh' = fresh
      BY <2>4, <3>4
    <3>6. t = table => c = e
      BY <3>3, <3>4
    <3>7. tables'[t] = c
      <4>1. CASE t = table /\ fresh' = fresh \cup {table} /\ tables' = [tables EXCEPT ![table] = e]
        BY <2>3, <3>6, <4>1
      <4>2. CASE t # table /\ fresh' = fresh \cup {table} /\ tables' = [tables EXCEPT ![table] = e]
        BY <2>7, <3>2, <4>2
      <4>3. CASE fresh' = fresh /\ tables' = tables
        BY <2>7, <3>2, <4>3
      <4>4. QED
        BY <3>5, <4>1, <4>2, <4>3
    <3>8. QED
      BY <3>1, <3>7
  <2>8. \A t \in fresh' : tables'[t] = Contents(t)'
    BY <2>6, <2>7
  <2>9. AsWritten'
    BY <2>8 DEF AsWritten
  <2>10. QED
    BY <2>1, <2>9 DEF TableState
<1>2. CASE pc = "aggregate" /\ ~ WriteTable
  <2>1. AsWritten /\ LinesHere
    BY <1>2 DEF TableState, LinesHere, Control
  <2>2. TablesAgree
    BY <2>1, AsWrittenAgrees
  <2>3. CASE UNCHANGED vars
    <3>1. /\ runs' = runs /\ summaries' = summaries /\ spec' = spec /\ tables' = tables
          /\ fresh' = fresh /\ pc' = pc
      BY <2>3 DEF vars
    <3>2. ASSUME NEW t
          PROVE  Contents(t)' = Contents(t)
      BY <3>1, ContentsSame
    <3>3. \A t \in fresh' : tables'[t] = Contents(t)'
      BY <2>1, <3>1, <3>2 DEF AsWritten
    <3>4. AsWritten'
      BY <3>3 DEF AsWritten
    <3>5. QED
      BY <1>2, <3>1, <3>4 DEF TableState
  <2>4. CASE EndOfAggregate \/ Kill
    <3>1. tables' = tables /\ fresh' = fresh /\ pc' # "aggregate"
      BY <2>4 DEF EndOfAggregate, Kill, EndCommand, files, ghosts
    <3>2. TablesAgree'
      BY <2>2, <3>1, TablesKept
    <3>3. QED
      BY <3>1, <3>2 DEF TableState
  <2>5. QED
    BY <1>2, <2>3, <2>4 DEF Next, Begin, Clean, KillClean, RunCase, BreakCase, EndOfCases,
          WriteSummary, GenerateManifest, EndOfRunner, BeginAggregate, Export, Plot, Finish,
          BeginPublish, Publish, EndOfPublish, Idle
<1>3. CASE pc # "aggregate"
  <2>1. TablesAgree
    BY <1>3 DEF TableState
  <2>2. fresh' \in {fresh, {}} /\ (pc' = "aggregate" => fresh' = {})
    BY <1>3 DEF Next, vars, Begin, Clean, RunCase, BreakCase, EndOfCases, WriteSummary,
          GenerateManifest, EndOfRunner, BeginAggregate, WriteTable, EndOfAggregate, Export,
          Plot, Finish, BeginPublish, Publish, EndOfPublish, Kill, KillClean, Idle, EndCommand, ghosts
  <2>3. \A t \in fresh : tables'[t] = tables[t]
    <3>1. CASE Export
      <4>1. "summary" \notin fresh
        BY TableNames DEF Control
      <4>2. QED
        BY <3>1, <4>1 DEF Export
    <3>2. CASE ~ Export
      BY <1>3, <3>2 DEF Next, vars, Begin, Clean, RunCase, BreakCase, EndOfCases, WriteSummary,
          GenerateManifest, EndOfRunner, BeginAggregate, WriteTable, EndOfAggregate,
          Plot, Finish, BeginPublish, Publish, EndOfPublish, Kill, KillClean, Idle, files
    <3>3. QED
      BY <3>1, <3>2
  <2>4. TablesAgree'
    BY <2>1, <2>2, <2>3, TablesKept
  <2>5. pc' = "aggregate" => AsWritten'
    BY <2>2 DEF AsWritten
  <2>6. QED
    BY <2>4, <2>5 DEF TableState
<1>4. QED
  BY <1>1, <1>2, <1>3

-----------------------------------------------------------------------------
(* The publication figures *)

\* The figures by name.
PublicationFigures ==
  {"rq1_throughput_by_scheduler", "rq1_throughput_delta_vs_mlfq",
   "rq2_weight_slowdown_correlation_heatmap", "rq2_nice_bucket_slowdown",
   "rq2_nice_bucket_share_delta", "rq3_synthetic_vs_real", "rq3_completion_ratio",
   "rq4_workload_characteristics_scatter", "rq5_overhead_bars",
   "rq5_overhead_vs_latency_tradeoff"}

\* What is drawn, once the tables are read.
FigureOf(stem) ==
  CASE stem = "rq1_throughput_by_scheduler" -> ThroughputRows(tables["metrics"])
    [] stem = "rq1_throughput_delta_vs_mlfq" -> DeltaRows(tables["fairness"])
    [] stem = "rq2_weight_slowdown_correlation_heatmap" ->
         {row \in InScenario(tables["allocation"]) : Named(row.key[4]) /\ Named(row.key[5])}
    [] stem \in {"rq2_nice_bucket_slowdown", "rq2_nice_bucket_share_delta"} ->
         {row \in tables["buckets"] : Named(row.key[4])}
    [] stem = "rq4_workload_characteristics_scatter" -> tables["fairness"]
    [] stem \in {"rq3_synthetic_vs_real", "rq3_completion_ratio", "rq5_overhead_bars",
                 "rq5_overhead_vs_latency_tradeoff"} -> OfScheduler(tables["metrics"])

\* The figures drawn so far are those of the tables; the first ones come first.
Publishing ==
  pc = "publish" =>
    /\ \A stem \in DOMAIN drawn : stem \in PublicationFigures /\ drawn[stem] = FigureOf(stem)
    /\ cursor > 1 => {"rq1_throughput_by_scheduler", "rq1_throughput_delta_vs_mlfq"}
                       \subseteq DOMAIN drawn

LEMMA PlotRqIs ==
  ASSUME NEW n \in 1 .. 5, NEW stem \in DOMAIN PlotRq(n)
  PROVE  stem \in PublicationFigures /\ PlotRq(n)[stem] = FigureOf(stem)
<1>1. CASE n = 1
  <2>1. PlotRq(n) = PlotRq1Throughput(tables["metrics"], tables["fairness"])
    BY <1>1 DEF PlotRq
  <2>2. QED
    BY <2>1 DEF PlotRq1Throughput, PublicationFigures, FigureOf
<1>2. CASE n = 2
  <2>1. PlotRq(n) = PlotRq2WeightedBehavior(tables["allocation"], tables["buckets"])
    BY <1>2 DEF PlotRq
  <2>2. PICK lines, cells :
          /\ lines = {row \in tables["buckets"] : Named(row.key[4])}
          /\ cells = {row \in InScenario(tables["allocation"]) : Named(row.key[4]) /\ Named(row.key[5])}
    OBVIOUS
  <2>3. PlotRq(n) = [rq2_weight_slowdown_correlation_heatmap |-> cells,
                     rq2_nice_bucket_slowdown |-> lines, rq2_nice_bucket_share_delta |-> lines]
    BY <2>1, <2>2, Zenon DEF PlotRq2WeightedBehavior
  <2>4. /\ FigureOf("rq2_weight_slowdown_correlation_heatmap") = cells
        /\ FigureOf("rq2_nice_bucket_slowdown") = lines
        /\ FigureOf("rq2_nice_bucket_share_delta") = lines
    BY <2>2 DEF FigureOf
  <2>5. QED
    BY <2>3, <2>4 DEF PublicationFigures
<1>3. CASE n = 3
  <2>1. PlotRq(n) = PlotRq3SynthVsReal(tables["metrics"])
    BY <1>3 DEF PlotRq
  <2>2. QED
    BY <2>1 DEF PlotRq3SynthVsReal, PublicationFigures, FigureOf
<1>4. CASE n = 4
  <2>1. PlotRq(n) = PlotRq4Characteristics(tables["fairness"])
    BY <1>4 DEF PlotRq
  <2>2. QED
    BY <2>1 DEF PlotRq4Characteristics, PublicationFigures, FigureOf
<1>5. CASE n = 5
  <2>1. PlotRq(n) = PlotRq5Overhead(tables["metrics"])
    BY <1>5 DEF PlotRq
  <2>2. QED
    BY <2>1 DEF PlotRq5Overhead, PublicationFigures, FigureOf
<1>6. QED
  BY <1>1, <1>2, <1>3, <1>4, <1>5

LEMMA PublishingInit == Init => Publishing
BY DEF Init, Publishing

LEMMA PublishingStep == Control /\ Publishing /\ [Next]_vars => Publishing'
<1> SUFFICES ASSUME Control, Publishing, [Next]_vars
             PROVE  Publishing'
  OBVIOUS
<1>1. CASE Publish
  <2>1. /\ pc = "publish" /\ cursor \in 1 .. 5 /\ cursor' = cursor + 1
        /\ tables' = tables
    BY <1>1 DEF Publish, files, Control
  <2>2. PICK n \in 1 .. 5 : n = cursor
    BY <2>1
  <2>3. PICK f : f = PlotRq(n)
    OBVIOUS
  <2>4. /\ DOMAIN drawn' = DOMAIN f \cup DOMAIN drawn
        /\ \A stem \in DOMAIN f \cup DOMAIN drawn :
             drawn'[stem] = IF stem \in DOMAIN f THEN f[stem] ELSE drawn[stem]
    BY <1>1, <2>2, <2>3 DEF Publish
  <2>5. \A stem \in DOMAIN f : stem \in PublicationFigures /\ f[stem] = FigureOf(stem)
    BY <2>3, PlotRqIs
  <2>6. \A stem \in DOMAIN drawn : stem \in PublicationFigures /\ drawn[stem] = FigureOf(stem)
    BY <2>1 DEF Publishing
  <2>7. ASSUME NEW stem \in DOMAIN drawn'
        PROVE  stem \in PublicationFigures /\ drawn'[stem] = FigureOf(stem)
    BY <2>4, <2>5, <2>6
  <2>8. ASSUME NEW stem
        PROVE  FigureOf(stem)' = FigureOf(stem)
    BY <2>1 DEF FigureOf
  <2>9. {"rq1_throughput_by_scheduler", "rq1_throughput_delta_vs_mlfq"} \subseteq DOMAIN drawn'
    <3>1. CASE n = 1
      <4>1. f = PlotRq1Throughput(tables["metrics"], tables["fairness"])
        BY <2>3, <3>1 DEF PlotRq
      <4>2. QED
        BY <2>4, <4>1 DEF PlotRq1Throughput
    <3>2. CASE n # 1
      <4>1. cursor > 1
        BY <2>2, <3>2
      <4>2. QED
        BY <2>1, <2>4, <4>1 DEF Publishing
    <3>3. QED
      BY <3>1, <3>2
  <2>10. \A stem \in DOMAIN drawn' : stem \in PublicationFigures /\ drawn'[stem] = FigureOf(stem)'
    BY <2>7, <2>8
  <2>11. QED
    BY <2>9, <2>10 DEF Publishing
<1>2. CASE BeginPublish
  <2>1. cursor' = 1 /\ drawn' = << >>
    BY <1>2 DEF BeginPublish, Control
  <2>2. QED
    BY <2>1 DEF Publishing
<1>3. CASE pc = "publish" /\ UNCHANGED vars
  BY <1>3 DEF Publishing, vars, FigureOf
<1>4. CASE ~ Publish /\ ~ BeginPublish /\ ~ (pc = "publish" /\ UNCHANGED vars)
  <2>1. pc' # "publish"
    BY <1>4 DEF Next, vars, Begin, Clean, RunCase, BreakCase, EndOfCases, WriteSummary,
          GenerateManifest, EndOfRunner, BeginAggregate, WriteTable, EndOfAggregate, Export,
          Plot, Finish, EndOfPublish, Kill, KillClean, Idle, EndCommand
  <2>2. QED
    BY <2>1 DEF Publishing
<1>5. QED
  BY <1>1, <1>2, <1>3, <1>4

\* The rows of the metrics a figure keeps.
LEMMA KeptRows ==
  ASSUME NEW X, NEW metrics \in Seq(X)
  PROVE  /\ ToSet(OfScheduler(metrics)) = {row \in ToSet(metrics) : Named(row.sched)}
         /\ ToSet(ThroughputRows(metrics)) =
              {row \in ToSet(metrics) :
                 Named(row.sched) /\ HasScenario(row.config) /\ Named(row.workload)}
<1>1. ToSet(metrics) \subseteq X
  BY DEF ToSet
<1>2. PICK s : s = metrics
  OBVIOUS
<1>3. PICK T : T = {row \in X : Named(row.sched)}
  OBVIOUS
<1>4. PICK W : W = {row \in X : HasScenario(row.config) /\ Named(row.workload)}
  OBVIOUS
<1>5. PICK u : u = OfScheduler(metrics)
  OBVIOUS
<1>6. u = FlattenSeq([i \in DOMAIN s |-> IF s[i] \in T THEN <<s[i]>> ELSE << >>])
  <2>1. \A i \in DOMAIN s : s[i] \in T <=> Named(s[i].sched)
    BY <1>2, <1>3
  <2>2. [i \in DOMAIN s |-> IF s[i] \in T THEN <<s[i]>> ELSE << >>]
        = [i \in DOMAIN s |-> IF Named(s[i].sched) THEN <<s[i]>> ELSE << >>]
    BY <2>1, Zenon
  <2>3. QED
    BY <1>2, <1>5, <2>2 DEF OfScheduler, Filtered
<1>7. s \in Seq(X)
  BY <1>2
<1>8. u \in Seq(X) /\ ToSet(u) = ToSet(s) \cap T
  BY <1>7, <1>6, FilteredBy
<1>9. PICK v : v = ThroughputRows(metrics)
  OBVIOUS
<1>10. v = FlattenSeq([i \in DOMAIN u |-> IF u[i] \in W THEN <<u[i]>> ELSE << >>])
  <2>1. \A i \in DOMAIN u : u[i] \in W <=> HasScenario(u[i].config) /\ Named(u[i].workload)
    BY <1>8, <1>4
  <2>2. [i \in DOMAIN u |-> IF u[i] \in W THEN <<u[i]>> ELSE << >>]
        = [i \in DOMAIN u |-> IF HasScenario(u[i].config) /\ Named(u[i].workload)
                              THEN <<u[i]>> ELSE << >>]
    BY <2>1, Zenon
  <2>3. QED
    BY <1>5, <1>9, <2>2 DEF ThroughputRows, Filtered
<1>11. u \in Seq(X)
  BY <1>8
<1>12. v \in Seq(X) /\ ToSet(v) = ToSet(u) \cap W
  BY <1>10, <1>11, FilteredBy
<1>13. QED
  BY <1>1, <1>2, <1>5, <1>8, <1>9, <1>12, <1>3, <1>4

\* What FiguresAgree reads off a figure.
SequenceFigures ==
  {"rq1_throughput_by_scheduler", "rq3_synthetic_vs_real", "rq3_completion_ratio",
   "rq5_overhead_bars", "rq5_overhead_vs_latency_tradeoff"}

DrawnIn(stem, rows) ==
  Drawable(IF stem \in SequenceFigures THEN "metrics" ELSE "fairness", rows)

TableOfFigure(stem) ==
  CASE stem \in SequenceFigures -> "metrics"
    [] stem \in {"rq1_throughput_delta_vs_mlfq", "rq4_workload_characteristics_scatter"} -> "fairness"
    [] stem = "rq2_weight_slowdown_correlation_heatmap" -> "allocation"
    [] stem \in {"rq2_nice_bucket_slowdown", "rq2_nice_bucket_share_delta"} -> "buckets"

\* A figure draws rows of its table.
LEMMA FigureOfTable ==
  ASSUME tables["metrics"] \in Seq(ToSet(tables["metrics"])), NEW stem \in PublicationFigures
  PROVE  /\ TableOfFigure(stem) \in DrawnTables
         /\ DrawnIn(stem, FigureOf(stem))
              \subseteq Drawable(TableOfFigure(stem), tables[TableOfFigure(stem)])
<1>1. PICK m : m = tables["metrics"]
  OBVIOUS
<1>2. ToSet(OfScheduler(m)) \subseteq ToSet(m) /\ ToSet(ThroughputRows(m)) \subseteq ToSet(m)
  <2>1. m \in Seq(ToSet(m))
    BY <1>1
  <2>2. QED
    BY <2>1, KeptRows
<1>3. CASE stem \in SequenceFigures
  <2>1. FigureOf(stem) \in {OfScheduler(m), ThroughputRows(m)}
    BY <1>1, <1>3 DEF FigureOf, SequenceFigures
  <2>2. ToSet(FigureOf(stem)) \subseteq ToSet(m)
    BY <1>2, <2>1
  <2>3. TableOfFigure(stem) = "metrics"
    BY <1>3 DEF TableOfFigure, SequenceFigures
  <2>4. PICK rows : rows = FigureOf(stem)
    OBVIOUS
  <2>5. Drawable("metrics", rows) \subseteq Drawable("metrics", m)
    BY <2>2, <2>4 DEF Drawable
  <2>6. QED
    BY <1>1, <1>3, <2>3, <2>4, <2>5 DEF DrawnIn, DrawnTables
<1>4. CASE stem \notin SequenceFigures
  <2>1. PICK t \in {"allocation", "buckets", "fairness"} : t = TableOfFigure(stem)
    BY <1>4 DEF TableOfFigure, PublicationFigures, SequenceFigures
  <2>2. PICK rows : rows = FigureOf(stem)
    OBVIOUS
  <2>3. rows \subseteq tables[t]
    BY <1>4, <2>1, <2>2 DEF FigureOf, TableOfFigure, PublicationFigures, SequenceFigures,
                            DeltaRows, InScenario
  <2>4. Drawable("fairness", rows) \subseteq Drawable(t, tables[t])
    BY <2>1, <2>3 DEF Drawable
  <2>5. QED
    BY <1>4, <2>1, <2>2, <2>4 DEF DrawnIn, DrawnTables
<1>5. QED
  BY <1>3, <1>4

\* Beside each throughput of a fair scheduler there is its difference.
LEMMA DifferencesBeside ==
  ASSUME NEW metrics, metrics \in Seq(ToSet(metrics)), NEW characteristics,
         NEW fairness, fairness = FairnessTable(metrics, characteristics)
  PROVE  {x \in Drawable("metrics", ThroughputRows(metrics)) : x.key[4] \in FairSchedulers}
         = Drawable("fairness", DeltaRows(fairness))
<1> DEFINE Pair(r) == [key |-> ConfigKey(r), gen |-> r.gen]
           Fair(r) == Fairness(r, metrics, characteristics)
<1>1. PICK M : M = ToSet(metrics)
  OBVIOUS
<1>2. ToSet(ThroughputRows(metrics)) =
        {r \in M : Named(r.sched) /\ HasScenario(r.config) /\ Named(r.workload)}
  BY <1>1, KeptRows
<1>3. fairness = {Fair(r) : r \in {r \in M : r.sched \in FairSchedulers}}
  BY <1>1 DEF FairnessTable
<1>4. \A r : /\ ConfigKey(r)[3] = r.config /\ ConfigKey(r)[4] = r.sched
             /\ ConfigKey(r)[5] = r.workload
  BY DEF ConfigKey
<1>5. \A r : Fair(r).key = ConfigKey(r) /\ Fair(r).gen = r.gen
  BY DEF Fairness
<1>6. \A sched \in FairSchedulers : Named(sched)
  BY DEF FairSchedulers, Named, PartOfName
<1>7. Drawable("metrics", ThroughputRows(metrics)) =
        {Pair(r) : r \in {r \in M : Named(r.sched) /\ HasScenario(r.config) /\ Named(r.workload)}}
  BY <1>2 DEF Drawable
<1>8. DeltaRows(fairness) =
        {row \in fairness : HasScenario(row.key[3]) /\ Named(row.key[5])}
  BY DEF DeltaRows, InScenario
<1>9. Drawable("fairness", DeltaRows(fairness)) =
        {[key |-> row.key, gen |-> row.gen] : row \in DeltaRows(fairness)}
  BY DEF Drawable
<1> HIDE DEF Fair
<1>10. ASSUME NEW x \in Drawable("metrics", ThroughputRows(metrics)), x.key[4] \in FairSchedulers
       PROVE  x \in Drawable("fairness", DeltaRows(fairness))
  <2>1. PICK r \in M : /\ HasScenario(r.config) /\ Named(r.workload)
                       /\ x = Pair(r)
    BY <1>7
  <2>2. r.sched \in FairSchedulers
    BY <1>4, <1>10, <2>1
  <2>3. Fair(r) \in fairness
    BY <1>3, <2>2
  <2>4. Fair(r) \in DeltaRows(fairness)
    BY <1>4, <1>5, <1>8, <2>1, <2>3
  <2>5. x = [key |-> Fair(r).key, gen |-> Fair(r).gen]
    BY <1>5, <2>1
  <2>6. QED
    BY <1>9, <2>4, <2>5
<1>11. ASSUME NEW x \in Drawable("fairness", DeltaRows(fairness))
       PROVE  x \in Drawable("metrics", ThroughputRows(metrics)) /\ x.key[4] \in FairSchedulers
  <2>1. PICK row \in DeltaRows(fairness) : x = [key |-> row.key, gen |-> row.gen]
    BY <1>9
  <2>2. row \in fairness /\ HasScenario(row.key[3]) /\ Named(row.key[5])
    BY <1>8, <2>1
  <2>3. PICK r \in M : r.sched \in FairSchedulers /\ row = Fair(r)
    BY <1>3, <2>2
  <2>4. x = Pair(r)
    BY <1>5, <2>1, <2>3
  <2>5. HasScenario(r.config) /\ Named(r.workload) /\ Named(r.sched)
    BY <1>4, <1>5, <1>6, <2>2, <2>3
  <2>6. x \in Drawable("metrics", ThroughputRows(metrics))
    BY <1>7, <2>4, <2>5
  <2>7. x.key[4] \in FairSchedulers
    BY <1>4, <2>3, <2>4
  <2>8. QED
    BY <2>6, <2>7
<1>12. QED
  BY <1>10, <1>11

LEMMA PublishedAgree ==
  ASSUME Control, TableState, Publishing
  PROVE  FiguresAgree
<1> SUFFICES ASSUME pc = "publish", cursor > 5, ToSet(TableOrder) \subseteq fresh
             PROVE  FiguresAgree
  BY DEF FiguresAgree
<1> DEFINE Drawn(stem) ==
          IF stem \in {"rq1_throughput_by_scheduler", "rq3_synthetic_vs_real",
                       "rq3_completion_ratio", "rq5_overhead_bars",
                       "rq5_overhead_vs_latency_tradeoff"}
          THEN {[key |-> ConfigKey(row), gen |-> row.gen] : row \in ToSet(drawn[stem])}
          ELSE {[key |-> row.key, gen |-> row.gen] : row \in drawn[stem]}
<1>1. \A stem : Drawn(stem) = DrawnIn(stem, drawn[stem])
  BY DEF DrawnIn, Drawable, SequenceFigures
<1>2. TablesAgree
  BY DEF TableState
<1>3. DrawnTables \cup {"characteristics"} \subseteq fresh
  BY TableNames
<1>4. PICK G : \A t \in DrawnTables : \A x \in Drawable(t, tables[t]) : OfRun(x, G)
  BY <1>2, <1>3 DEF TablesAgree
<1>5. /\ tables["metrics"] \in Seq(ToSet(tables["metrics"]))
      /\ tables["fairness"] = FairnessTable(tables["metrics"], tables["characteristics"])
  BY <1>2, <1>3 DEF TablesAgree, DrawnTables
<1>6. ASSUME NEW stem \in DOMAIN drawn, NEW x \in Drawn(stem)
      PROVE  OfRun(x, G)
  <2>1. stem \in PublicationFigures /\ drawn[stem] = FigureOf(stem)
    BY DEF Publishing
  <2>2. x \in DrawnIn(stem, FigureOf(stem))
    BY <1>1, <1>6, <2>1
  <2>3. /\ TableOfFigure(stem) \in DrawnTables
        /\ DrawnIn(stem, FigureOf(stem))
             \subseteq Drawable(TableOfFigure(stem), tables[TableOfFigure(stem)])
    BY <1>5, <2>1, FigureOfTable
  <2>4. QED
    BY <1>4, <2>2, <2>3
<1>7. ASSUME NEW s \in DOMAIN drawn, NEW t \in DOMAIN drawn, NEW x \in Drawn(s), NEW y \in Drawn(t),
             x.key = y.key
      PROVE  x.gen = y.gen
  <2>1. OfRun(x, G) /\ OfRun(y, G)
    BY <1>6
  <2>2. QED
    BY <1>7, <2>1 DEF OfRun
<1>8. {x \in Drawn("rq1_throughput_by_scheduler") : x.key[4] \in FairSchedulers}
      = Drawn("rq1_throughput_delta_vs_mlfq")
  <2>1. {"rq1_throughput_by_scheduler", "rq1_throughput_delta_vs_mlfq"} \subseteq DOMAIN drawn
    BY DEF Publishing, Control
  <2>2. /\ drawn["rq1_throughput_by_scheduler"] = FigureOf("rq1_throughput_by_scheduler")
        /\ drawn["rq1_throughput_delta_vs_mlfq"] = FigureOf("rq1_throughput_delta_vs_mlfq")
    BY <2>1 DEF Publishing
  <2>3. /\ FigureOf("rq1_throughput_by_scheduler") = ThroughputRows(tables["metrics"])
        /\ FigureOf("rq1_throughput_delta_vs_mlfq") = DeltaRows(tables["fairness"])
    BY DEF FigureOf
  <2>4. /\ Drawn("rq1_throughput_by_scheduler")
             = Drawable("metrics", ThroughputRows(tables["metrics"]))
        /\ Drawn("rq1_throughput_delta_vs_mlfq")
             = Drawable("fairness", DeltaRows(tables["fairness"]))
    BY <2>2, <2>3 DEF Drawable
  <2>5. QED
    BY <1>5, <2>4, DifferencesBeside
<1>9. QED
  BY <1>7, <1>8 DEF FiguresAgree

\* The publication figures can be read side by side, whatever was executed,
\* cut short, failed or killed before.
THEOREM FiguresOfOneExecution == Spec => []FiguresAgree
<1>1. Control /\ TableState /\ Publishing => FiguresAgree
  BY PublishedAgree
<1>2. IInv => RunsShape
  BY DEF IInv
<1>3. QED
  BY InitIInv, NextIInv, ControlInit, ControlStep, OneExecutionInit, OneExecutionStep,
     TableStateInit, TableStateStep, PublishingInit, PublishingStep, <1>1, <1>2, PTL DEF Spec

-----------------------------------------------------------------------------
(* The quality checks *)

LEMMA ColumnsAre ==
  /\ Len(Columns) = 15 /\ DOMAIN Columns = 1 .. 15 /\ WholeLine = 16
  /\ Columns[6] = "Scheduler" /\ Columns[7] = "Workload"
  /\ Columns[9] = "CompletionRatio" /\ Columns[15] = "Preemptions"
  /\ \A i, j \in 1 .. 15 : Columns[i] = Columns[j] => i = j
  /\ ToSet(Columns) = RequiredText \cup RequiredNumeric
<1>1. PICK c : c = Columns
  OBVIOUS
<1>2. /\ DOMAIN c = 1 .. 15 /\ Len(c) = 15
      /\ c[1] = "BenchmarkVersion" /\ c[2] = "SchemaVersion" /\ c[3] = "SuiteId"
      /\ c[4] = "RunId" /\ c[5] = "Topology" /\ c[6] = "Scheduler" /\ c[7] = "Workload"
      /\ c[8] = "Completed" /\ c[9] = "CompletionRatio" /\ c[10] = "MeanRT"
      /\ c[11] = "P99RT" /\ c[12] = "Throughput" /\ c[13] = "JainsFairness"
      /\ c[14] = "ContextSwitches" /\ c[15] = "Preemptions"
  BY <1>1 DEF Columns
<1>3. \A i, j \in 1 .. 15 : c[i] = c[j] => i = j
  BY <1>2
<1>4. ToSet(c) = {c[1], c[2], c[3], c[4], c[5], c[6], c[7], c[8], c[9], c[10], c[11], c[12],
                  c[13], c[14], c[15]}
  BY <1>2 DEF ToSet
<1>5. ToSet(c) = RequiredText \cup RequiredNumeric
  BY <1>2, <1>4 DEF RequiredText, RequiredNumeric
<1>6. WholeLine = 16
  BY <1>1, <1>2 DEF WholeLine
<1>7. QED
  BY <1>1, <1>2, <1>3, <1>5, <1>6

LEMMA CellAt ==
  ASSUME NEW line, line.cut \in Int, NEW i \in 1 .. 15
  PROVE  Cell(line, Columns[i]) =
           IF i < line.cut THEN "value" ELSE IF i = line.cut THEN line.edge ELSE "gone"
<1>1. PICK k : k = CHOOSE j \in DOMAIN Columns : Columns[j] = Columns[i]
  OBVIOUS
<1>2. \E j \in DOMAIN Columns : Columns[j] = Columns[i]
  BY ColumnsAre
<1>3. k \in DOMAIN Columns /\ Columns[k] = Columns[i]
  BY <1>1, <1>2, Zenon
<1>4. k = i
  BY <1>3, ColumnsAre
<1>5. Cell(line, Columns[i]) = CASE k < line.cut -> "value"
                                 [] k = line.cut -> line.edge
                                 [] k > line.cut -> "gone"
  BY <1>1 DEF Cell, CellNo
<1>6. QED
  BY <1>4, <1>5

\* A line of metrics.csv, cut or not.
LineShape(line) ==
  line.cut \in 6 .. 16 /\ line.edge \in {"gone", "blank", "part"} /\ line.result.permille \in Nat

\* The names it is read with.
NamesOf(line) == <<Text(line, "Scheduler", line.sched), Text(line, "Workload", line.workload)>>

\* No two lines of a file have the same.
RowsApart(lines) ==
  /\ \A l \in ToSet(lines) : LineShape(l)
  /\ \A i, j \in DOMAIN lines : NamesOf(lines[i]) = NamesOf(lines[j]) => i = j

FilesApart == \A d \in DOMAIN runs : RowsApart(Metrics(d))

LEMMA MissingIffCut ==
  ASSUME NEW line, LineShape(line), NEW row
  PROVE  MissingCells(line, row) # {} <=>
           line.cut < Len(Columns) \/ (line.cut = Len(Columns) /\ line.edge # "part")
<1>1. line.cut \in 6 .. 16 /\ line.edge \in {"gone", "blank", "part"} /\ line.cut \in Int
  BY DEF LineShape
<1>2. \A i \in 1 .. 15 : Cell(line, Columns[i]) =
        IF i < line.cut THEN "value" ELSE IF i = line.cut THEN line.edge ELSE "gone"
  BY <1>1, CellAt
<1>3. Cell(line, "Preemptions") =
        IF 15 < line.cut THEN "value" ELSE IF 15 = line.cut THEN line.edge ELSE "gone"
  BY <1>2, ColumnsAre
<1>4. "Preemptions" \in RequiredNumeric
  BY DEF RequiredNumeric
<1> DEFINE B == {c \in RequiredText : Cell(line, c) = "blank"}
                  \cup {c \in RequiredNumeric : Cell(line, c) \in {"blank", "gone"}}
<1>5. MissingCells(line, row) # {} <=> B # {}
  BY DEF MissingCells
<1>6. ASSUME line.cut < 15 \/ (line.cut = 15 /\ line.edge # "part")
      PROVE  B # {}
  <2>1. Cell(line, "Preemptions") \in {"blank", "gone"}
    BY <1>1, <1>3, <1>6
  <2>2. QED
    BY <1>4, <2>1
<1>7. ASSUME B # {}
      PROVE  line.cut < 15 \/ (line.cut = 15 /\ line.edge # "part")
  <2>1. PICK col \in B : TRUE
    BY <1>7
  <2>2. col \in ToSet(Columns) /\ Cell(line, col) \in {"blank", "gone"}
    BY ColumnsAre
  <2>3. PICK i \in 1 .. 15 : col = Columns[i]
    BY <2>2, ColumnsAre DEF ToSet
  <2>4. /\ i >= line.cut
        /\ i = line.cut => line.edge \in {"blank", "gone"}
    BY <1>1, <1>2, <2>2, <2>3
  <2>5. QED
    BY <1>1, <2>4
<1>8. QED
  BY <1>5, <1>6, <1>7, ColumnsAre

LEMMA PermilleIs ==
  ASSUME NEW line, LineShape(line), NEW e
  PROVE  Enriched(line, e).permille \in Nat
<1>1. PICK v \in Nat : v = line.result.permille
  BY DEF LineShape
<1>2. line.cut \in Int /\ line.edge \in {"gone", "blank", "part"}
  BY DEF LineShape
<1>3. PICK c : c = Cell(line, "CompletionRatio")
  OBVIOUS
<1>4. c \in {"value", "gone", "blank", "part"}
  <2>1. Cell(line, Columns[9]) =
          IF 9 < line.cut THEN "value" ELSE IF 9 = line.cut THEN line.edge ELSE "gone"
    BY <1>2, CellAt
  <2>2. QED
    BY <1>2, <1>3, <2>1, ColumnsAre
<1>5. Number(line, "CompletionRatio", v) \in Nat
  <2>1. Number(line, "CompletionRatio", v) = NumberIn(c, v)
    BY <1>3 DEF Number
  <2>2. QED
    BY <1>4, <2>1, NumberInNat
<1>6. Enriched(line, e).permille = Number(line, "CompletionRatio", v)
  BY <1>1 DEF Enriched
<1>7. QED
  BY <1>5, <1>6

LEMMA NamesAre ==
  ASSUME NEW line, line.cut \in Int
  PROVE  /\ line.cut > 6 => Text(line, "Scheduler", line.sched) = line.sched
         /\ line.cut > 7 => Text(line, "Workload", line.workload) = line.workload
         /\ (line.cut = 6 /\ line.edge \in {"gone", "blank", "part"}) =>
              ~ Named(Text(line, "Scheduler", line.sched))
         /\ (line.cut = 7 /\ line.edge \in {"gone", "blank", "part"}) =>
              ~ Named(Text(line, "Workload", line.workload))
<1>1. /\ Cell(line, Columns[6]) =
             IF 6 < line.cut THEN "value" ELSE IF 6 = line.cut THEN line.edge ELSE "gone"
      /\ Cell(line, Columns[7]) =
             IF 7 < line.cut THEN "value" ELSE IF 7 = line.cut THEN line.edge ELSE "gone"
  BY CellAt
<1>2. PICK a, b : a = Cell(line, "Scheduler") /\ b = Cell(line, "Workload")
  OBVIOUS
<1>3. /\ a = IF 6 < line.cut THEN "value" ELSE IF 6 = line.cut THEN line.edge ELSE "gone"
      /\ b = IF 7 < line.cut THEN "value" ELSE IF 7 = line.cut THEN line.edge ELSE "gone"
  BY <1>1, <1>2, ColumnsAre
<1>4. PICK v, w : v = Text(line, "Scheduler", line.sched) /\ w = Text(line, "Workload", line.workload)
  OBVIOUS
<1>5. /\ v = CASE a = "value" -> line.sched [] a = "part" -> PartOfName
                [] a \in {"blank", "gone"} -> ""
      /\ w = CASE b = "value" -> line.workload [] b = "part" -> PartOfName
                [] b \in {"blank", "gone"} -> ""
  BY <1>2, <1>4 DEF Text, TextIn
<1>6. ~ Named(PartOfName) /\ ~ Named("")
  BY DEF Named
<1>7. line.cut > 6 => v = line.sched
  BY <1>3, <1>5
<1>8. line.cut > 7 => w = line.workload
  BY <1>3, <1>5
<1>9. (line.cut = 6 /\ line.edge \in {"gone", "blank", "part"}) => v \in {PartOfName, ""}
  <2> SUFFICES ASSUME line.cut = 6, line.edge \in {"gone", "blank", "part"}
               PROVE  v \in {PartOfName, ""}
    OBVIOUS
  <2>1. a \in {"gone", "blank", "part"}
    BY <1>3
  <2>2. QED
    BY <1>5, <2>1
<1>10. (line.cut = 7 /\ line.edge \in {"gone", "blank", "part"}) => w \in {PartOfName, ""}
  <2> SUFFICES ASSUME line.cut = 7, line.edge \in {"gone", "blank", "part"}
               PROVE  w \in {PartOfName, ""}
    OBVIOUS
  <2>1. b \in {"gone", "blank", "part"}
    BY <1>3
  <2>2. QED
    BY <1>5, <2>1
<1>11. QED
  BY <1>4, <1>6, <1>7, <1>8, <1>9, <1>10

LEMMA BeginningApart ==
  ASSUME NEW X, NEW lines \in Seq(X), RowsApart(lines), NEW n \in 0 .. Len(lines)
  PROVE  RowsApart(SubSeq(lines, 1, n))
<1>1. PICK u : u = SubSeq(lines, 1, n)
  OBVIOUS
<1>2. /\ DOMAIN u = 1 .. n /\ DOMAIN lines = 1 .. Len(lines) /\ Len(lines) \in Nat
      /\ \A i \in 1 .. n : u[i] = lines[i]
  BY <1>1
<1>3. \A l \in ToSet(u) : l \in ToSet(lines)
  BY <1>2 DEF ToSet
<1>4. QED
  BY <1>1, <1>2, <1>3 DEF RowsApart

LEMMA OneMoreApart ==
  ASSUME NEW X, NEW lines \in Seq(X), RowsApart(lines), NEW l, LineShape(l),
         \A i \in DOMAIN lines : NamesOf(lines[i]) # NamesOf(l)
  PROVE  RowsApart(Append(lines, l))
<1>1. PICK u, n : u = Append(lines, l) /\ n = Len(lines)
  OBVIOUS
<1>2. n \in Nat /\ DOMAIN lines = 1 .. n
  BY <1>1
<1>3. /\ DOMAIN u = 1 .. n + 1 /\ u[n + 1] = l
      /\ \A i \in 1 .. n : u[i] = lines[i]
  BY <1>1, <1>2
<1>4. ASSUME NEW x \in ToSet(u)
      PROVE  LineShape(x)
  <2>1. PICK i \in 1 .. n + 1 : x = u[i]
    BY <1>3 DEF ToSet
  <2>2. CASE i = n + 1
    BY <1>3, <2>1, <2>2
  <2>3. CASE i # n + 1
    <3>1. i \in 1 .. n /\ x = lines[i]
      BY <1>2, <1>3, <2>1, <2>3
    <3>2. x \in ToSet(lines)
      BY <1>2, <3>1 DEF ToSet
    <3>3. QED
      BY <3>2 DEF RowsApart
  <2>4. QED
    BY <2>2, <2>3
<1>5. ASSUME NEW i \in 1 .. n + 1, NEW j \in 1 .. n + 1, NamesOf(u[i]) = NamesOf(u[j])
      PROVE  i = j
  <2>1. CASE i \in 1 .. n /\ j \in 1 .. n
    <3>1. u[i] = lines[i] /\ u[j] = lines[j]
      BY <1>3, <2>1
    <3>2. QED
      BY <1>2, <1>5, <2>1, <3>1 DEF RowsApart
  <2>2. CASE i \in 1 .. n /\ j = n + 1
    BY <1>2, <1>3, <1>5, <2>2
  <2>3. CASE i = n + 1 /\ j \in 1 .. n
    BY <1>2, <1>3, <1>5, <2>3
  <2>4. QED
    BY <1>2, <2>1, <2>2, <2>3
<1>6. QED
  BY <1>1, <1>3, <1>4, <1>5 DEF RowsApart

LEMMA MetricsLinesApart ==
  ASSUME NEW case, CaseOfPlan(case), SimsApart(case)
  PROVE  /\ RowsApart(MetricsLines(suite, gen, case))
         /\ \A metrics \in Beginnings(MetricsLines(suite, gen, case)) : RowsApart(metrics)
<1>1. PICK sims : sims = case.sims
  OBVIOUS
<1>2. PICK n \in Nat : n = Len(sims)
  BY <1>1 DEF CaseOfPlan
<1>3. DOMAIN sims = 1 .. n
  BY <1>1, <1>2 DEF CaseOfPlan
<1> DEFINE Line(i) == [suite |-> suite, run |-> case.run, gen |-> gen, config |-> case.config,
      workload |-> sims[i][1], sched |-> sims[i][2],
      result |-> Result[sims[i]].metrics, cut |-> WholeLine, edge |-> "gone"]
<1>4. PICK lines : lines = MetricsLines(suite, gen, case)
  OBVIOUS
<1>5. lines = [i \in 1 .. n |-> Line(i)]
  BY <1>1, <1>3, <1>4 DEF MetricsLines
<1>6. DOMAIN lines = 1 .. n /\ \A i \in 1 .. n : lines[i] = Line(i)
  BY <1>5
<1>7. lines \in Seq(ToSet(lines)) /\ Len(lines) = n
  <2>1. \A i \in 1 .. n : lines[i] \in ToSet(lines)
    BY <1>6 DEF ToSet
  <2>2. lines = [i \in 1 .. n |-> lines[i]]
    BY <1>5
  <2>3. QED
    BY <2>1, <2>2
<1>8. ASSUME NEW i \in 1 .. n
      PROVE  /\ sims[i] = <<sims[i][1], sims[i][2]>> /\ Named(sims[i][1]) /\ Named(sims[i][2])
             /\ Result[sims[i]].metrics.permille \in Nat
  <2>1. sims[i] \in ToSet(sims)
    BY <1>3 DEF ToSet
  <2>2. QED
    BY <1>1, <2>1 DEF SimsApart
<1>9. ASSUME NEW i \in 1 .. n
      PROVE  /\ Line(i).cut = 16 /\ Line(i).edge = "gone"
             /\ Line(i).sched = sims[i][2] /\ Line(i).workload = sims[i][1]
             /\ Line(i).result = Result[sims[i]].metrics
  BY ColumnsAre
<1> HIDE DEF Line
<1>10. ASSUME NEW i \in 1 .. n
       PROVE  LineShape(Line(i)) /\ NamesOf(Line(i)) = <<sims[i][2], sims[i][1]>>
  <2>1. LineShape(Line(i))
    BY <1>8, <1>9 DEF LineShape
  <2>2. Line(i).cut \in Int /\ Line(i).cut > 7 /\ Line(i).cut > 6
    BY <1>9
  <2>3. /\ Text(Line(i), "Scheduler", Line(i).sched) = Line(i).sched
        /\ Text(Line(i), "Workload", Line(i).workload) = Line(i).workload
    BY <2>2, NamesAre
  <2>4. QED
    BY <1>9, <2>1, <2>3 DEF NamesOf
<1>11. \A i, j \in 1 .. n : sims[i] = sims[j] => i = j
  BY <1>1, <1>3 DEF SimsApart
<1>12. RowsApart(lines)
  <2>1. \A l \in ToSet(lines) : LineShape(l)
    BY <1>6, <1>10 DEF ToSet
  <2>2. ASSUME NEW i \in 1 .. n, NEW j \in 1 .. n, NamesOf(lines[i]) = NamesOf(lines[j])
        PROVE  i = j
    <3>1. sims[i][1] = sims[j][1] /\ sims[i][2] = sims[j][2]
      BY <1>6, <1>10, <2>2
    <3>2. sims[i] = sims[j]
      BY <1>8, <3>1
    <3>3. QED
      BY <1>11, <3>2
  <2>3. QED
    BY <1>6, <2>1, <2>2 DEF RowsApart
<1>13. ASSUME NEW metrics \in Beginnings(lines)
       PROVE  RowsApart(metrics)
  <2>1. CASE \E k \in 0 .. Len(lines) : metrics = SubSeq(lines, 1, k)
    <3>1. PICK k \in 0 .. n : metrics = SubSeq(lines, 1, k)
      BY <1>7, <2>1
    <3>2. k \in 0 .. Len(lines)
      BY <1>7
    <3>3. QED
      BY <1>7, <1>12, <3>1, <3>2, BeginningApart
  <2>2. CASE \E k \in 0 .. Len(lines) - 1, c \in Cuts :
               metrics = Append(SubSeq(lines, 1, k), CutLine(lines[k + 1], c))
    <3>1. PICK k \in 0 .. n - 1, c \in Cuts :
               metrics = Append(SubSeq(lines, 1, k), CutLine(lines[k + 1], c))
      BY <1>7, <2>2
    <3>2. k \in 0 .. Len(lines)
      BY <1>7
    <3>3. PICK u, l : u = SubSeq(lines, 1, k) /\ l = CutLine(lines[k + 1], c)
      OBVIOUS
    <3>4. RowsApart(u)
      BY <1>7, <1>12, <3>2, <3>3, BeginningApart
    <3>5. u \in Seq(ToSet(lines)) /\ DOMAIN u = 1 .. k /\ \A i \in 1 .. k : u[i] = lines[i]
      BY <1>7, <3>2, <3>3
    <3>6. PICK j \in 1 .. n : j = k + 1
      OBVIOUS
    <3>7. l = CutLine(Line(j), c)
      BY <1>6, <3>3, <3>6
    <3>8. /\ l.cut = c[1] /\ l.edge = c[2]
          /\ l.sched = sims[j][2] /\ l.workload = sims[j][1]
          /\ l.result = Result[sims[j]].metrics
      BY <3>7, ColumnsAre DEF CutLine, Line
    <3>9. c[1] \in 6 .. 15 /\ c[2] \in {"gone", "blank", "part"}
      BY CutsAssumption, ColumnsAre
    <3>10. LineShape(l)
      BY <1>8, <3>8, <3>9 DEF LineShape
    <3>11. ASSUME NEW i \in 1 .. k
           PROVE  NamesOf(u[i]) # NamesOf(l)
      <4>1. i \in 1 .. n /\ i # j
        BY <3>6
      <4>2. NamesOf(u[i]) = <<sims[i][2], sims[i][1]>>
        BY <1>6, <1>10, <3>5, <4>1
      <4>3. l.cut \in Int
        BY <3>8, <3>9
      <4>4. PICK v, w : v = Text(l, "Scheduler", l.sched) /\ w = Text(l, "Workload", l.workload)
        OBVIOUS
      <4>5. NamesOf(l) = <<v, w>>
        BY <4>4 DEF NamesOf
      <4>6. CASE l.cut = 6
        <5>1. ~ Named(v)
          BY <3>8, <3>9, <4>3, <4>4, <4>6, NamesAre
        <5>2. Named(sims[i][2])
          BY <1>8, <4>1
        <5>3. v # sims[i][2]
          BY <5>1, <5>2
        <5>4. QED
          BY <4>2, <4>5, <5>3
      <4>7. CASE l.cut = 7
        <5>1. ~ Named(w)
          BY <3>8, <3>9, <4>3, <4>4, <4>7, NamesAre
        <5>2. Named(sims[i][1])
          BY <1>8, <4>1
        <5>3. w # sims[i][1]
          BY <5>1, <5>2
        <5>4. QED
          BY <4>2, <4>5, <5>3
      <4>8. CASE l.cut > 7
        <5>1. l.cut > 6
          BY <4>3, <4>8
        <5>2. v = sims[j][2] /\ w = sims[j][1]
          BY <3>8, <4>3, <4>4, <4>8, <5>1, NamesAre
        <5>3. sims[i] # sims[j]
          BY <1>11, <4>1
        <5>4. QED
          BY <1>8, <4>1, <4>2, <4>5, <5>2, <5>3
      <4>9. QED
        BY <3>8, <3>9, <4>6, <4>7, <4>8
    <3>12. \A i \in DOMAIN u : NamesOf(u[i]) # NamesOf(l)
      BY <3>5, <3>11
    <3>13. u \in Seq(ToSet(lines))
      BY <3>5
    <3>14. RowsApart(Append(u, l))
      BY <3>4, <3>10, <3>12, <3>13, OneMoreApart
    <3>15. QED
      BY <3>1, <3>3, <3>14
  <2>3. QED
    BY <2>1, <2>2, BeginningIs
<1>14. QED
  BY <1>4, <1>12, <1>13

LEMMA FilesApartInit == Init => FilesApart
<1> SUFFICES ASSUME Init
             PROVE  FilesApart
  OBVIOUS
<1>1. ASSUME NEW d \in DOMAIN runs
      PROVE  RowsApart(Metrics(d))
  <2>1. runs[d] = NoArtifacts
    BY DEF Init
  <2>2. Metrics(d) = << >>
    BY <2>1 DEF NoArtifacts, Metrics
  <2>3. RowsApart(<< >>)
    BY DEF RowsApart, ToSet
  <2>4. QED
    BY <2>2, <2>3
<1>2. QED
  BY <1>1 DEF FilesApart

LEMMA FilesApartStep == RunsShape /\ Control /\ FilesApart /\ [Next]_vars => FilesApart'
<1> SUFFICES ASSUME RunsShape, Control, FilesApart, [Next]_vars
             PROVE  FilesApart'
  OBVIOUS
<1>1. RowsApart(<< >>)
  BY DEF RowsApart, ToSet
<1>2. \A d \in DOMAIN runs : RowsApart(Metrics(d))
  BY DEF FilesApart
<1>3. ASSUME NEW case, NEW metrics, NEW tasks, Executed(case, metrics, tasks),
             metrics = None \/ RowsApart(metrics)
      PROVE  FilesApart'
  <2>1. PICK e : e = <<suite, case.run>>
    OBVIOUS
  <2>2. /\ DOMAIN runs' = DOMAIN runs
        /\ \A d \in DOMAIN runs : d # e => runs'[d] = runs[d]
        /\ e \in DOMAIN runs =>
             runs'[e] = [[runs[e] EXCEPT !.metrics = metrics] EXCEPT !.tasks = tasks]
    BY <1>3, <2>1 DEF Executed
  <2>3. e \in DOMAIN runs =>
          runs'[e] = [metrics |-> metrics, tasks |-> tasks, manifest |-> runs[e].manifest]
    BY <2>2 DEF RunsShape
  <2>4. ASSUME NEW d \in DOMAIN runs
        PROVE  RowsApart(Metrics(d))'
    <3>1. CASE d = e
      <4>1. runs'[d].metrics = metrics
        BY <2>3, <3>1
      <4>2. PICK m : m = Metrics(d)'
        OBVIOUS
      <4>3. m = << >> \/ (m = metrics /\ metrics # None)
        BY <4>1, <4>2 DEF Metrics
      <4>4. RowsApart(m)
        BY <1>1, <1>3, <4>3
      <4>5. QED
        BY <4>2, <4>4 DEF RowsApart, NamesOf
    <3>2. CASE d # e
      <4>1. Metrics(d)' = Metrics(d)
        BY <2>2, <3>2 DEF Metrics
      <4>2. QED
        BY <1>2, <4>1 DEF RowsApart, NamesOf
    <3>3. QED
      BY <3>1, <3>2
  <2>5. QED
    BY <2>2, <2>4 DEF FilesApart
<1>4. CASE RunCase
  <2>1. PICK case : case = Plan[cursor]
    OBVIOUS
  <2>2. CaseOfPlan(case) /\ SimsApart(case)
    BY <1>4, <2>1, NextCase DEF RunCase
  <2>3. Executed(case, MetricsLines(suite, gen, case), TaskLines(suite, gen, case))
    BY <1>4, <2>1 DEF RunCase
  <2>4. RowsApart(MetricsLines(suite, gen, case))
    BY <2>2, MetricsLinesApart
  <2>5. QED
    BY <1>3, <2>3, <2>4
<1>5. CASE BreakCase
  <2>1. PICK case, metrics, tasks :
          /\ CaseOfPlan(case) /\ SimsApart(case) /\ <<suite, case.run>> \in DOMAIN runs
          /\ Executed(case, metrics, tasks)
          /\ \/ metrics \in {runs[<<suite, case.run>>].metrics, << >>}
             \/ metrics \in Beginnings(MetricsLines(suite, gen, case))
    BY <1>5, BreakCaseIs
  <2>2. CASE metrics \in {runs[<<suite, case.run>>].metrics, << >>}
    <3>1. metrics = None \/ RowsApart(metrics)
      BY <1>1, <1>2, <2>1, <2>2 DEF Metrics
    <3>2. QED
      BY <1>3, <2>1, <3>1
  <2>3. CASE metrics \in Beginnings(MetricsLines(suite, gen, case))
    <3>1. RowsApart(metrics)
      BY <2>1, <2>3, MetricsLinesApart
    <3>2. QED
      BY <1>3, <2>1, <3>1
  <2>4. QED
    BY <2>1, <2>2, <2>3
<1>6. CASE ~ RunCase /\ ~ BreakCase
  <2>1. /\ DOMAIN runs' = DOMAIN runs
        /\ \A d \in DOMAIN runs : runs'[d].metrics \in {runs[d].metrics, None}
    <3>1. CASE Clean
      <4>1. /\ DOMAIN runs' = DOMAIN runs
            /\ \A d \in DOMAIN runs : runs'[d] = NoArtifacts \/ runs'[d] = runs[d]
        BY <3>1 DEF Clean
      <4>2. QED
        BY <4>1 DEF NoArtifacts
    <3>2. CASE KillClean
      BY <3>2, KillCleanIs
    <3>3. CASE GenerateManifest
      <4>1. PICK dir, m : runs' = runs \/ runs' = [runs EXCEPT ![dir].manifest = m]
        BY <3>3 DEF GenerateManifest
      <4>2. CASE runs' = runs
        BY <4>2
      <4>3. CASE runs' = [runs EXCEPT ![dir].manifest = m]
        <5>1. /\ DOMAIN runs' = DOMAIN runs
              /\ \A d \in DOMAIN runs : d # dir => runs'[d] = runs[d]
              /\ dir \in DOMAIN runs => runs'[dir] = [runs[dir] EXCEPT !.manifest = m]
          BY <4>3
        <5>2. dir \in DOMAIN runs =>
                runs'[dir] = [metrics |-> runs[dir].metrics, tasks |-> runs[dir].tasks, manifest |-> m]
          BY <5>1 DEF RunsShape
        <5>3. QED
          BY <5>1, <5>2
      <4>4. QED
        BY <4>1, <4>2, <4>3
    <3>4. CASE ~ Clean /\ ~ KillClean /\ ~ GenerateManifest
      BY <1>6, <3>4 DEF Next, vars, Begin, EndOfCases, WriteSummary, EndOfRunner, BeginAggregate,
                WriteTable, EndOfAggregate, Export, Plot, Finish, BeginPublish, Publish,
                EndOfPublish, Kill, Idle, files
    <3>5. QED
      BY <3>1, <3>2, <3>3, <3>4
  <2>2. ASSUME NEW d \in DOMAIN runs
        PROVE  RowsApart(Metrics(d))'
    <3>1. PICK m : m = Metrics(d)'
      OBVIOUS
    <3>2. m \in {<< >>, Metrics(d)}
      BY <2>1, <3>1 DEF Metrics
    <3>3. RowsApart(m)
      BY <1>1, <1>2, <3>2
    <3>4. QED
      BY <3>1, <3>3 DEF RowsApart, NamesOf
  <2>3. QED
    BY <2>1, <2>2 DEF FilesApart
<1>7. QED
  BY <1>4, <1>5, <1>6

\* The paths are visited once.
LEMMA PathsOnce == Distinct(MetricsPaths) /\ Distinct(DataPaths)
<1>1. PICK s, X : s = RunOrder /\ X = ToSet(RunOrder)
  OBVIOUS
<1>2. s \in Seq(X)
  BY <1>1, RunOrderAssumption
<1>3. Distinct(s)
  BY <1>1, RunsAssumption DEF Distinct
<1> DEFINE T == {d \in X : runs[d].metrics # None}
           W == {d \in X : runs[d].metrics # << >>}
<1>4. MetricsPaths = FlattenSeq([i \in DOMAIN s |-> IF s[i] \in T THEN <<s[i]>> ELSE << >>])
  <2>1. \A i \in DOMAIN s : s[i] \in T <=> runs[s[i]].metrics # None
    BY <1>2
  <2>2. [i \in DOMAIN s |-> IF s[i] \in T THEN <<s[i]>> ELSE << >>]
        = [i \in DOMAIN s |-> IF runs[s[i]].metrics # None THEN <<s[i]>> ELSE << >>]
    BY <2>1, Zenon
  <2>3. QED
    BY <1>1, <2>2 DEF MetricsPaths, Filtered
<1> HIDE DEF T
<1>5. PICK u : u = MetricsPaths
  OBVIOUS
<1>6. u \in Seq(X) /\ Distinct(u)
  <2>1. u = FlattenSeq([i \in DOMAIN s |-> IF s[i] \in T THEN <<s[i]>> ELSE << >>])
    BY <1>4, <1>5
  <2>2. Distinct(u)
    BY <1>2, <1>3, <2>1, FilteredDistinct
  <2>3. u \in Seq(X)
    BY <1>1, <1>5, PathsAre
  <2>4. QED
    BY <2>2, <2>3
<1>7. DataPaths = FlattenSeq([i \in DOMAIN u |-> IF u[i] \in W THEN <<u[i]>> ELSE << >>])
  <2>1. \A i \in DOMAIN u : u[i] \in W <=> runs[u[i]].metrics # << >>
    BY <1>6
  <2>2. [i \in DOMAIN u |-> IF u[i] \in W THEN <<u[i]>> ELSE << >>]
        = [i \in DOMAIN u |-> IF runs[u[i]].metrics # << >> THEN <<u[i]>> ELSE << >>]
    BY <2>1, Zenon
  <2>3. QED
    BY <1>5, <2>2 DEF DataPaths, Filtered
<1> HIDE DEF W
<1>8. PICK v : v = DataPaths
  OBVIOUS
<1>9. Distinct(v)
  <2>1. u \in Seq(X) /\ Distinct(u)
    BY <1>6
  <2>2. v = FlattenSeq([i \in DOMAIN u |-> IF u[i] \in W THEN <<u[i]>> ELSE << >>])
    BY <1>7, <1>8
  <2>3. QED
    BY <2>1, <2>2, FilteredDistinct
<1>10. QED
  BY <1>5, <1>6, <1>8, <1>9

\* The lines the aggregation reads, in the order of the rows.
LinesRead == FlattenSeq([i \in DOMAIN DataPaths |-> runs[DataPaths[i]].metrics])

\* The names of a row in the report.
RowName(row) == <<row.suite, row.run, row.sched, row.workload>>

\* Row by row, the table is made of the lines; and its rows are told by names.
LEMMA RowsAre ==
  ASSUME LinesHere, FilesApart
  PROVE  /\ DOMAIN MetricsTable = DOMAIN LinesRead
         /\ \A j \in DOMAIN LinesRead :
              LineShape(LinesRead[j]) /\ \E e : MetricsTable[j] = Enriched(LinesRead[j], e)
         /\ \A i, j \in DOMAIN MetricsTable :
              RowName(MetricsTable[i]) = RowName(MetricsTable[j]) => i = j
<1>1. PICK s : s = DataPaths
  OBVIOUS
<1>2. s \in Seq(ToSet(RunOrder)) /\ Distinct(s)
      /\ ToSet(s) = {d \in ToSet(RunOrder) : runs[d].metrics \notin {None, << >>}}
  BY <1>1, PathsAre, PathsOnce
<1>3. PICK n \in Nat : n = Len(s)
  BY <1>2
<1>4. DOMAIN s = 1 .. n
  BY <1>2, <1>3
<1>5. PICK ls, t : ls = [i \in 1 .. n |-> runs[s[i]].metrics] /\ t = [i \in 1 .. n |-> EnrichedRows(s[i])]
  OBVIOUS
<1>6. LinesRead = FlattenSeq(ls) /\ MetricsTable = FlattenSeq(t)
  BY <1>1, <1>4, <1>5 DEF LinesRead, MetricsTable
<1>7. ASSUME NEW i \in 1 .. n
      PROVE  /\ s[i] \in DOMAIN runs /\ s[i] = <<s[i][1], s[i][2]>>
             /\ ls[i] = Metrics(s[i]) /\ ls[i] = runs[s[i]].metrics
             /\ ls[i] \in Seq(ToSet(ls[i]))
             /\ \A l \in ToSet(ls[i]) : l.suite = s[i][1] /\ l.run = s[i][2]
  <2>1. PICK d : d = s[i]
    OBVIOUS
  <2>2. d \in ToSet(RunOrder) /\ runs[d].metrics \notin {None, << >>}
    <3>1. d \in ToSet(s)
      BY <1>4, <2>1 DEF ToSet
    <3>2. QED
      BY <1>2, <3>1
  <2>3. d \in DOMAIN runs /\ d = <<d[1], d[2]>>
    BY <2>2, RunOrderAssumption DEF LinesHere
  <2>4. PICK lines, g : lines = runs[d].metrics /\ g = Generation(d)
    OBVIOUS
  <2>5. FilesOf(d, g)
    BY <2>3, <2>4, GenerationIs DEF LinesHere
  <2>6. LinesOf(lines, d, g) /\ lines = Metrics(d)
    BY <2>2, <2>4, <2>5 DEF FilesOf, Metrics
  <2>7. lines \in Seq(ToSet(lines)) /\ \A l \in ToSet(lines) : l.suite = d[1] /\ l.run = d[2]
    BY <2>6 DEF LinesOf
  <2>8. ls[i] = lines
    BY <1>5, <2>1, <2>4
  <2>9. QED
    BY <2>1, <2>3, <2>4, <2>6, <2>7, <2>8
<1>8. ASSUME NEW i \in 1 .. n
      PROVE  /\ Len(t[i]) = Len(ls[i]) /\ t[i] \in Seq(ToSet(t[i]))
             /\ \A k \in 1 .. Len(ls[i]) : t[i][k] = Enriched(ls[i][k], ExperimentIds(s[i]))
  <2>1. PICK lines, e : lines = ls[i] /\ e = ExperimentIds(s[i])
    OBVIOUS
  <2>2. PICK m \in Nat : m = Len(lines)
    BY <1>7, <2>1
  <2>3. DOMAIN lines = 1 .. m
    BY <1>7, <2>1, <2>2
  <2>4. PICK x : x = [k \in 1 .. m |-> Enriched(lines[k], e)]
    OBVIOUS
  <2>5. t[i] = x
    BY <1>5, <1>7, <2>1, <2>3, <2>4 DEF EnrichedRows
  <2>6. DOMAIN x = 1 .. m /\ \A k \in 1 .. m : x[k] = Enriched(lines[k], e)
    BY <2>4
  <2>7. \A k \in 1 .. m : x[k] \in ToSet(x)
    BY <2>6 DEF ToSet
  <2>8. x = [k \in 1 .. m |-> x[k]]
    BY <2>4
  <2>9. x \in Seq(ToSet(x)) /\ Len(x) = m
    BY <2>7, <2>8
  <2>10. QED
    BY <2>1, <2>2, <2>5, <2>6, <2>9
<1>9. PICK X, Y : X = UNION {ToSet(ls[i]) : i \in 1 .. n} /\ Y = UNION {ToSet(t[i]) : i \in 1 .. n}
  OBVIOUS
<1>10. ls \in Seq(Seq(X)) /\ Len(ls) = n
  <2>1. ASSUME NEW i \in 1 .. n
        PROVE  ls[i] \in Seq(X)
    <3>1. PICK x : x = ls[i]
      OBVIOUS
    <3>2. x \in Seq(ToSet(x)) /\ ToSet(x) \subseteq X
      BY <1>7, <1>9, <3>1
    <3>3. QED
      BY <3>1, <3>2
  <2>2. QED
    BY <1>5, <2>1
<1>11. t \in Seq(Seq(Y)) /\ Len(t) = n
  <2>1. ASSUME NEW i \in 1 .. n
        PROVE  t[i] \in Seq(Y)
    <3>1. PICK x : x = t[i]
      OBVIOUS
    <3>2. x \in Seq(ToSet(x)) /\ ToSet(x) \subseteq Y
      BY <1>8, <1>9, <3>1
    <3>3. QED
      BY <3>1, <3>2
  <2>2. QED
    BY <1>5, <2>1
<1>12. Places(t) = Places(ls)
  <2>1. \A i \in 1 .. n : Len(t[i]) = Len(ls[i])
    BY <1>8
  <2>2. [i \in 1 .. n |-> [k \in 1 .. Len(t[i]) |-> <<i, k>>]]
        = [i \in 1 .. n |-> [k \in 1 .. Len(ls[i]) |-> <<i, k>>]]
    BY <2>1, Zenon
  <2>3. QED
    BY <1>10, <1>11, <2>2 DEF Places
<1>13. PICK p : p = FlattenSeq(Places(ls))
  OBVIOUS
<1>14. /\ p \in Seq(Nat \X Nat) /\ Distinct(p) /\ Len(p) = Len(FlattenSeq(ls))
       /\ ToSet(p) = {x \in Nat \X Nat : x[1] \in 1 .. Len(ls) /\ x[2] \in 1 .. Len(ls[x[1]])}
       /\ \A j \in 1 .. Len(p) : FlattenSeq(ls)[j] = ls[p[j][1]][p[j][2]]
  <2>1. ls \in Seq(Seq(X))
    BY <1>10
  <2>2. QED
    BY <1>13, <2>1, FlattenPlaces
<1>15. p = FlattenSeq(Places(t))
  BY <1>12, <1>13
<1>16. /\ Len(p) = Len(FlattenSeq(t))
       /\ \A j \in 1 .. Len(p) : FlattenSeq(t)[j] = t[p[j][1]][p[j][2]]
  <2>1. t \in Seq(Seq(Y))
    BY <1>11
  <2>2. QED
    BY <1>15, <2>1, FlattenPlaces
<1>17. PICK N \in Nat : N = Len(p)
  BY <1>14
<1>18. DOMAIN LinesRead = 1 .. N
  <2>1. FlattenSeq(ls) \in Seq(X)
    BY <1>10, FlattenType
  <2>2. QED
    BY <1>6, <1>14, <1>17, <2>1
<1>19. DOMAIN MetricsTable = 1 .. N
  <2>1. FlattenSeq(t) \in Seq(Y)
    BY <1>11, FlattenType
  <2>2. QED
    BY <1>6, <1>16, <1>17, <2>1
<1>20. ASSUME NEW j \in 1 .. N
       PROVE  \E a \in 1 .. n : \E b \in 1 .. Len(ls[a]) :
                /\ p[j] = <<a, b>> /\ LinesRead[j] = ls[a][b]
                /\ MetricsTable[j] = Enriched(ls[a][b], ExperimentIds(s[a]))
  <2>1. p[j] \in ToSet(p)
    BY <1>14, <1>17 DEF ToSet
  <2>2. PICK a, b : a = p[j][1] /\ b = p[j][2]
    OBVIOUS
  <2>3. a \in 1 .. n /\ b \in 1 .. Len(ls[a]) /\ p[j] = <<a, b>>
    BY <1>10, <1>14, <2>1, <2>2
  <2>4. LinesRead[j] = ls[a][b] /\ MetricsTable[j] = t[a][b]
    BY <1>6, <1>14, <1>16, <1>17, <2>2
  <2>5. MetricsTable[j] = Enriched(ls[a][b], ExperimentIds(s[a]))
    BY <1>8, <2>3, <2>4
  <2>6. QED
    BY <2>3, <2>4, <2>5
<1>21. ASSUME NEW a \in 1 .. n
       PROVE  RowsApart(ls[a]) /\ DOMAIN ls[a] = 1 .. Len(ls[a])
  <2>1. RowsApart(Metrics(s[a]))
    BY <1>7 DEF FilesApart
  <2>2. QED
    BY <1>7, <2>1
<1>22. ASSUME NEW j \in 1 .. N
       PROVE  LineShape(LinesRead[j]) /\ \E e : MetricsTable[j] = Enriched(LinesRead[j], e)
  <2>1. PICK a \in 1 .. n : \E b \in 1 .. Len(ls[a]) :
                /\ p[j] = <<a, b>> /\ LinesRead[j] = ls[a][b]
                /\ MetricsTable[j] = Enriched(ls[a][b], ExperimentIds(s[a]))
    BY <1>20
  <2>2. PICK b \in 1 .. Len(ls[a]) :
                /\ LinesRead[j] = ls[a][b]
                /\ MetricsTable[j] = Enriched(ls[a][b], ExperimentIds(s[a]))
    BY <2>1
  <2>3. ls[a][b] \in ToSet(ls[a])
    BY <1>21 DEF ToSet
  <2>4. LineShape(ls[a][b])
    BY <1>21, <2>3 DEF RowsApart
  <2>5. QED
    BY <2>2, <2>4
<1>23. ASSUME NEW i \in 1 .. N, NEW j \in 1 .. N, RowName(MetricsTable[i]) = RowName(MetricsTable[j])
       PROVE  i = j
  <2>1. PICK a \in 1 .. n : \E b \in 1 .. Len(ls[a]) :
                /\ p[i] = <<a, b>> /\ LinesRead[i] = ls[a][b]
                /\ MetricsTable[i] = Enriched(ls[a][b], ExperimentIds(s[a]))
    BY <1>20
  <2>2. PICK b \in 1 .. Len(ls[a]) :
                /\ p[i] = <<a, b>> /\ MetricsTable[i] = Enriched(ls[a][b], ExperimentIds(s[a]))
    BY <2>1
  <2>3. PICK c \in 1 .. n : \E d \in 1 .. Len(ls[c]) :
                /\ p[j] = <<c, d>> /\ LinesRead[j] = ls[c][d]
                /\ MetricsTable[j] = Enriched(ls[c][d], ExperimentIds(s[c]))
    BY <1>20
  <2>4. PICK d \in 1 .. Len(ls[c]) :
                /\ p[j] = <<c, d>> /\ MetricsTable[j] = Enriched(ls[c][d], ExperimentIds(s[c]))
    BY <2>3
  <2>5. PICK l, m : l = ls[a][b] /\ m = ls[c][d]
    OBVIOUS
  <2>6. PICK v, w, x, y : /\ v = Text(l, "Scheduler", l.sched) /\ w = Text(l, "Workload", l.workload)
                         /\ x = Text(m, "Scheduler", m.sched) /\ y = Text(m, "Workload", m.workload)
    OBVIOUS
  <2>7. /\ RowName(MetricsTable[i]) = <<l.suite, l.run, v, w>>
        /\ RowName(MetricsTable[j]) = <<m.suite, m.run, x, y>>
    BY <2>2, <2>4, <2>5, <2>6 DEF RowName, Enriched
  <2>8. l.suite = m.suite /\ l.run = m.run /\ v = x /\ w = y
    <3>1. PICK a1, a2, b1, b2 : /\ a1 = l.suite /\ a2 = l.run
                                /\ b1 = m.suite /\ b2 = m.run
      OBVIOUS
    <3>2. <<a1, a2, v, w>> = <<b1, b2, x, y>>
      BY <1>23, <2>7, <3>1, Zenon
    <3>3. QED
      BY <3>1, <3>2
  <2>9. NamesOf(l) = NamesOf(m)
    BY <2>6, <2>8 DEF NamesOf
  <2>10. l \in ToSet(ls[a]) /\ m \in ToSet(ls[c])
    BY <1>21, <2>5 DEF ToSet
  <2>11. s[a] = s[c]
    <3>1. PICK e, f : e = s[a] /\ f = s[c]
      OBVIOUS
    <3>2. l.suite = e[1] /\ l.run = e[2] /\ m.suite = f[1] /\ m.run = f[2]
      BY <1>7, <2>10, <3>1
    <3>3. e = <<e[1], e[2]>> /\ f = <<f[1], f[2]>>
      BY <1>7, <3>1
    <3>4. QED
      BY <2>8, <3>1, <3>2, <3>3
  <2>12. a = c
    BY <1>2, <1>4, <2>11 DEF Distinct
  <2>13. b = d
    BY <1>21, <2>5, <2>9, <2>12 DEF RowsApart
  <2>14. p[i] = p[j]
    BY <2>2, <2>4, <2>12, <2>13
  <2>15. QED
    BY <1>14, <1>17, <2>14 DEF Distinct
<1>24. QED
  BY <1>18, <1>19, <1>22, <1>23

\* An issue carries the names of its row.
LEMMA IssuesAre ==
  ASSUME NEW line, NEW row
  PROVE  /\ \A q \in MissingCells(line, row) : q.type = "missing_cell" /\ RowName(q) = RowName(row)
         /\ \A q \in LowCompletion(row) : q.type = "low_completion_ratio" /\ RowName(q) = RowName(row)
         /\ \A q \in InvalidLogScale(row) :
              q.type = "invalid_log_scale_candidate" /\ RowName(q) = RowName(row)
<1>1. ASSUME NEW type, NEW severity, NEW metric
      PROVE  /\ Issue(type, severity, row, metric).type = type
             /\ RowName(Issue(type, severity, row, metric)) = RowName(row)
  BY DEF Issue, RowName
<1>2. \A q \in MissingCells(line, row) : \E metric : q = Issue("missing_cell", "ERROR", row, metric)
  BY DEF MissingCells
<1>3. \A q \in LowCompletion(row) : \E severity : q = Issue("low_completion_ratio", severity, row, "CompletionRatio")
  BY DEF LowCompletion
<1>4. \A q \in InvalidLogScale(row) :
        \E metric : q = Issue("invalid_log_scale_candidate", "WARN", row, metric)
  BY DEF InvalidLogScale
<1>5. \A q \in MissingCells(line, row) : q.type = "missing_cell" /\ RowName(q) = RowName(row)
  BY <1>1, <1>2
<1>6. \A q \in LowCompletion(row) : q.type = "low_completion_ratio" /\ RowName(q) = RowName(row)
  BY <1>1, <1>3
<1>7. \A q \in InvalidLogScale(row) :
        q.type = "invalid_log_scale_candidate" /\ RowName(q) = RowName(row)
  BY <1>1, <1>4
<1>8. QED
  BY <1>5, <1>6, <1>7

\* A row that got few of its tasks completed is reported once.
LEMMA LowCompletionIs ==
  ASSUME NEW row, row.permille \in Nat
  PROVE  Cardinality(LowCompletion(row)) = IF row.permille < 100 THEN 1 ELSE 0
<1>1. CASE row.permille < 100
  <2>1. \E q : LowCompletion(row) = {q}
    BY <1>1 DEF LowCompletion
  <2>2. QED
    BY <1>1, <2>1, FS_Singleton
<1>2. CASE ~ (row.permille < 100)
  <2>1. LowCompletion(row) = {}
    BY <1>2 DEF LowCompletion
  <2>2. QED
    BY <1>2, <2>1, FS_EmptySet
<1>3. QED
  BY <1>1, <1>2

\* No row is taken for a duplicate.
LEMMA NoDuplicates ==
  ASSUME LinesHere, FilesApart
  PROVE  Duplicates(MetricsTable) = {}
<1>1. PICK t : t = MetricsTable
  OBVIOUS
<1>2. ASSUME NEW i \in DOMAIN t, NEW j \in DOMAIN t, ConfigKey(t[j]) = ConfigKey(t[i])
      PROVE  j = i
  <2>1. RowName(t[i]) = RowName(t[j])
    BY <1>2 DEF ConfigKey, RowName
  <2>2. QED
    BY <1>1, <2>1, RowsAre
<1>3. Duplicates(t) = {}
  BY <1>2 DEF Duplicates
<1>4. QED
  BY <1>1, <1>3

\* The issues of a row are those found on its line and on it.
LEMMA IssuesOfRow ==
  ASSUME LinesHere, FilesApart, NEW i \in DOMAIN MetricsTable,
         NEW Q, Q = {q \in QualityTable : RowName(q) = RowName(MetricsTable[i])}
  PROVE  /\ {q \in Q : q.type = "missing_cell"} = MissingCells(LinesRead[i], MetricsTable[i])
         /\ {q \in Q : q.type = "low_completion_ratio"} = LowCompletion(MetricsTable[i])
         /\ {q \in Q : q.type = "duplicate_config"} = {}
<1>1. PICK t, ls : t = MetricsTable /\ ls = LinesRead
  OBVIOUS
<1> DEFINE Found(k) == MissingCells(ls[k], t[k]) \cup LowCompletion(t[k]) \cup InvalidLogScale(t[k])
<1>2. QualityTable = UNION {Found(k) : k \in DOMAIN t}
  <2>1. DOMAIN t = DOMAIN ls
    BY <1>1, RowsAre
  <2>2. QualityTable = UNION {Found(k) : k \in DOMAIN ls} \cup Duplicates(t)
    BY <1>1 DEF QualityTable, LinesRead
  <2>3. QED
    BY <1>1, <2>1, <2>2, NoDuplicates
<1>3. ASSUME NEW k \in DOMAIN t
      PROVE  \A q \in Found(k) : RowName(q) = RowName(t[k])
  BY IssuesAre
<1> HIDE DEF Found
<1>4. Q = Found(i)
  <2>1. ASSUME NEW q \in Found(i)
        PROVE  q \in Q
    BY <1>1, <1>2, <1>3
  <2>2. ASSUME NEW q \in Q
        PROVE  q \in Found(i)
    <3>1. PICK k \in DOMAIN t : q \in Found(k)
      BY <1>2
    <3>2. RowName(t[k]) = RowName(t[i])
      BY <1>1, <1>3, <3>1
    <3>3. k = i
      BY <1>1, <3>2, RowsAre
    <3>4. QED
      BY <3>1, <3>3
  <2>3. QED
    BY <2>1, <2>2
<1>5. Q = MissingCells(ls[i], t[i]) \cup LowCompletion(t[i]) \cup InvalidLogScale(t[i])
  BY <1>4 DEF Found
<1>6. /\ \A q \in MissingCells(ls[i], t[i]) : q.type = "missing_cell"
      /\ \A q \in LowCompletion(t[i]) : q.type = "low_completion_ratio"
      /\ \A q \in InvalidLogScale(t[i]) : q.type = "invalid_log_scale_candidate"
  BY IssuesAre
<1>7. /\ {q \in Q : q.type = "missing_cell"} = MissingCells(ls[i], t[i])
      /\ {q \in Q : q.type = "low_completion_ratio"} = LowCompletion(t[i])
      /\ {q \in Q : q.type = "duplicate_config"} = {}
  BY <1>5, <1>6
<1>8. QED
  BY <1>1, <1>7

LEMMA CutLinesNoticed ==
  Control /\ OneExecution /\ TableState /\ FilesApart => QualityFlagged
<1> SUFFICES ASSUME Control, OneExecution, TableState, FilesApart,
                    pc = "aggregate", Canonical \subseteq fresh
             PROVE  QualityFlagged
  BY DEF QualityFlagged
<1>1. LinesHere
  BY DEF LinesHere, Control
<1>2. tables["metrics"] = MetricsTable /\ tables["quality"] = QualityTable
  <2>1. "metrics" \in fresh /\ "quality" \in fresh
    BY DEF Canonical
  <2>2. QED
    BY <2>1 DEF TableState, AsWritten, Contents
<1> DEFINE IssuesOf(i, type) ==
             {q \in tables["quality"] :
                /\ q.type = type /\ q.suite = tables["metrics"][i].suite
                /\ q.run = tables["metrics"][i].run
                /\ q.sched = tables["metrics"][i].sched
                /\ q.workload = tables["metrics"][i].workload}
<1>3. ASSUME NEW i \in DOMAIN tables["metrics"]
      PROVE  /\ IssuesOf(i, "missing_cell") # {} <=>
                  \/ LinesRead[i].cut < Len(Columns)
                  \/ LinesRead[i].cut = Len(Columns) /\ LinesRead[i].edge # "part"
             /\ Cardinality(IssuesOf(i, "low_completion_ratio")) =
                  IF tables["metrics"][i].permille < 100 THEN 1 ELSE 0
             /\ IssuesOf(i, "duplicate_config") = {}
  <2>1. PICK r, line, T : r = MetricsTable[i] /\ line = LinesRead[i] /\ T = QualityTable
    OBVIOUS
  <2>2. PICK Q : Q = {q \in QualityTable : RowName(q) = RowName(MetricsTable[i])}
    OBVIOUS
  <2>3. \A q : RowName(q) = RowName(r) <=> /\ q.suite = r.suite /\ q.run = r.run
                                           /\ q.sched = r.sched /\ q.workload = r.workload
    BY DEF RowName
  <2>4. Q = {q \in T : RowName(q) = RowName(r)}
    BY <2>1, <2>2
  <2>5. ASSUME NEW type
        PROVE  IssuesOf(i, type) = {q \in Q : q.type = type}
    <3>1. IssuesOf(i, type) = {q \in T : /\ q.type = type /\ q.suite = r.suite /\ q.run = r.run
                                         /\ q.sched = r.sched /\ q.workload = r.workload}
      BY <1>2, <2>1
    <3>2. QED
      BY <2>3, <2>4, <3>1
  <2>6. i \in DOMAIN MetricsTable
    BY <1>2
  <2>7. /\ {q \in Q : q.type = "missing_cell"} = MissingCells(line, r)
        /\ {q \in Q : q.type = "low_completion_ratio"} = LowCompletion(r)
        /\ {q \in Q : q.type = "duplicate_config"} = {}
    BY <1>1, <2>1, <2>2, <2>6, IssuesOfRow
  <2>8. LineShape(line) /\ \E e : r = Enriched(line, e)
    BY <1>1, <2>1, <2>6, RowsAre
  <2>9. r.permille \in Nat
    BY <2>8, PermilleIs
  <2>10. IssuesOf(i, "missing_cell") # {} <=>
           line.cut < Len(Columns) \/ (line.cut = Len(Columns) /\ line.edge # "part")
    BY <2>5, <2>7, <2>8, MissingIffCut
  <2>11. Cardinality(IssuesOf(i, "low_completion_ratio")) = IF r.permille < 100 THEN 1 ELSE 0
    BY <2>5, <2>7, <2>9, LowCompletionIs
  <2>12. IssuesOf(i, "duplicate_config") = {}
    BY <2>5, <2>7
  <2>13. QED
    BY <1>2, <2>1, <2>10, <2>11, <2>12
<1>4. QED
  BY <1>3, ZenonT(60) DEF QualityFlagged, LinesRead

\* A line that a killed simulator left unfinished is noticed, whatever was
\* executed, cut short, failed or killed before; no row is a duplicate.
THEOREM CutLinesFlagged == Spec => []QualityFlagged
<1>1. IInv => RunsShape
  BY DEF IInv
<1>2. QED
  BY InitIInv, NextIInv, ControlInit, ControlStep, OneExecutionInit, OneExecutionStep,
     TableStateInit, TableStateStep, FilesApartInit, FilesApartStep, CutLinesNoticed, <1>1, PTL
     DEF Spec

-----------------------------------------------------------------------------
(* The report of run_full_analysis.sh *)

Ok(n) == [k \in 1 .. n |-> Status(Plan[k], "ok")]

\* In the directories of the suite is what the first n cases of the plan wrote,
\* and nothing else.
Sound(n) ==
  \A d \in DOMAIN runs : d[1] = suite =>
    /\ \A k \in 1 .. n : d[2] = Plan[k].run =>
         /\ runs[d].metrics = MetricsLines(suite, gen, Plan[k])
         /\ runs[d].tasks = TaskLines(suite, gen, Plan[k])
    /\ (\A k \in 1 .. n : d[2] # Plan[k].run) => runs[d].metrics = None /\ runs[d].tasks = None

Failed == \E i \in DOMAIN statuses : statuses[i].status = "failed"

Whole == statuses = Ok(Len(Plan)) /\ Sound(Len(Plan))

\* Who runs when.
Phase ==
  /\ pc \in {"idle", "publish"} => ~ full
  /\ pc \in {"export", "plot", "done"} => full
  /\ pc \in {"idle", "clean"} => cursor = 1 /\ statuses = << >>
  /\ gen \in 0 .. MaxGen /\ DOMAIN summaries = Suites
  /\ full => /\ suite \in Suites /\ Plan \in Plans[suite] /\ gen \in 1 .. MaxGen
             /\ pc # "clean" => suite \notin uncleaned

\* How far the execution of run_full_analysis.sh has got.
Progress ==
  full =>
    /\ pc = "cases" => /\ cursor <= Len(Plan) + 1
                       /\ statuses = Ok(cursor - 1) /\ Sound(cursor - 1)
    /\ pc \in {"summary", "manifests"} => Failed \/ Whole
    /\ pc \in {"aggregate", "export", "plot", "done"} => Whole
    /\ pc \in {"manifests", "aggregate", "export", "plot", "done"} => summaries[suite] = statuses

LEMMA PhaseInit == Init => Phase /\ Progress
<1> SUFFICES ASSUME Init
             PROVE  Phase /\ Progress
  OBVIOUS
<1>1. /\ pc = "idle" /\ full = FALSE /\ cursor = 1 /\ statuses = << >> /\ gen = 0
      /\ DOMAIN summaries = Suites
  BY DEF Init
<1>2. QED
  BY <1>1, MaxGenAssumption DEF Phase, Progress

LEMMA PhaseStep == Phase /\ Control /\ [Next]_vars => Phase'
<1> SUFFICES ASSUME Phase, Control, [Next]_vars
             PROVE  Phase'
  OBVIOUS
<1>1. CASE Begin
  <2>1. PICK s \in Suites : \E plan \in Plans[s], f \in BOOLEAN :
          /\ suite' = s /\ full' = f /\ spec' = [spec EXCEPT ![s] = plan]
          /\ pc' = (IF f THEN "clean" ELSE "cases")
    BY <1>1 DEF Begin
  <2>2. PICK plan \in Plans[s], f \in BOOLEAN :
          /\ suite' = s /\ full' = f /\ spec' = [spec EXCEPT ![s] = plan]
          /\ pc' = (IF f THEN "clean" ELSE "cases")
    BY <2>1
  <2>3. spec'[s] = plan
    BY <2>2 DEF Control
  <2>4. Plan' = plan
    BY <2>2, <2>3 DEF Plan
  <2>5. /\ gen' = gen + 1 /\ gen < MaxGen /\ pc = "idle"
        /\ cursor' = cursor /\ statuses' = statuses /\ summaries' = summaries
    BY <1>1 DEF Begin, files
  <2>6. gen' \in 1 .. MaxGen
    BY <2>5, MaxGenAssumption DEF Phase
  <2>7. QED
    BY <2>2, <2>4, <2>5, <2>6 DEF Phase
<1>2. CASE EndCommand /\ ~ Begin
  <2>1. /\ pc' = "idle" /\ full' = FALSE /\ statuses' = << >> /\ cursor' = 1
    BY <1>2 DEF EndCommand
  <2>2. gen' = gen /\ DOMAIN summaries' = DOMAIN summaries
    BY <1>2 DEF Next, vars, Clean, RunCase, BreakCase, GenerateManifest, EndOfCases,
                WriteSummary, EndOfRunner, BeginAggregate, WriteTable, EndOfAggregate,
                Export, Plot, Finish, BeginPublish, Publish, EndOfPublish, Kill, KillClean, Idle, files, ghosts
  <2>3. QED
    BY <2>1, <2>2 DEF Phase
<1>3. CASE ~ EndCommand /\ ~ Begin
  <2>1. full' = full /\ suite' = suite /\ spec' = spec /\ gen' = gen
    BY <1>3 DEF Next, vars, Clean, RunCase, BreakCase, GenerateManifest, EndOfCases,
                WriteSummary, EndOfRunner, BeginAggregate, WriteTable, EndOfAggregate,
                Export, Plot, Finish, BeginPublish, Publish, EndOfPublish, Kill, KillClean, Idle
  <2>2. Plan' = Plan
    BY <2>1 DEF Plan
  <2>3. DOMAIN summaries' = DOMAIN summaries
    BY <1>3 DEF Next, vars, Clean, RunCase, BreakCase, GenerateManifest, EndOfCases,
                WriteSummary, EndOfRunner, BeginAggregate, WriteTable, EndOfAggregate,
                Export, Plot, Finish, BeginPublish, Publish, EndOfPublish, Kill, KillClean, Idle, files
  <2>4. /\ pc' \in {"idle", "publish"} => pc \in {"idle", "publish"}
        /\ pc' \in {"export", "plot", "done"} => full
        /\ pc' \in {"idle", "clean"} => pc = pc' /\ cursor' = cursor /\ statuses' = statuses
        /\ uncleaned' = uncleaned \/ (pc = "clean" /\ uncleaned' = uncleaned \ {suite})
        /\ pc = "clean" /\ pc' # "clean" => uncleaned' = uncleaned \ {suite}
    BY <1>3 DEF Next, vars, Clean, RunCase, BreakCase, GenerateManifest, EndOfCases,
                WriteSummary, EndOfRunner, BeginAggregate, WriteTable, EndOfAggregate,
                Export, Plot, Finish, BeginPublish, Publish, EndOfPublish, Kill, KillClean, Idle, files, ghosts, Phase
  <2>5. QED
    BY <2>1, <2>2, <2>3, <2>4 DEF Phase
<1>4. QED
  BY <1>1, <1>2, <1>3

\* A step that leaves the files of the suite alone.
LEMMA SoundKept ==
  ASSUME NEW n, Sound(n), Plan' = Plan, suite' = suite, gen' = gen, DOMAIN runs' = DOMAIN runs,
         \A d \in DOMAIN runs : runs'[d].metrics = runs[d].metrics /\ runs'[d].tasks = runs[d].tasks
  PROVE  Sound(n)'
BY DEF Sound

LEMMA WholeKept ==
  ASSUME Whole, Plan' = Plan, suite' = suite, gen' = gen, statuses' = statuses,
         DOMAIN runs' = DOMAIN runs,
         \A d \in DOMAIN runs : runs'[d].metrics = runs[d].metrics /\ runs'[d].tasks = runs[d].tasks
  PROVE  Whole'
<1>1. PICK n : n = Len(Plan)
  OBVIOUS
<1>2. Sound(n)'
  BY <1>1, SoundKept DEF Whole
<1>3. statuses' = [k \in 1 .. n |-> Status(Plan'[k], "ok")]
  BY <1>1 DEF Whole, Ok
<1>4. Len(Plan)' = n
  BY <1>1
<1>5. Sound(Len(Plan))'
  BY <1>2, <1>4 DEF Sound
<1>6. QED
  BY <1>3, <1>4, <1>5 DEF Whole, Ok

\* The suite's directories are distinct, and those of its cases exist.
LEMMA PlanFacts ==
  ASSUME Phase, Control, full
  PROVE  /\ Plan \in Seq(ToSet(Plan)) /\ Len(Plan) \in Nat /\ DOMAIN Plan = 1 .. Len(Plan)
         /\ Len(Plan) > 0
         /\ \A d \in DOMAIN runs : d = <<d[1], d[2]>>
         /\ \A i, j \in 1 .. Len(Plan) : Plan[i].run = Plan[j].run => i = j
         /\ \A k \in 1 .. Len(Plan) : /\ <<suite, Plan[k].run>> \in DOMAIN runs
                                      /\ Plan[k] \in ToSet(Plan)
                                      /\ CaseOfPlan(Plan[k]) /\ SimsApart(Plan[k])
                                      /\ Plan[k].experiments # {} /\ Plan[k].sims # << >>
                                      /\ \A sim \in ToSet(Plan[k].sims) :
                                           Result[sim].tasks = << >> => Result[sim].metrics.permille = 0
<1>1. PICK plan : plan = Plan
  OBVIOUS
<1>2. suite \in Suites /\ plan \in Plans[suite] /\ DOMAIN runs = ToSet(RunOrder)
  BY <1>1 DEF Phase, Control
<1>3. plan \in Seq(ToSet(plan))
  BY <1>2, PlansAssumption
<1>4. Len(plan) \in Nat /\ DOMAIN plan = 1 .. Len(plan)
  BY <1>3
<1>5. plan # << >> /\ \A i, j \in DOMAIN plan : plan[i].run = plan[j].run => i = j
  BY <1>2, RunsAssumption
<1>6. Len(plan) > 0
  BY <1>3, <1>4, <1>5
<1>7. \A d \in DOMAIN runs : d = <<d[1], d[2]>>
  BY <1>2, RunOrderAssumption
<1>8. ASSUME NEW k \in 1 .. Len(plan)
      PROVE  /\ <<suite, plan[k].run>> \in DOMAIN runs
             /\ plan[k] \in ToSet(plan)
             /\ CaseOfPlan(plan[k]) /\ SimsApart(plan[k])
             /\ plan[k].experiments # {} /\ plan[k].sims # << >>
             /\ \A sim \in ToSet(plan[k].sims) :
                  Result[sim].tasks = << >> => Result[sim].metrics.permille = 0
  <2>1. PICK case : case = plan[k]
    OBVIOUS
  <2>2. case \in ToSet(plan)
    BY <1>4, <2>1 DEF ToSet
  <2>3. CaseOfPlan(case)
    BY <1>2, <2>2, PlansAssumption DEF CaseOfPlan
  <2>4. SimsApart(case)
    BY <1>2, <2>2, RunsAssumption DEF SimsApart
  <2>5. /\ <<suite, case.run>> \in DOMAIN runs
        /\ case.experiments # {} /\ case.sims # << >>
        /\ \A sim \in ToSet(case.sims) :
             Result[sim].tasks = << >> => Result[sim].metrics.permille = 0
    BY <1>2, <2>2, RunsAssumption
  <2>6. QED
    BY <2>1, <2>2, <2>3, <2>4, <2>5
<1>9. QED
  BY <1>1, <1>3, <1>4, <1>5, <1>6, <1>7, <1>8

\* One more case has been executed.
LEMMA RunCaseProgress ==
  ASSUME RunsShape, Control, Phase, Progress, full, RunCase
  PROVE  Progress'
<1>1. PICK plan, n : plan = Plan /\ n = cursor
  OBVIOUS
<1>2. n \in 1 .. Len(plan) /\ n \in Nat /\ Len(plan) \in Nat
  BY <1>1, PlanFacts DEF RunCase, Control
<1>3. PICK case, e : case = plan[n] /\ e = <<suite, case.run>>
  OBVIOUS
<1>4. /\ suite' = suite /\ gen' = gen /\ Plan' = plan /\ pc' = "cases" /\ cursor' = n + 1
      /\ statuses' = Append(statuses, Status(case, "ok"))
      /\ Executed(case, MetricsLines(suite, gen, case), TaskLines(suite, gen, case))
  BY <1>1, <1>3 DEF RunCase, Plan
<1>5. PICK metrics, tasks : metrics = MetricsLines(suite, gen, case) /\ tasks = TaskLines(suite, gen, case)
  OBVIOUS
<1>6. e \in DOMAIN runs
  BY <1>1, <1>2, <1>3, PlanFacts
<1>7. /\ DOMAIN runs' = DOMAIN runs
      /\ \A d \in DOMAIN runs : d # e => runs'[d] = runs[d]
      /\ runs'[e] = [[runs[e] EXCEPT !.metrics = metrics] EXCEPT !.tasks = tasks]
  BY <1>3, <1>4, <1>5, <1>6 DEF Executed
<1>8. runs'[e].metrics = metrics /\ runs'[e].tasks = tasks
  <2>1. runs'[e] = [metrics |-> metrics, tasks |-> tasks, manifest |-> runs[e].manifest]
    BY <1>6, <1>7 DEF RunsShape
  <2>2. QED
    BY <2>1
<1>9. pc = "cases" /\ statuses = Ok(n - 1) /\ Sound(n - 1)
  BY <1>1 DEF RunCase, Progress
<1>10. \A k \in 1 .. n - 1 : plan[k].run # case.run
  BY <1>1, <1>2, <1>3, PlanFacts
<1>11. ASSUME NEW d \in DOMAIN runs, d[1] = suite
       PROVE  /\ \A k \in 1 .. n : d[2] = plan[k].run =>
                   /\ runs'[d].metrics = MetricsLines(suite, gen, plan[k])
                   /\ runs'[d].tasks = TaskLines(suite, gen, plan[k])
              /\ (\A k \in 1 .. n : d[2] # plan[k].run) =>
                   runs'[d].metrics = None /\ runs'[d].tasks = None
  <2>1. d = <<suite, d[2]>>
    BY <1>11, PlanFacts
  <2>2. CASE d = e
    <3>1. d[2] = case.run
      BY <1>3, <2>2
    <3>2. \A k \in 1 .. n : d[2] = plan[k].run => plan[k] = case
      BY <1>2, <1>3, <1>10, <3>1
    <3>3. n \in 1 .. n /\ d[2] = plan[n].run
      BY <1>2, <1>3, <3>1
    <3>4. QED
      BY <1>5, <1>8, <2>2, <3>2, <3>3
  <2>3. CASE d # e
    <3>1. d[2] # case.run /\ runs'[d] = runs[d]
      BY <1>3, <1>7, <2>1, <2>3
    <3>2. /\ \A k \in 1 .. n - 1 : d[2] = plan[k].run =>
                   /\ runs[d].metrics = MetricsLines(suite, gen, plan[k])
                   /\ runs[d].tasks = TaskLines(suite, gen, plan[k])
          /\ (\A k \in 1 .. n - 1 : d[2] # plan[k].run) =>
                   runs[d].metrics = None /\ runs[d].tasks = None
      BY <1>1, <1>9, <1>11 DEF Sound
    <3>3. \A k \in 1 .. n : d[2] = plan[k].run => k \in 1 .. n - 1
      BY <1>2, <1>3, <3>1
    <3>4. \A k \in 1 .. n - 1 : k \in 1 .. n
      BY <1>2
    <3>5. QED
      BY <3>1, <3>2, <3>3, <3>4
  <2>4. QED
    BY <2>2, <2>3
<1>12. Sound(n)'
  BY <1>4, <1>7, <1>11 DEF Sound
<1>13. statuses' = [k \in 1 .. n |-> Status(plan[k], "ok")]
  <2>1. PICK s, x : s = statuses /\ x = Status(case, "ok")
    OBVIOUS
  <2>2. s = [k \in 1 .. n - 1 |-> Status(plan[k], "ok")]
    BY <1>1, <1>9, <2>1 DEF Ok
  <2>3. PICK f : f = [k \in 1 .. n |-> Status(plan[k], "ok")]
    OBVIOUS
  <2>4. s = [k \in 1 .. n - 1 |-> f[k]] /\ x = f[n]
    BY <1>2, <1>3, <2>1, <2>2, <2>3
  <2>5. PICK X : \A k \in 1 .. n : f[k] \in X
    <3>1. \A k \in 1 .. n : f[k] \in {f[j] : j \in 1 .. n}
      OBVIOUS
    <3>2. QED
      BY <3>1
  <2>6. s \in Seq(X) /\ Len(s) = n - 1
    BY <1>2, <2>4, <2>5
  <2>7. /\ DOMAIN Append(s, x) = 1 .. n
        /\ \A k \in 1 .. n : Append(s, x)[k] = f[k]
    BY <1>2, <2>4, <2>6
  <2>8. Append(s, x) = f
    <3>1. Append(s, x) = [k \in 1 .. n |-> Append(s, x)[k]]
      <4>1. PICK u : u = Append(s, x)
        OBVIOUS
      <4>2. x \in X
        BY <1>2, <2>4, <2>5
      <4>3. u \in Seq(X) /\ Len(u) = n
        BY <1>2, <2>6, <4>1, <4>2
      <4>4. u = [k \in 1 .. n |-> u[k]]
        BY <4>3
      <4>5. QED
        BY <4>1, <4>4
    <3>2. f = [k \in 1 .. n |-> f[k]]
      BY <2>3
    <3>3. QED
      BY <2>7, <3>1, <3>2, Zenon
  <2>9. QED
    BY <1>4, <2>1, <2>3, <2>8
<1>14. statuses' = Ok(n)'
  BY <1>4, <1>13 DEF Ok
<1>15. (cursor - 1)' = n /\ cursor' <= Len(Plan)' + 1
  BY <1>2, <1>4
<1>16. (statuses = Ok(cursor - 1) /\ Sound(cursor - 1))'
  BY <1>12, <1>14, <1>15 DEF Ok, Sound
<1>17. QED
  BY <1>4, <1>15, <1>16 DEF Progress

LEMMA ProgressStep == RunsShape /\ Control /\ Phase /\ Progress /\ [Next]_vars => Progress'
<1> SUFFICES ASSUME RunsShape, Control, Phase, Progress, [Next]_vars
             PROVE  Progress'
  OBVIOUS
<1>1. CASE ~ full'
  BY <1>1 DEF Progress
<1>2. CASE Begin /\ full'
  <2>1. pc' = "clean"
    BY <1>2 DEF Begin
  <2>2. QED
    BY <2>1 DEF Progress
<1>3. CASE full' /\ ~ Begin
  <2>1. full /\ ~ EndCommand
    BY <1>3 DEF EndCommand, Next, vars, Clean, RunCase, BreakCase, GenerateManifest, EndOfCases,
                WriteSummary, EndOfRunner, BeginAggregate, WriteTable, EndOfAggregate,
                Export, Plot, Finish, BeginPublish, Publish, EndOfPublish, Kill, KillClean, Idle
  <2>2. suite' = suite /\ spec' = spec /\ gen' = gen
    BY <1>3, <2>1 DEF Next, vars, Clean, RunCase, BreakCase, GenerateManifest, EndOfCases,
                WriteSummary, EndOfRunner, BeginAggregate, WriteTable, EndOfAggregate,
                Export, Plot, Finish, BeginPublish, Publish, EndOfPublish, Kill, KillClean, Idle
  <2>3. Plan' = Plan
    BY <2>2 DEF Plan
  <2>4. Len(Plan) \in Nat /\ DOMAIN runs = ToSet(RunOrder) /\ cursor \in Nat \ {0}
    BY <2>1, PlanFacts DEF Control
  <2>5. CASE Clean
    <3>1. /\ pc' = "cases" /\ cursor' = 1 /\ statuses' = << >>
          /\ runs' = [d \in DOMAIN runs |-> IF d[1] = suite THEN NoArtifacts ELSE runs[d]]
      BY <2>5 DEF Clean, Phase
    <3>2. Sound(0)'
      BY <2>2, <2>3, <3>1 DEF Sound, NoArtifacts
    <3>3. << >> = Ok(0)'
      BY DEF Ok
    <3>4. cursor' - 1 = 0
      BY <3>1
    <3>5. (cursor <= Len(Plan) + 1 /\ statuses = Ok(cursor - 1) /\ Sound(cursor - 1))'
      BY <2>3, <2>4, <3>1, <3>2, <3>3, <3>4 DEF Ok, Sound
    <3>6. QED
      BY <3>1, <3>5 DEF Progress
  <2>6. CASE RunCase
    BY <2>1, <2>6, RunCaseProgress
  <2>7. CASE BreakCase
    <3>1. /\ pc = "cases" /\ cursor <= Len(Plan) /\ pc' = "summary"
          /\ statuses' = Append(statuses, Status(Plan[cursor], "failed"))
      BY <2>1, <2>7 DEF BreakCase
    <3>2. PICK n \in Nat : n = cursor - 1
      BY <2>4
    <3>3. PICK s, x : s = statuses /\ x = Status(Plan[cursor], "failed")
      OBVIOUS
    <3>4. s = [k \in 1 .. n |-> Status(Plan[k], "ok")]
      BY <2>1, <3>1, <3>2, <3>3 DEF Progress, Ok
    <3>5. PICK X : x \in X /\ \A k \in 1 .. n : Status(Plan[k], "ok") \in X
      <4>1. PICK X : X = {x} \cup {Status(Plan[k], "ok") : k \in 1 .. n}
        OBVIOUS
      <4>2. QED
        BY <4>1
    <3>6. s \in Seq(X) /\ x \in X
      BY <3>4, <3>5
    <3>7. PICK u : u = Append(s, x)
      OBVIOUS
    <3>8. n + 1 \in DOMAIN u /\ u[n + 1] = x
      <4>1. Len(s) = n
        BY <3>4
      <4>2. QED
        BY <3>6, <3>7, <4>1
    <3>9. x.status = "failed"
      BY <3>3 DEF Status
    <3>10. statuses' = u
      BY <3>1, <3>3, <3>7
    <3>11. Failed'
      BY <3>8, <3>9, <3>10 DEF Failed
    <3>12. QED
      BY <3>1, <3>11 DEF Progress
  <2>8. CASE ~ (Clean \/ RunCase \/ BreakCase)
    <3>1. /\ DOMAIN runs' = DOMAIN runs
          /\ \A d \in DOMAIN runs : runs'[d].metrics = runs[d].metrics /\ runs'[d].tasks = runs[d].tasks
      <4>1. CASE GenerateManifest
        <5>1. PICK dir, m : runs' = runs \/ runs' = [runs EXCEPT ![dir].manifest = m]
          BY <4>1 DEF GenerateManifest
        <5>2. CASE runs' = runs
          BY <5>2
        <5>3. CASE runs' = [runs EXCEPT ![dir].manifest = m]
          <6>1. /\ DOMAIN runs' = DOMAIN runs
                /\ \A d \in DOMAIN runs : d # dir => runs'[d] = runs[d]
                /\ dir \in DOMAIN runs => runs'[dir] = [runs[dir] EXCEPT !.manifest = m]
            BY <5>3
          <6>2. dir \in DOMAIN runs =>
                  runs'[dir] = [metrics |-> runs[dir].metrics, tasks |-> runs[dir].tasks, manifest |-> m]
            BY <6>1 DEF RunsShape
          <6>3. QED
            BY <6>1, <6>2
        <5>4. QED
          BY <5>1, <5>2, <5>3
      <4>2. CASE ~ GenerateManifest
        <5>1. runs' = runs
          BY <1>3, <2>1, <2>8, <4>2 DEF Next, vars, EndOfCases, WriteSummary, EndOfRunner, BeginAggregate,
                WriteTable, EndOfAggregate, Export, Plot, Finish, BeginPublish, Publish,
                EndOfPublish, Kill, KillClean, Idle, files
        <5>2. QED
          BY <5>1
      <4>3. QED
        BY <4>1, <4>2
    <3>2. statuses' = statuses
      BY <1>3, <2>1, <2>8 DEF Next, vars, GenerateManifest, EndOfCases, WriteSummary, EndOfRunner,
                BeginAggregate, WriteTable, EndOfAggregate, Export, Plot, Finish, BeginPublish, Publish,
                EndOfPublish, Kill, KillClean, Idle
    <3>3. Whole => Whole'
      BY <2>2, <2>3, <3>1, <3>2, WholeKept
    <3>4. Failed' <=> Failed
      BY <3>2 DEF Failed
    <3>5. CASE EndOfCases
      <4>1. pc = "cases" /\ cursor > Len(Plan) /\ pc' = "summary"
        BY <3>5 DEF EndOfCases
      <4>2. PICK n : n = Len(Plan)
        OBVIOUS
      <4>3. cursor - 1 = n /\ statuses = Ok(cursor - 1) /\ Sound(cursor - 1)
        BY <2>1, <2>4, <4>1, <4>2 DEF Progress
      <4>4. Whole
        BY <4>2, <4>3 DEF Whole
      <4>5. QED
        BY <3>3, <4>1, <4>4 DEF Progress
    <3>6. CASE WriteSummary
      <4>1. pc = "summary" /\ pc' = "manifests" /\ summaries'[suite] = statuses
        BY <2>1, <3>6 DEF WriteSummary, Phase
      <4>2. QED
        BY <2>1, <2>2, <3>2, <3>3, <3>4, <4>1 DEF Progress
    <3>7. CASE EndOfRunner
      <4>1. pc = "manifests" /\ pc' = "aggregate" /\ ~ Failed /\ summaries' = summaries
        BY <2>1, <3>7 DEF EndOfRunner, Failed, files
      <4>2. QED
        BY <2>1, <2>2, <3>2, <3>3, <4>1 DEF Progress
    <3>8. CASE GenerateManifest
      <4>1. pc = "manifests" /\ pc' = pc /\ summaries' = summaries
        BY <3>8 DEF GenerateManifest
      <4>2. QED
        BY <2>1, <2>2, <3>2, <3>3, <3>4, <4>1 DEF Progress
    <3>9. CASE ~ (EndOfCases \/ WriteSummary \/ EndOfRunner \/ GenerateManifest) /\ ~ UNCHANGED vars
      <4>1. /\ pc \in {"aggregate", "export", "plot", "done"}
            /\ pc' \in {"aggregate", "export", "plot", "done"} /\ summaries' = summaries
        BY <1>3, <2>1, <2>8, <3>9 DEF Next, BeginAggregate, WriteTable, EndOfAggregate, Export, Plot,
                Finish, BeginPublish, Publish, EndOfPublish, Kill, KillClean, Idle, files, Phase
      <4>2. QED
        BY <2>1, <2>2, <3>2, <3>3, <4>1 DEF Progress
    <3>10. CASE UNCHANGED vars
      <4>1. pc' = pc /\ summaries' = summaries /\ cursor' = cursor /\ runs' = runs
        BY <3>10 DEF vars
      <4>2. \A n : statuses = Ok(n) => statuses' = Ok(n)'
        BY <2>3, <3>2 DEF Ok
      <4>3. \A n : Sound(n) => Sound(n)'
        BY <2>2, <2>3, <4>1 DEF Sound
      <4>4. PICK c : c = cursor - 1
        OBVIOUS
      <4>5. pc = "cases" => cursor <= Len(Plan) + 1 /\ statuses = Ok(c) /\ Sound(c)
        BY <2>1, <4>4 DEF Progress
      <4>6. pc' = "cases" => cursor' <= Len(Plan)' + 1 /\ statuses' = Ok(c)' /\ Sound(c)'
        BY <2>3, <4>1, <4>2, <4>3, <4>5
      <4>7. cursor' - 1 = c
        BY <4>1, <4>4
      <4>8. pc' = "cases" => (cursor <= Len(Plan) + 1 /\ statuses = Ok(cursor - 1) /\ Sound(cursor - 1))'
        BY <4>6, <4>7 DEF Ok, Sound
      <4>9. QED
        BY <2>1, <2>2, <3>2, <3>3, <3>4, <4>1, <4>8 DEF Progress
    <3>11. QED
      BY <3>5, <3>6, <3>7, <3>8, <3>9, <3>10
  <2>9. QED
    BY <2>5, <2>6, <2>7, <2>8
<1>4. QED
  BY <1>1, <1>2, <1>3

\* What the aggregation has written, and what comes after it.
Reporting ==
  /\ pc = "aggregate" =>
       \A k \in 1 .. 7 : k < cursor /\ Written(TableOrder[k]) => TableOrder[k] \in fresh
  /\ pc \in {"export", "plot", "done"} =>
       AsWritten /\ \A t \in ToSet(TableOrder) : Written(t) => t \in fresh
  /\ pc \in {"plot", "done"} => tables["summary"] = SummaryTable(tables["metrics"])
  /\ pc \notin {"publish", "done"} => drawn = << >>
  /\ pc = "done" => \A exp \in DOMAIN drawn : drawn[exp] = FigureRows(exp)

LEMMA ReportingInit == Init => Reporting
<1> SUFFICES ASSUME Init
             PROVE  Reporting
  OBVIOUS
<1>1. pc = "idle" /\ drawn = << >>
  BY DEF Init
<1>2. QED
  BY <1>1 DEF Reporting

\* Between the aggregation and the end no table but the summary changes.
LEMMA WrittenKept ==
  ASSUME runs' = runs, summaries' = summaries, spec' = spec, fresh' = fresh,
         \A t \in fresh : tables'[t] = tables[t]
  PROVE  /\ AsWritten => AsWritten'
         /\ (\A t \in ToSet(TableOrder) : Written(t) => t \in fresh) =>
              (\A t \in ToSet(TableOrder) : Written(t) => t \in fresh)'
         /\ \A t : Written(t)' <=> Written(t)
<1>1. ASSUME NEW t
      PROVE  Contents(t)' = Contents(t)
  BY ContentsSame
<1>2. ASSUME NEW t
      PROVE  Written(t)' <=> Written(t)
  BY <1>1 DEF Written
<1>3. ASSUME AsWritten
      PROVE  AsWritten'
  <2>1. \A t \in fresh' : tables'[t] = Contents(t)'
    BY <1>1, <1>3 DEF AsWritten
  <2>2. QED
    BY <2>1 DEF AsWritten
<1>4. QED
  BY <1>2, <1>3

LEMMA ReportingStep == Control /\ Phase /\ TableState /\ Reporting /\ [Next]_vars => Reporting'
<1> SUFFICES ASSUME Control, Phase, TableState, Reporting, [Next]_vars
             PROVE  Reporting'
  OBVIOUS
<1>1. CASE WriteTable
  <2>1. pc = "aggregate" /\ pc' = "aggregate" /\ cursor' = cursor + 1 /\ drawn' = drawn
    BY <1>1 DEF WriteTable
  <2>2. runs' = runs /\ summaries' = summaries /\ spec' = spec
    BY <1>1 DEF WriteTable
  <2>3. PICK c : c = cursor
    OBVIOUS
  <2>4. c \in 1 .. 7
    BY <1>1, <2>3, TableNames DEF WriteTable, Control
  <2>5. /\ Written(TableOrder[c]) => fresh' = fresh \cup {TableOrder[c]}
        /\ ~ Written(TableOrder[c]) => fresh' = fresh
    BY <1>1, <2>3 DEF WriteTable
  <2>6. ASSUME NEW t
        PROVE  Written(t)' <=> Written(t)
    <3>1. Contents(t)' = Contents(t)
      BY <2>2, ContentsSame
    <3>2. QED
      BY <3>1 DEF Written
  <2>7. \A k \in 1 .. 7 : k < c + 1 => k = c \/ k < c
    BY <2>4
  <2>8. \A k \in 1 .. 7 : k < c /\ Written(TableOrder[k]) => TableOrder[k] \in fresh
    BY <2>1, <2>3 DEF Reporting
  <2>9. \A k \in 1 .. 7 : k < c + 1 /\ Written(TableOrder[k]) => TableOrder[k] \in fresh'
    BY <2>5, <2>7, <2>8
  <2>10. \A k \in 1 .. 7 : k < cursor' /\ Written(TableOrder[k])' => TableOrder[k] \in fresh'
    BY <2>1, <2>3, <2>6, <2>9
  <2>11. drawn' = << >>
    BY <2>1 DEF Reporting
  <2>12. QED
    BY <2>1, <2>10, <2>11 DEF Reporting
<1>2. CASE EndOfAggregate
  <2>1. /\ pc = "aggregate" /\ cursor > 7 /\ drawn = << >> /\ drawn' = << >>
        /\ pc' \in {"idle", "export"}
    BY <1>2, TableNames DEF EndOfAggregate, EndCommand, Reporting
  <2>2. CASE pc' = "idle"
    BY <2>1, <2>2 DEF Reporting
  <2>3. CASE pc' = "export"
    <3>1. runs' = runs /\ summaries' = summaries /\ spec' = spec /\ tables' = tables /\ fresh' = fresh
      BY <1>2 DEF EndOfAggregate, files, ghosts
    <3>2. ASSUME NEW t \in ToSet(TableOrder), Written(t)
          PROVE  t \in fresh
      <4>1. PICK k \in 1 .. 7 : t = TableOrder[k]
        BY TableNames DEF ToSet, TableOrder
      <4>2. k < cursor
        BY <2>1 DEF Control
      <4>3. QED
        BY <2>1, <3>2, <4>1, <4>2 DEF Reporting
    <3>3. AsWritten
      BY <2>1 DEF TableState
    <3>4. AsWritten' /\ (\A t \in ToSet(TableOrder) : Written(t) => t \in fresh)'
      BY <3>1, <3>2, <3>3, WrittenKept
    <3>5. QED
      BY <2>1, <2>3, <3>4 DEF Reporting
  <2>4. QED
    BY <2>1, <2>2, <2>3
<1>3. CASE Export
  <2>1. /\ pc = "export" /\ pc' = "plot" /\ drawn' = drawn /\ fresh' = fresh
        /\ runs' = runs /\ summaries' = summaries /\ spec' = spec
        /\ tables' = [tables EXCEPT !["summary"] = SummaryTable(tables["metrics"])]
    BY <1>3 DEF Export, ghosts
  <2>2. "summary" \notin fresh /\ "summary" \in DOMAIN tables
    BY TableNames DEF Control
  <2>3. \A t \in fresh : tables'[t] = tables[t]
    BY <2>1, <2>2
  <2>4. AsWritten' /\ (\A t \in ToSet(TableOrder) : Written(t) => t \in fresh)'
    BY <2>1, <2>3, WrittenKept DEF Reporting
  <2>5. PICK s : s = SummaryTable(tables["metrics"])
    OBVIOUS
  <2>6. tables' = [tables EXCEPT !["summary"] = s]
    BY <2>1, <2>5
  <2>7. tables'["metrics"] = tables["metrics"] /\ tables'["summary"] = s
    BY <2>2, <2>6
  <2>8. tables'["summary"] = SummaryTable(tables'["metrics"])
    BY <2>5, <2>7
  <2>9. drawn' = << >>
    BY <2>1 DEF Reporting
  <2>10. QED
    BY <2>1, <2>4, <2>8, <2>9 DEF Reporting
<1>4. CASE Plot
  <2>1. /\ pc = "plot" /\ pc' = "done" /\ fresh' = fresh /\ tables' = tables /\ suite' = suite
        /\ runs' = runs /\ summaries' = summaries /\ spec' = spec
        /\ \/ drawn' = drawn
           \/ drawn' = [exp \in {e \in Experiments : FigureRows(e) # << >>} |-> FigureRows(exp)]
    BY <1>4 DEF Plot, files, ghosts
  <2>2. AsWritten' /\ (\A t \in ToSet(TableOrder) : Written(t) => t \in fresh)'
    BY <2>1, WrittenKept DEF Reporting
  <2>3. tables'["summary"] = SummaryTable(tables'["metrics"])
    BY <2>1 DEF Reporting
  <2>4. ASSUME NEW exp \in DOMAIN drawn'
        PROVE  drawn'[exp] = FigureRows(exp)
    <3>1. CASE drawn' = drawn
      <4>1. drawn' = << >>
        BY <2>1, <3>1 DEF Reporting
      <4>2. QED
        BY <2>4, <4>1
    <3>2. CASE drawn' = [e \in {e \in Experiments : FigureRows(e) # << >>} |-> FigureRows(e)]
      BY <2>4, <3>2
    <3>3. QED
      BY <2>1, <3>1, <3>2
  <2>5. ASSUME NEW exp
        PROVE  FigureRows(exp)' = FigureRows(exp)
    <3>1. SuiteRows' = SuiteRows
      BY <2>1 DEF SuiteRows, Filtered
    <3>2. \A e : Subset(e)' = Subset(e)
      BY <3>1 DEF Subset, Filtered
    <3>3. QED
      BY <3>2 DEF FigureRows
  <2>6. \A exp \in DOMAIN drawn' : drawn'[exp] = FigureRows(exp)'
    BY <2>4, <2>5
  <2>7. QED
    BY <2>1, <2>2, <2>3, <2>6 DEF Reporting
<1>5. CASE UNCHANGED vars
  <2>1. /\ pc' = pc /\ cursor' = cursor /\ fresh' = fresh /\ tables' = tables /\ suite' = suite
        /\ runs' = runs /\ summaries' = summaries /\ spec' = spec /\ drawn' = drawn
    BY <1>5 DEF vars
  <2>2. /\ AsWritten => AsWritten'
        /\ (\A t \in ToSet(TableOrder) : Written(t) => t \in fresh) =>
              (\A t \in ToSet(TableOrder) : Written(t) => t \in fresh)'
        /\ \A t : Written(t)' <=> Written(t)
    BY <2>1, WrittenKept
  <2>3. ASSUME NEW exp
        PROVE  FigureRows(exp)' = FigureRows(exp)
    <3>1. SuiteRows' = SuiteRows
      BY <2>1 DEF SuiteRows, Filtered
    <3>2. \A e : Subset(e)' = Subset(e)
      BY <3>1 DEF Subset, Filtered
    <3>3. QED
      BY <3>2 DEF FigureRows
  <2>4. pc' = "aggregate" =>
          \A k \in 1 .. 7 : k < cursor' /\ Written(TableOrder[k])' => TableOrder[k] \in fresh'
    BY <2>1, <2>2 DEF Reporting
  <2>5. pc' \in {"export", "plot", "done"} =>
          AsWritten' /\ (\A t \in ToSet(TableOrder) : Written(t) => t \in fresh)'
    BY <2>1, <2>2 DEF Reporting
  <2>6. pc' = "done" => \A exp \in DOMAIN drawn' : drawn'[exp] = FigureRows(exp)'
    BY <2>1, <2>3 DEF Reporting
  <2>7. /\ pc' \in {"plot", "done"} => tables'["summary"] = SummaryTable(tables'["metrics"])
        /\ pc' \notin {"publish", "done"} => drawn' = << >>
    BY <2>1 DEF Reporting
  <2>8. QED
    BY <2>4, <2>5, <2>6, <2>7 DEF Reporting
<1>6. CASE ~ (WriteTable \/ EndOfAggregate \/ Export \/ Plot \/ UNCHANGED vars)
  <2>1. /\ pc' \notin {"export", "plot", "done"}
        /\ pc' = "aggregate" => cursor' = 1
        /\ pc' # "publish" => drawn' = << >>
    BY <1>6 DEF Next, Begin, Clean, RunCase, BreakCase, GenerateManifest, EndOfCases,
                WriteSummary, EndOfRunner, BeginAggregate, Finish, BeginPublish, Publish,
                EndOfPublish, Kill, KillClean, Idle, EndCommand, Control, Reporting
  <2>2. pc' = "aggregate" =>
          \A k \in 1 .. 7 : k < cursor' /\ Written(TableOrder[k])' => TableOrder[k] \in fresh'
    BY <2>1
  <2>3. QED
    BY <2>1, <2>2 DEF Reporting
<1>7. QED
  BY <1>1, <1>2, <1>3, <1>4, <1>5, <1>6

-----------------------------------------------------------------------------
(* Counting *)

LEMMA OneToOne ==
  ASSUME NEW S, IsFiniteSet(S), NEW T, NEW f \in [S -> T],
         \A a, b \in S : f[a] = f[b] => a = b, \A t \in T : \E s \in S : f[s] = t
  PROVE  IsFiniteSet(T) /\ Cardinality(T) = Cardinality(S)
<1>1. f \in Injection(S, T) /\ f \in Surjection(S, T)
  BY DEF Injection, IsInjective, Surjection
<1>2. ExistsBijection(S, T)
  BY <1>1 DEF ExistsBijection, Bijection
<1>3. QED
  BY <1>2, FS_Bijection

\* A sequence without repetition is as long as the set of its elements is large.
LEMMA LengthIsSize ==
  ASSUME NEW X, NEW s \in Seq(X), Distinct(s)
  PROVE  IsFiniteSet(ToSet(s)) /\ Cardinality(ToSet(s)) = Len(s)
<1>1. PICK m \in Nat : m = Len(s)
  OBVIOUS
<1>2. DOMAIN s = 1 .. m
  BY <1>1
<1>3. PICK T : T = ToSet(s)
  OBVIOUS
<1>4. T = {s[i] : i \in 1 .. m}
  BY <1>2, <1>3 DEF ToSet
<1>5. PICK f : f = [i \in 1 .. m |-> s[i]]
  OBVIOUS
<1>6. f \in [1 .. m -> T] /\ \A t \in T : \E i \in 1 .. m : f[i] = t
  BY <1>4, <1>5
<1>7. \A i, j \in 1 .. m : f[i] = f[j] => i = j
  BY <1>2, <1>5 DEF Distinct
<1>8. IsFiniteSet(1 .. m) /\ Cardinality(1 .. m) = m
  <2>1. 1 \in Int /\ m \in Int
    OBVIOUS
  <2>2. IsFiniteSet(1 .. m) /\ Cardinality(1 .. m) = IF 1 > m THEN 0 ELSE m - 1 + 1
    BY <2>1, FS_Interval
  <2>3. QED
    BY <2>2
<1>9. IsFiniteSet(T) /\ Cardinality(T) = Cardinality(1 .. m)
  BY <1>6, <1>7, <1>8, OneToOne
<1>10. QED
  BY <1>1, <1>3, <1>8, <1>9

\* Rows told by their keys are as many as these.
LEMMA KeyedRows ==
  ASSUME NEW S, IsFiniteSet(S), NEW R,
         \A r \in R : r.key \in S,
         \A k \in S : \E r \in R : r.key = k,
         \A r, q \in R : r.key = q.key => r = q
  PROVE  Cardinality(R) = Cardinality(S)
<1>1. PICK f : f = [k \in S |-> CHOOSE r \in R : r.key = k]
  OBVIOUS
<1>2. ASSUME NEW k \in S
      PROVE  f[k] \in R /\ f[k].key = k
  <2>1. f[k] = CHOOSE r \in R : r.key = k
    BY <1>1
  <2>2. \E r \in R : r.key = k
    OBVIOUS
  <2>3. QED
    BY <2>1, <2>2, Zenon
<1>3. f \in [S -> R]
  BY <1>1, <1>2
<1>4. \A a, b \in S : f[a] = f[b] => a = b
  BY <1>2
<1>5. \A r \in R : \E k \in S : f[k] = r
  BY <1>2
<1>6. QED
  BY <1>3, <1>4, <1>5, OneToOne

\* The elements of a concatenation of sequences of any elements.
LEMMA FlattenAny ==
  ASSUME NEW n \in Nat, NEW t, t = [i \in 1 .. n |-> t[i]],
         \A i \in 1 .. n : t[i] \in Seq(ToSet(t[i])),
         NEW u, u = FlattenSeq(t)
  PROVE  /\ u \in Seq(ToSet(u))
         /\ \A y : y \in ToSet(u) <=> \E i \in 1 .. n : y \in ToSet(t[i])
<1>1. PICK U : U = UNION {ToSet(t[i]) : i \in 1 .. n}
  OBVIOUS
<1>2. t \in Seq(Seq(U)) /\ Len(t) = n
  <2>1. ASSUME NEW i \in 1 .. n
        PROVE  t[i] \in Seq(U)
    <3>1. PICK x : x = t[i]
      OBVIOUS
    <3>2. x \in Seq(ToSet(x)) /\ ToSet(x) \subseteq U
      BY <1>1, <3>1
    <3>3. QED
      BY <3>1, <3>2
  <2>2. QED
    BY <2>1
<1>3. u \in Seq(U) /\ ToSet(u) = UNION {ToSet(t[i]) : i \in 1 .. Len(t)}
  BY <1>2, FlattenToSet
<1>4. ToSet(u) = U
  BY <1>1, <1>2, <1>3
<1>5. \A y : y \in U <=> \E i \in 1 .. n : y \in ToSet(t[i])
  BY <1>1
<1>6. QED
  BY <1>3, <1>4, <1>5

-----------------------------------------------------------------------------
(* What is in the tables *)

LEMMA DataPathIs ==
  ASSUME LinesHere, NEW d \in ToSet(DataPaths)
  PROVE  /\ d \in DOMAIN runs /\ d = <<d[1], d[2]>>
         /\ runs[d].metrics \in Seq(ToSet(runs[d].metrics))
         /\ Metrics(d) = runs[d].metrics
         /\ \A l \in ToSet(runs[d].metrics) : l.suite = d[1] /\ l.run = d[2] /\ l.gen = Generation(d)
<1>1. d \in ToSet(RunOrder) /\ runs[d].metrics \notin {None, << >>}
  BY PathsAre
<1>2. d \in DOMAIN runs /\ d = <<d[1], d[2]>>
  BY <1>1, RunOrderAssumption DEF LinesHere
<1>3. FilesOf(d, Generation(d))
  BY <1>2, GenerationIs DEF LinesHere
<1>4. LinesOf(Metrics(d), d, Generation(d)) /\ Metrics(d) = runs[d].metrics
  BY <1>1, <1>3 DEF FilesOf, Metrics
<1>5. QED
  BY <1>2, <1>4 DEF LinesOf

LEMMA EnrichedRowsAre ==
  ASSUME LinesHere, NEW d \in ToSet(DataPaths), NEW lines, lines = runs[d].metrics
  PROVE  /\ EnrichedRows(d) \in Seq(ToSet(EnrichedRows(d)))
         /\ Len(EnrichedRows(d)) = Len(lines) /\ DOMAIN lines = 1 .. Len(lines)
         /\ \A k \in 1 .. Len(lines) : EnrichedRows(d)[k] = Enriched(lines[k], ExperimentIds(d))
         /\ ToSet(EnrichedRows(d)) = {Enriched(lines[k], ExperimentIds(d)) : k \in 1 .. Len(lines)}
<1>1. lines \in Seq(ToSet(lines))
  BY DataPathIs
<1>2. PICK m \in Nat : m = Len(lines)
  BY <1>1
<1>3. DOMAIN lines = 1 .. m
  BY <1>1, <1>2
<1>4. PICK e, x : e = ExperimentIds(d) /\ x = [k \in 1 .. m |-> Enriched(lines[k], e)]
  OBVIOUS
<1>5. EnrichedRows(d) = x
  BY <1>3, <1>4 DEF EnrichedRows
<1>6. DOMAIN x = 1 .. m /\ \A k \in 1 .. m : x[k] = Enriched(lines[k], e)
  BY <1>4
<1>7. \A k \in 1 .. m : x[k] \in ToSet(x)
  BY <1>6 DEF ToSet
<1>8. x = [k \in 1 .. m |-> x[k]]
  BY <1>4
<1>9. x \in Seq(ToSet(x)) /\ Len(x) = m
  BY <1>7, <1>8
<1>10. ToSet(x) = {Enriched(lines[k], e) : k \in 1 .. m}
  BY <1>6 DEF ToSet
<1>11. QED
  BY <1>2, <1>3, <1>4, <1>5, <1>6, <1>9, <1>10

LEMMA MetricsRows ==
  ASSUME LinesHere
  PROVE  /\ MetricsTable \in Seq(ToSet(MetricsTable))
         /\ \A row : row \in ToSet(MetricsTable) <=>
                      \E d \in ToSet(DataPaths) : row \in ToSet(EnrichedRows(d))
<1>1. PICK s, X : s = DataPaths /\ X = ToSet(RunOrder)
  OBVIOUS
<1>2. s \in Seq(X)
  BY <1>1, PathsAre
<1>3. PICK n \in Nat : n = Len(s)
  BY <1>2
<1>4. DOMAIN s = 1 .. n /\ \A i \in 1 .. n : s[i] \in ToSet(s)
  BY <1>2, <1>3 DEF ToSet
<1>5. PICK t : t = [i \in 1 .. n |-> EnrichedRows(s[i])]
  OBVIOUS
<1>6. t = [i \in 1 .. n |-> t[i]] /\ \A i \in 1 .. n : t[i] = EnrichedRows(s[i])
  BY <1>5
<1>7. ASSUME NEW i \in 1 .. n
      PROVE  t[i] \in Seq(ToSet(t[i]))
  <2>1. PICK d, lines : d = s[i] /\ lines = runs[d].metrics
    OBVIOUS
  <2>2. d \in ToSet(DataPaths)
    BY <1>1, <1>4, <2>1
  <2>3. EnrichedRows(d) \in Seq(ToSet(EnrichedRows(d)))
    BY <2>1, <2>2, EnrichedRowsAre
  <2>4. t[i] = EnrichedRows(d)
    BY <1>6, <2>1
  <2>5. QED
    BY <2>3, <2>4
<1>8. PICK u : u = MetricsTable
  OBVIOUS
<1>9. u = FlattenSeq(t)
  BY <1>1, <1>4, <1>5, <1>8 DEF MetricsTable
<1>10. u \in Seq(ToSet(u)) /\ \A y : y \in ToSet(u) <=> \E i \in 1 .. n : y \in ToSet(t[i])
  <2>1. t = [i \in 1 .. n |-> t[i]]
    BY <1>6
  <2>2. QED
    BY <1>7, <1>9, <2>1, FlattenAny
<1>11. \A y : y \in ToSet(u) <=> \E d \in ToSet(s) : y \in ToSet(EnrichedRows(d))
  <2>1. \A d \in ToSet(s) : \E i \in 1 .. n : d = s[i]
    BY <1>4 DEF ToSet
  <2>2. QED
    BY <1>4, <1>6, <1>10, <2>1
<1>12. QED
  BY <1>1, <1>8, <1>10, <1>11

\* No row is there twice.
LEMMA MetricsDistinct ==
  ASSUME LinesHere, FilesApart
  PROVE  Distinct(MetricsTable)
<1>1. \A i, j \in DOMAIN MetricsTable : RowName(MetricsTable[i]) = RowName(MetricsTable[j]) => i = j
  BY RowsAre
<1>2. QED
  BY <1>1 DEF Distinct

\* Rows are told by their keys.
LEMMA MetricsApart ==
  ASSUME LinesHere, FilesApart, NEW r \in ToSet(MetricsTable), NEW q \in ToSet(MetricsTable),
         ConfigKey(r) = ConfigKey(q)
  PROVE  r = q
<1>1. PICK t : t = MetricsTable
  OBVIOUS
<1>2. PICK i \in DOMAIN t : r = t[i]
  BY <1>1 DEF ToSet
<1>3. PICK j \in DOMAIN t : q = t[j]
  BY <1>1 DEF ToSet
<1>4. RowName(t[i]) = RowName(t[j])
  BY <1>2, <1>3 DEF ConfigKey, RowName
<1>5. i = j
  BY <1>1, <1>4, RowsAre
<1>6. QED
  BY <1>2, <1>3, <1>5

LEMMA TaskRows ==
  ASSUME LinesHere
  PROVE  /\ AllTasks \in Seq(ToSet(AllTasks))
         /\ \A l : l \in ToSet(AllTasks) <=>
                    \E d \in DOMAIN runs : runs[d].tasks # None /\ l \in ToSet(runs[d].tasks)
<1>1. PICK r, X : r = RunOrder /\ X = ToSet(RunOrder)
  OBVIOUS
<1>2. r \in Seq(X)
  BY <1>1, RunOrderAssumption
<1> DEFINE T == {d \in X : runs[d].tasks # None}
<1>3. PICK s : s = FlattenSeq([i \in DOMAIN r |-> IF r[i] \in T THEN <<r[i]>> ELSE << >>])
  OBVIOUS
<1>4. AllTasks = FlattenSeq([i \in DOMAIN s |-> runs[s[i]].tasks])
  <2>1. \A i \in DOMAIN r : r[i] \in T <=> runs[r[i]].tasks # None
    BY <1>2
  <2>2. [i \in DOMAIN r |-> IF r[i] \in T THEN <<r[i]>> ELSE << >>]
        = [i \in DOMAIN r |-> IF runs[r[i]].tasks # None THEN <<r[i]>> ELSE << >>]
    BY <2>1, Zenon
  <2>3. QED
    BY <1>1, <1>3, <2>2 DEF AllTasks, Filtered
<1> HIDE DEF T
<1>5. s \in Seq(X) /\ ToSet(s) = ToSet(r) \cap T
  BY <1>2, <1>3, FilteredBy
<1>6. ToSet(s) = {d \in DOMAIN runs : runs[d].tasks # None}
  BY <1>1, <1>5 DEF T, LinesHere
<1>7. PICK n \in Nat : n = Len(s)
  BY <1>5
<1>8. DOMAIN s = 1 .. n /\ \A i \in 1 .. n : s[i] \in ToSet(s)
  BY <1>5, <1>7 DEF ToSet
<1>9. PICK t : t = [i \in 1 .. n |-> runs[s[i]].tasks]
  OBVIOUS
<1>10. t = [i \in 1 .. n |-> t[i]] /\ \A i \in 1 .. n : t[i] = runs[s[i]].tasks
  BY <1>9
<1>11. ASSUME NEW i \in 1 .. n
       PROVE  t[i] \in Seq(ToSet(t[i]))
  <2>1. PICK d, lines : d = s[i] /\ lines = runs[d].tasks
    OBVIOUS
  <2>2. d \in DOMAIN runs /\ lines # None
    BY <1>6, <1>8, <2>1
  <2>3. FilesOf(d, Generation(d))
    BY <2>2, GenerationIs DEF LinesHere
  <2>4. lines \in Seq(ToSet(lines))
    BY <2>1, <2>2, <2>3 DEF FilesOf, LinesOf, Tasks
  <2>5. t[i] = lines
    BY <1>10, <2>1
  <2>6. QED
    BY <2>4, <2>5
<1>12. PICK u : u = AllTasks
  OBVIOUS
<1>13. u = FlattenSeq(t)
  BY <1>4, <1>8, <1>9, <1>12
<1>14. u \in Seq(ToSet(u)) /\ \A y : y \in ToSet(u) <=> \E i \in 1 .. n : y \in ToSet(t[i])
  <2>1. t = [i \in 1 .. n |-> t[i]]
    BY <1>10
  <2>2. QED
    BY <1>11, <1>13, <2>1, FlattenAny
<1>15. \A y : y \in ToSet(u) <=> \E d \in ToSet(s) : y \in ToSet(runs[d].tasks)
  <2>1. \A d \in ToSet(s) : \E i \in 1 .. n : d = s[i]
    BY <1>8 DEF ToSet
  <2>2. QED
    BY <1>8, <1>10, <1>14, <2>1
<1>16. QED
  BY <1>6, <1>12, <1>14, <1>15

-----------------------------------------------------------------------------
(* The cases of the plan *)

\* What holds when the analysis of an execution without failures is made.
Ready ==
  /\ Control /\ OneExecution /\ FilesApart /\ ManifestDescribesMetrics /\ Phase
  /\ full /\ Whole /\ summaries[suite] = statuses /\ suite \notin uncleaned

Lines(k) == MetricsLines(suite, gen, Plan[k])

\* Their files.
LEMMA CaseFiles ==
  ASSUME Ready, NEW k \in 1 .. Len(Plan), NEW d, d = <<suite, Plan[k].run>>
  PROVE  /\ d \in DOMAIN runs
         /\ runs[d].metrics = Lines(k) /\ runs[d].tasks = TaskLines(suite, gen, Plan[k])
         /\ runs[d].metrics # None /\ runs[d].tasks # None
<1>1. Phase /\ Control /\ full
  BY DEF Ready
<1>2. d \in DOMAIN runs /\ d[1] = suite /\ d[2] = Plan[k].run
  BY <1>1, PlanFacts
<1>3. Sound(Len(Plan))
  BY DEF Ready, Whole
<1>4. runs[d].metrics = Lines(k) /\ runs[d].tasks = TaskLines(suite, gen, Plan[k])
  BY <1>2, <1>3 DEF Sound, Lines
<1>5. PICK case : case = Plan[k]
  OBVIOUS
<1>6. case \in ToSet(Plan)
  BY <1>1, <1>5, PlanFacts
<1>7. suite \in Suites /\ Plan \in Plans[suite] /\ gen \in 1 .. MaxGen
  BY <1>1 DEF Phase
<1>8. None # MetricsLines(suite, gen, case) /\ None # TaskLines(suite, gen, case)
  BY <1>6, <1>7, NoneAssumption
<1>9. QED
  BY <1>2, <1>4, <1>5, <1>8 DEF Lines

\* The lines of a case: one per simulation.
LEMMA CaseLines ==
  ASSUME Ready, NEW k \in 1 .. Len(Plan), NEW sims, sims = Plan[k].sims
  PROVE  /\ sims \in Seq(ToSet(sims)) /\ Len(sims) \in Nat /\ Len(sims) > 0
         /\ DOMAIN sims = 1 .. Len(sims)
         /\ Len(Lines(k)) = Len(sims) /\ DOMAIN Lines(k) = 1 .. Len(sims) /\ Lines(k) # << >>
         /\ \A i \in 1 .. Len(sims) :
              /\ Lines(k)[i].suite = suite /\ Lines(k)[i].run = Plan[k].run
              /\ Lines(k)[i].gen = gen /\ Lines(k)[i].config = Plan[k].config
              /\ Lines(k)[i].sched = sims[i][2] /\ Lines(k)[i].workload = sims[i][1]
              /\ Lines(k)[i].cut = 16 /\ Lines(k)[i].result = Result[sims[i]].metrics
<1>1. Phase /\ Control /\ full
  BY DEF Ready
<1>2. CaseOfPlan(Plan[k]) /\ Plan[k].sims # << >>
  BY <1>1, PlanFacts
<1>3. sims \in Seq(ToSet(sims)) /\ sims # << >>
  BY <1>2 DEF CaseOfPlan
<1>4. PICK n \in Nat : n = Len(sims)
  BY <1>3
<1>5. DOMAIN sims = 1 .. n /\ n > 0
  BY <1>3, <1>4
<1>6. PICK case : case = Plan[k]
  OBVIOUS
<1> DEFINE L(i) ==
     [suite |-> suite, run |-> case.run, gen |-> gen, config |-> case.config,
      workload |-> sims[i][1], sched |-> sims[i][2],
      result |-> Result[sims[i]].metrics, cut |-> WholeLine, edge |-> "gone"]
<1>7. PICK x : x = [i \in 1 .. n |-> L(i)]
  OBVIOUS
<1>8. Lines(k) = x
  BY <1>5, <1>6, <1>7 DEF Lines, MetricsLines
<1>9. DOMAIN x = 1 .. n /\ \A i \in 1 .. n : x[i] = L(i)
  BY <1>7
<1>10. Len(x) = n
  BY <1>7
<1>11. x # << >>
  BY <1>5, <1>10
<1>12. WholeLine = 16
  BY ColumnsAre
<1>13. \A i \in 1 .. n : /\ x[i].suite = suite /\ x[i].run = case.run
                         /\ x[i].gen = gen /\ x[i].config = case.config
                         /\ x[i].sched = sims[i][2] /\ x[i].workload = sims[i][1]
                         /\ x[i].cut = 16 /\ x[i].result = Result[sims[i]].metrics
  BY <1>9, <1>12
<1>14. QED
  BY <1>3, <1>4, <1>5, <1>6, <1>8, <1>9, <1>10, <1>11, <1>13

\* What the aggregation takes a case for.
LEMMA CaseRead ==
  ASSUME Ready, NEW k \in 1 .. Len(Plan), NEW d, d = <<suite, Plan[k].run>>
  PROVE  /\ d \in ToSet(DataPaths) /\ ExperimentIds(d) = Plan[k].experiments
         /\ RunSummary(d).rows = Len(Plan[k].sims)
<1>1. Phase /\ Control /\ full
  BY DEF Ready
<1>2. d \in DOMAIN runs /\ runs[d].metrics = Lines(k) /\ runs[d].metrics # None
  BY CaseFiles
<1>3. Lines(k) # << >> /\ Len(Lines(k)) = Len(Plan[k].sims)
  BY CaseLines
<1>4. d \in ToSet(DataPaths)
  BY <1>1, <1>2, <1>3, PathsAre DEF Control
<1>5. RunSummary(d).rows = Len(Plan[k].sims)
  <2>1. d[1] = suite
    OBVIOUS
  <2>2. runs[d].manifest # None => runs[d].manifest = Manifest(runs[d].metrics)
    BY <1>2, <2>1 DEF Ready, ManifestDescribesMetrics
  <2>3. RunSummary(d) = Manifest(runs[d].metrics)
    BY <2>2 DEF RunSummary
  <2>4. Manifest(runs[d].metrics).rows = Len(runs[d].metrics)
    BY DEF Manifest
  <2>5. QED
    BY <1>2, <1>3, <2>3, <2>4
<1>6. PICK n \in Nat : n = Len(Plan)
  BY <1>1, PlanFacts
<1>7. statuses = [j \in 1 .. n |-> Status(Plan[j], "ok")]
  BY <1>6 DEF Ready, Whole, Ok
<1>8. summaries[suite] = statuses /\ summaries[suite] # None
  <2>1. suite \in Suites /\ Plan \in Plans[suite]
    BY <1>1 DEF Phase
  <2>2. DOMAIN Plan = 1 .. n
    BY <1>1, <1>6, PlanFacts
  <2>3. None # [j \in DOMAIN Plan |-> Status(Plan[j], "ok")]
    BY <2>1, NoneAssumption
  <2>4. QED
    BY <1>7, <2>2, <2>3 DEF Ready
<1>9. Executions(d) = {c \in ToSet(statuses) : c.run = Plan[k].run}
  BY <1>8 DEF Executions
<1>10. ToSet(statuses) = {Status(Plan[j], "ok") : j \in 1 .. n}
  BY <1>7 DEF ToSet
<1>11. \A j \in 1 .. n : /\ Status(Plan[j], "ok").run = Plan[j].run
                         /\ Status(Plan[j], "ok").experiments = Plan[j].experiments
  BY DEF Status
<1>12. \A j \in 1 .. n : Plan[j].run = Plan[k].run => j = k
  BY <1>1, <1>6, PlanFacts
<1>13. Executions(d) = {Status(Plan[k], "ok")}
  BY <1>6, <1>9, <1>10, <1>11, <1>12
<1>14. PICK c, e : c = Status(Plan[k], "ok") /\ e = Plan[k].experiments
  OBVIOUS
<1>15. c.experiments = e /\ e # {}
  BY <1>1, <1>6, <1>11, <1>14, PlanFacts
<1>16. UNION {x.experiments : x \in Executions(d)} = e
  BY <1>13, <1>14, <1>15
<1>17. ExperimentIds(d) = e
  BY <1>15, <1>16 DEF ExperimentIds
<1>18. QED
  BY <1>4, <1>5, <1>14, <1>17

\* There is nothing else of the suite.
LEMMA OnlyCases ==
  ASSUME Ready, NEW d \in DOMAIN runs, d[1] = suite,
         runs[d].metrics # None \/ runs[d].tasks # None
  PROVE  \E k \in 1 .. Len(Plan) : d = <<suite, Plan[k].run>>
<1>1. Phase /\ Control /\ full
  BY DEF Ready
<1>2. d = <<d[1], d[2]>>
  BY <1>1, PlanFacts
<1>3. Sound(Len(Plan))
  BY DEF Ready, Whole
<1>4. \E k \in 1 .. Len(Plan) : d[2] = Plan[k].run
  BY <1>3 DEF Sound
<1>5. QED
  BY <1>2, <1>4

-----------------------------------------------------------------------------
(* The rows of the suite *)

Key(k, i) ==
  <<suite, Plan[k].run, Plan[k].config, Plan[k].sims[i][2], Plan[k].sims[i][1]>>

LEMMA SimsAre ==
  ASSUME Ready
  PROVE  \A x : x \in Sims(Plan) <=>
                \E k \in 1 .. Len(Plan) : \E i \in 1 .. Len(Plan[k].sims) : x = Key(k, i)
<1>1. DOMAIN Plan = 1 .. Len(Plan)
  BY PlanFacts DEF Ready
<1> DEFINE Of(k) == {<<suite, Plan[k].run, Plan[k].config, sim[2], sim[1]>> : sim \in ToSet(Plan[k].sims)}
<1>2. ASSUME NEW k \in 1 .. Len(Plan), NEW x
      PROVE  x \in Of(k) <=> \E i \in 1 .. Len(Plan[k].sims) : x = Key(k, i)
  <2>1. PICK sims : sims = Plan[k].sims
    OBVIOUS
  <2>2. DOMAIN sims = 1 .. Len(sims)
    BY <2>1, CaseLines
  <2>3. ToSet(sims) = {sims[i] : i \in 1 .. Len(sims)}
    BY <2>2 DEF ToSet
  <2>4. QED
    BY <2>1, <2>3 DEF Key
<1>3. Sims(Plan) = UNION {Of(k) : k \in 1 .. Len(Plan)}
  BY <1>1 DEF Sims
<1> HIDE DEF Of
<1>4. \A x : x \in Sims(Plan) <=> \E k \in 1 .. Len(Plan) : x \in Of(k)
  BY <1>3
<1>5. QED
  BY <1>2, <1>4

Row(k, i) == Enriched(Lines(k)[i], Plan[k].experiments)

\* The fields of a row of the metrics.
LEMMA RowFields ==
  ASSUME Ready, NEW k \in 1 .. Len(Plan), NEW i \in 1 .. Len(Plan[k].sims)
  PROVE  /\ Row(k, i).suite = suite /\ Row(k, i).run = Plan[k].run /\ Row(k, i).gen = gen
         /\ Row(k, i).config = Plan[k].config /\ Row(k, i).sched = Plan[k].sims[i][2]
         /\ Row(k, i).workload = Plan[k].sims[i][1]
         /\ Row(k, i).experiments = Plan[k].experiments
         /\ ConfigKey(Row(k, i)) = Key(k, i)
<1>1. PICK line, sims : line = Lines(k)[i] /\ sims = Plan[k].sims
  OBVIOUS
<1>2. /\ line.suite = suite /\ line.run = Plan[k].run
      /\ line.gen = gen /\ line.config = Plan[k].config
      /\ line.sched = sims[i][2] /\ line.workload = sims[i][1]
      /\ line.cut = 16
  BY <1>1, CaseLines
<1>3. /\ Text(line, "Scheduler", line.sched) = line.sched
      /\ Text(line, "Workload", line.workload) = line.workload
  <2>1. line.cut \in Int /\ line.cut > 6 /\ line.cut > 7
    BY <1>2
  <2>2. QED
    BY <2>1, NamesAre
<1>4. PICK e, r : e = Plan[k].experiments /\ r = Enriched(line, e)
  OBVIOUS
<1>5. /\ r.suite = line.suite /\ r.run = line.run /\ r.gen = line.gen /\ r.config = line.config
      /\ r.experiments = e
      /\ r.sched = Text(line, "Scheduler", line.sched)
      /\ r.workload = Text(line, "Workload", line.workload)
  BY <1>4 DEF Enriched
<1>6. Row(k, i) = r
  BY <1>1, <1>4 DEF Row
<1>7. ConfigKey(r) = Key(k, i)
  BY <1>1, <1>2, <1>3, <1>5 DEF ConfigKey, Key
<1>8. QED
  BY <1>1, <1>2, <1>3, <1>4, <1>5, <1>6, <1>7

LEMMA SuiteMetrics ==
  ASSUME Ready
  PROVE  \A row : row \in ToSet(MetricsTable) /\ row.suite = suite <=>
                  \E k \in 1 .. Len(Plan) : \E i \in 1 .. Len(Plan[k].sims) : row = Row(k, i)
<1>1. LinesHere
  BY DEF Ready, LinesHere, Control
<1>2. ASSUME NEW k \in 1 .. Len(Plan), NEW d, d = <<suite, Plan[k].run>>, NEW row
      PROVE  row \in ToSet(EnrichedRows(d)) <=> \E i \in 1 .. Len(Plan[k].sims) : row = Row(k, i)
  <2>1. PICK lines, e : lines = runs[d].metrics /\ e = ExperimentIds(d)
    OBVIOUS
  <2>2. d \in ToSet(DataPaths) /\ e = Plan[k].experiments /\ lines = Lines(k)
    BY <1>2, <2>1, CaseRead, CaseFiles
  <2>3. Len(lines) = Len(Plan[k].sims)
    BY <2>2, CaseLines
  <2>4. ToSet(EnrichedRows(d)) = {Enriched(lines[i], ExperimentIds(d)) : i \in 1 .. Len(lines)}
    BY <1>1, <2>1, <2>2, EnrichedRowsAre
  <2>5. ToSet(EnrichedRows(d)) = {Enriched(lines[i], e) : i \in 1 .. Len(lines)}
    BY <2>1, <2>4
  <2>6. QED
    BY <2>2, <2>3, <2>5 DEF Row
<1>3. ASSUME NEW row, row \in ToSet(MetricsTable), row.suite = suite
      PROVE  \E k \in 1 .. Len(Plan) : \E i \in 1 .. Len(Plan[k].sims) : row = Row(k, i)
  <2>1. PICK d \in ToSet(DataPaths) : row \in ToSet(EnrichedRows(d))
    BY <1>1, <1>3, MetricsRows
  <2>2. PICK lines : lines = runs[d].metrics
    OBVIOUS
  <2>3. /\ d \in DOMAIN runs /\ lines # None
        /\ \A l \in ToSet(lines) : l.suite = d[1]
        /\ \A j \in DOMAIN lines : lines[j] \in ToSet(lines)
    <3>1. d \in DOMAIN runs /\ \A l \in ToSet(lines) : l.suite = d[1]
      BY <1>1, <2>2, DataPathIs
    <3>2. lines # None
      BY <2>2, PathsAre
    <3>3. \A j \in DOMAIN lines : lines[j] \in ToSet(lines)
      BY DEF ToSet
    <3>4. QED
      BY <3>1, <3>2, <3>3
  <2>4. PICK j \in 1 .. Len(lines) : row = Enriched(lines[j], ExperimentIds(d)) /\ j \in DOMAIN lines
    BY <1>1, <2>1, <2>2, EnrichedRowsAre
  <2>5. row.suite = lines[j].suite
    BY <2>4 DEF Enriched
  <2>6. d[1] = suite
    BY <1>3, <2>3, <2>4, <2>5
  <2>7. PICK k \in 1 .. Len(Plan) : d = <<suite, Plan[k].run>>
    BY <2>2, <2>3, <2>6, OnlyCases
  <2>8. QED
    BY <1>2, <2>1, <2>7
<1>4. ASSUME NEW k \in 1 .. Len(Plan), NEW i \in 1 .. Len(Plan[k].sims)
      PROVE  Row(k, i) \in ToSet(MetricsTable) /\ Row(k, i).suite = suite
  <2>1. PICK d : d = <<suite, Plan[k].run>>
    OBVIOUS
  <2>2. d \in ToSet(DataPaths)
    BY <2>1, CaseRead
  <2>3. Row(k, i) \in ToSet(EnrichedRows(d))
    BY <1>2, <2>1
  <2>4. QED
    BY <1>1, <2>2, <2>3, MetricsRows, RowFields
<1>5. QED
  BY <1>3, <1>4

-----------------------------------------------------------------------------
(* The tasks of the suite *)

\* The simulations that had tasks.
Tasked == {k \in Sims(Plan) : Result[<<k[5], k[4]>>].tasks # << >>}

LEMMA TaskedAre ==
  ASSUME Ready, NEW k \in 1 .. Len(Plan), NEW i \in 1 .. Len(Plan[k].sims)
  PROVE  /\ Key(k, i) \in Sims(Plan)
         /\ Key(k, i) \in Tasked <=> Result[Plan[k].sims[i]].tasks # << >>
<1>1. Phase /\ Control /\ full
  BY DEF Ready
<1>2. PICK sims : sims = Plan[k].sims
  OBVIOUS
<1>3. sims[i] \in ToSet(sims)
  BY <1>2, CaseLines DEF ToSet
<1>4. sims[i] = <<sims[i][1], sims[i][2]>>
  BY <1>1, <1>2, <1>3, PlanFacts DEF SimsApart
<1>5. Key(k, i)[4] = sims[i][2] /\ Key(k, i)[5] = sims[i][1]
  BY <1>2 DEF Key
<1>6. Key(k, i) \in Sims(Plan)
  BY SimsAre
<1>7. <<Key(k, i)[5], Key(k, i)[4]>> = sims[i]
  BY <1>4, <1>5
<1>8. QED
  BY <1>2, <1>6, <1>7 DEF Tasked

LEMMA CaseTasks ==
  ASSUME Ready, NEW k \in 1 .. Len(Plan), NEW n, n = Len(Plan[k].sims),
         NEW u, u = TaskLines(suite, gen, Plan[k])
  PROVE  /\ \A l \in ToSet(u) :
              \E i \in 1 .. n : RunKey(l) = Key(k, i) /\ Result[Plan[k].sims[i]].tasks # << >>
         /\ \A i \in 1 .. n : Result[Plan[k].sims[i]].tasks # << >> =>
              \E l \in ToSet(u) : RunKey(l) = Key(k, i)
<1>1. Phase /\ Control /\ full
  BY DEF Ready
<1>2. PICK case, sims : case = Plan[k] /\ sims = case.sims
  OBVIOUS
<1>3. n \in Nat /\ DOMAIN sims = 1 .. n
  BY <1>2, CaseLines
<1>4. \A i \in 1 .. n : sims[i] \in ToSet(sims)
  BY <1>3 DEF ToSet
<1>5. \A sim \in ToSet(sims) : Result[sim].tasks \in Seq(ToSet(Result[sim].tasks))
  BY <1>1, <1>2, PlanFacts DEF CaseOfPlan
<1> DEFINE Line(i, m) ==
       [suite |-> suite, run |-> case.run, gen |-> gen, config |-> case.config,
        workload |-> sims[i][1], sched |-> sims[i][2],
        task |-> Result[sims[i]].tasks[m]]
<1>6. ASSUME NEW i, NEW m
      PROVE  RunKey(Line(i, m)) = Key(k, i)
  <2>1. PICK l : l = Line(i, m)
    OBVIOUS
  <2>2. /\ l.suite = suite /\ l.run = case.run /\ l.config = case.config
        /\ l.sched = sims[i][2] /\ l.workload = sims[i][1]
    BY <2>1
  <2>3. RunKey(l) = Key(k, i)
    BY <1>2, <2>2 DEF RunKey, Key
  <2>4. QED
    BY <2>1, <2>3
<1>7. PICK t : t = [i \in 1 .. n |-> [m \in DOMAIN Result[sims[i]].tasks |-> Line(i, m)]]
  OBVIOUS
<1>8. u = FlattenSeq(t)
  BY <1>2, <1>3, <1>7 DEF TaskLines
<1>9. t = [i \in 1 .. n |-> t[i]]
      /\ \A i \in 1 .. n : t[i] = [m \in DOMAIN Result[sims[i]].tasks |-> Line(i, m)]
  BY <1>7
<1> HIDE DEF Line
<1>10. ASSUME NEW i \in 1 .. n
       PROVE  /\ t[i] \in Seq(ToSet(t[i]))
              /\ \A l \in ToSet(t[i]) : RunKey(l) = Key(k, i) /\ Result[sims[i]].tasks # << >>
              /\ Result[sims[i]].tasks # << >> => \E l \in ToSet(t[i]) : RunKey(l) = Key(k, i)
  <2>1. PICK tasks : tasks = Result[sims[i]].tasks
    OBVIOUS
  <2>2. tasks \in Seq(ToSet(tasks))
    BY <1>4, <1>5, <2>1
  <2>3. PICK c \in Nat : c = Len(tasks)
    BY <2>2
  <2>4. DOMAIN tasks = 1 .. c /\ (c > 0 <=> tasks # << >>)
    BY <2>2, <2>3
  <2>5. PICK x : x = [m \in 1 .. c |-> Line(i, m)]
    OBVIOUS
  <2>6. t[i] = x
    BY <1>9, <2>1, <2>4, <2>5
  <2>7. DOMAIN x = 1 .. c /\ \A m \in 1 .. c : x[m] = Line(i, m)
    BY <2>5
  <2>8. ToSet(x) = {Line(i, m) : m \in 1 .. c}
    BY <2>7 DEF ToSet
  <2>9. x \in Seq(ToSet(x))
    <3>1. \A m \in 1 .. c : Line(i, m) \in ToSet(x)
      BY <2>8
    <3>2. QED
      BY <2>5, <3>1
  <2>10. \A l \in ToSet(x) : RunKey(l) = Key(k, i) /\ tasks # << >>
    <3>1. \A m \in 1 .. c : c > 0
      OBVIOUS
    <3>2. QED
      BY <1>6, <2>4, <2>8, <3>1
  <2>11. ASSUME tasks # << >>
         PROVE  \E l \in ToSet(x) : RunKey(l) = Key(k, i)
    <3>1. 1 \in 1 .. c
      BY <2>4, <2>11
    <3>2. Line(i, 1) \in ToSet(x)
      BY <2>8, <3>1
    <3>3. QED
      BY <2>10, <3>2
  <2>12. QED
    BY <2>1, <2>6, <2>9, <2>10, <2>11
<1>11. \A y : y \in ToSet(u) <=> \E i \in 1 .. n : y \in ToSet(t[i])
  <2>1. t = [i \in 1 .. n |-> t[i]]
    BY <1>9
  <2>2. QED
    BY <1>3, <1>8, <1>10, <2>1, FlattenAny
<1>12. QED
  BY <1>2, <1>10, <1>11

\* The execution a case is of.
LEMMA CaseGeneration ==
  ASSUME Ready, NEW k \in 1 .. Len(Plan)
  PROVE  Generation(<<suite, Plan[k].run>>) = gen
<1>1. LinesHere
  BY DEF Ready, LinesHere, Control
<1>2. PICK d, lines : d = <<suite, Plan[k].run>> /\ lines = Lines(k)
  OBVIOUS
<1>3. d \in ToSet(DataPaths) /\ runs[d].metrics = lines
  BY <1>2, CaseRead, CaseFiles
<1>4. \A l \in ToSet(lines) : l.gen = Generation(d)
  BY <1>1, <1>3, DataPathIs
<1>5. 1 \in DOMAIN lines /\ lines[1].gen = gen
  <2>1. PICK n : n = Len(Plan[k].sims)
    OBVIOUS
  <2>2. n \in Nat /\ n > 0 /\ DOMAIN lines = 1 .. n /\ \A i \in 1 .. n : lines[i].gen = gen
    BY <1>2, <2>1, CaseLines
  <2>3. 1 \in 1 .. n
    BY <2>2
  <2>4. QED
    BY <2>2, <2>3
<1>6. lines[1] \in ToSet(lines)
  BY <1>5 DEF ToSet
<1>7. QED
  BY <1>2, <1>4, <1>5, <1>6

\* The simulations that have lines.
LEMMA SuiteKeys ==
  ASSUME Ready
  PROVE  /\ \A key : key \in Keys(AllTasks) /\ key[1] = suite <=> key \in Tasked
         /\ \A key \in Tasked :
              /\ TasksOf(AllTasks, key) # << >>
              /\ TasksOf(AllTasks, key)[1].gen = gen
<1>1. LinesHere
  BY DEF Ready, LinesHere, Control
<1>2. PICK u : u = AllTasks
  OBVIOUS
<1>3. \A key : key \in Keys(u) <=> \E l \in ToSet(u) : key = RunKey(l)
  BY DEF Keys, ToSet
<1>4. \A l : l \in ToSet(u) <=>
             \E d \in DOMAIN runs : runs[d].tasks # None /\ l \in ToSet(runs[d].tasks)
  BY <1>1, <1>2, TaskRows
<1>5. ASSUME NEW key, key \in Keys(u), key[1] = suite
      PROVE  key \in Tasked
  <2>1. PICK l \in ToSet(u) : key = RunKey(l)
    BY <1>3, <1>5
  <2>2. PICK d \in DOMAIN runs : runs[d].tasks # None /\ l \in ToSet(runs[d].tasks)
    BY <1>4, <2>1
  <2>3. FilesOf(d, Generation(d))
    BY <1>1, GenerationIs DEF LinesHere
  <2>4. l.suite = d[1]
    BY <2>2, <2>3 DEF FilesOf, LinesOf, Tasks
  <2>5. key[1] = l.suite
    BY <2>1 DEF RunKey
  <2>6. PICK k \in 1 .. Len(Plan) : d = <<suite, Plan[k].run>>
    BY <1>5, <2>2, <2>4, <2>5, OnlyCases
  <2>7. runs[d].tasks = TaskLines(suite, gen, Plan[k])
    BY <2>6, CaseFiles
  <2>8. PICK i \in 1 .. Len(Plan[k].sims) : RunKey(l) = Key(k, i) /\ Result[Plan[k].sims[i]].tasks # << >>
    BY <2>2, <2>7, CaseTasks
  <2>9. QED
    BY <2>1, <2>8, TaskedAre
<1>6. ASSUME NEW key \in Tasked
      PROVE  /\ key \in Keys(u) /\ key[1] = suite
             /\ TasksOf(u, key) # << >> /\ TasksOf(u, key)[1].gen = gen
  <2>1. PICK k \in 1 .. Len(Plan) : \E i \in 1 .. Len(Plan[k].sims) : key = Key(k, i)
    BY SimsAre DEF Tasked
  <2>2. PICK i \in 1 .. Len(Plan[k].sims) : key = Key(k, i)
    BY <2>1
  <2>3. PICK d : d = <<suite, Plan[k].run>>
    OBVIOUS
  <2>4. d \in DOMAIN runs /\ runs[d].tasks = TaskLines(suite, gen, Plan[k]) /\ runs[d].tasks # None
    BY <2>3, CaseFiles
  <2>5. PICK l \in ToSet(TaskLines(suite, gen, Plan[k])) : RunKey(l) = key
    BY <2>2, CaseTasks, TaskedAre
  <2>6. key \in Keys(u)
    BY <1>3, <1>4, <2>4, <2>5
  <2>7. key[1] = suite /\ key[2] = Plan[k].run
    BY <2>2 DEF Key
  <2>8. TasksOf(u, key) # << >> /\ TasksOf(u, key)[1].gen = Generation(<<key[1], key[2]>>)
    BY <1>1, <1>2, <2>6, TasksOfKey
  <2>9. Generation(<<key[1], key[2]>>) = gen
    BY <2>7, CaseGeneration
  <2>10. QED
    BY <2>6, <2>7, <2>8, <2>9
<1>7. QED
  BY <1>2, <1>5, <1>6

-----------------------------------------------------------------------------
(* Rows, counted *)

\* The simulations of a case are as many as it has keys.
LEMMA CaseKeys ==
  ASSUME Ready, NEW k \in 1 .. Len(Plan),
         NEW i \in 1 .. Len(Plan[k].sims), NEW j \in 1 .. Len(Plan[k].sims), Key(k, i) = Key(k, j)
  PROVE  i = j
<1>1. Phase /\ Control /\ full
  BY DEF Ready
<1>2. PICK sims : sims = Plan[k].sims
  OBVIOUS
<1>3. DOMAIN sims = 1 .. Len(sims)
  BY <1>2, CaseLines
<1>4. /\ \A a, b \in DOMAIN sims : sims[a] = sims[b] => a = b
      /\ \A sim \in ToSet(sims) : sim = <<sim[1], sim[2]>>
  BY <1>1, <1>2, PlanFacts DEF SimsApart
<1>5. sims[i] = <<sims[i][1], sims[i][2]>> /\ sims[j] = <<sims[j][1], sims[j][2]>>
  BY <1>2, <1>3, <1>4 DEF ToSet
<1>6. sims[i][1] = sims[j][1] /\ sims[i][2] = sims[j][2]
  BY <1>2 DEF Key
<1>7. sims[i] = sims[j]
  BY <1>5, <1>6
<1>8. QED
  BY <1>2, <1>3, <1>4, <1>7

\* The metrics of the suite.
LEMMA SuiteRowsAre ==
  ASSUME Ready, tables["metrics"] = MetricsTable
  PROVE  /\ SuiteRows \in Seq(ToSet(SuiteRows)) /\ Distinct(SuiteRows)
         /\ \A row : row \in ToSet(SuiteRows) <=> row \in ToSet(MetricsTable) /\ row.suite = suite
<1>1. LinesHere /\ FilesApart
  BY DEF Ready, LinesHere, Control
<1>2. PICK X, s : X = ToSet(MetricsTable) /\ s = MetricsTable
  OBVIOUS
<1>3. s \in Seq(X) /\ X = ToSet(s)
  BY <1>1, <1>2, MetricsRows
<1>4. Distinct(s)
  BY <1>1, <1>2, MetricsDistinct
<1> DEFINE T == {row \in X : row.suite = suite}
<1>5. PICK u : u = FlattenSeq([i \in DOMAIN s |-> IF s[i] \in T THEN <<s[i]>> ELSE << >>])
  OBVIOUS
<1>6. SuiteRows = u
  <2>1. \A i \in DOMAIN s : s[i] \in T <=> s[i].suite = suite
    BY <1>3
  <2>2. [i \in DOMAIN s |-> IF s[i] \in T THEN <<s[i]>> ELSE << >>]
        = [i \in DOMAIN s |-> IF s[i].suite = suite THEN <<s[i]>> ELSE << >>]
    BY <2>1, Zenon
  <2>3. QED
    BY <1>2, <1>5, <2>2 DEF SuiteRows, Filtered
<1>7. \A row : row \in T <=> row \in X /\ row.suite = suite
  OBVIOUS
<1> HIDE DEF T
<1>8. u \in Seq(X) /\ ToSet(u) = ToSet(s) \cap T
  <2>1. s \in Seq(X)
    BY <1>3
  <2>2. QED
    BY <1>5, <2>1, FilteredBy
<1>9. Distinct(u)
  BY <1>3, <1>4, <1>5, FilteredDistinct
<1>10. u \in Seq(ToSet(u))
  BY <1>8, OwnElements
<1>11. \A row : row \in ToSet(u) <=> row \in X /\ row.suite = suite
  BY <1>3, <1>7, <1>8
<1>12. QED
  BY <1>2, <1>6, <1>9, <1>10, <1>11

\* One row per simulation.
LEMMA OneRowEach ==
  ASSUME Ready, tables["metrics"] = MetricsTable
  PROVE  /\ IsFiniteSet(Sims(Plan)) /\ Len(SuiteRows) = Cardinality(Sims(Plan))
         /\ \A row \in ToSet(SuiteRows) : ConfigKey(row) \in Sims(Plan)
         /\ \A x \in Sims(Plan) : \E row \in ToSet(SuiteRows) : x = ConfigKey(row)
<1>1. LinesHere /\ FilesApart
  BY DEF Ready, LinesHere, Control
<1>2. PICK u : u = SuiteRows
  OBVIOUS
<1>3. u \in Seq(ToSet(u)) /\ Distinct(u)
  BY <1>2, SuiteRowsAre
<1>4. \A row : row \in ToSet(u) <=> row \in ToSet(MetricsTable) /\ row.suite = suite
  BY <1>2, SuiteRowsAre
<1>5. IsFiniteSet(ToSet(u)) /\ Cardinality(ToSet(u)) = Len(u)
  BY <1>3, LengthIsSize
<1>6. ASSUME NEW row \in ToSet(u)
      PROVE  ConfigKey(row) \in Sims(Plan)
  <2>1. PICK k \in 1 .. Len(Plan) : \E i \in 1 .. Len(Plan[k].sims) : row = Row(k, i)
    BY <1>4, SuiteMetrics
  <2>2. PICK i \in 1 .. Len(Plan[k].sims) : row = Row(k, i)
    BY <2>1
  <2>3. ConfigKey(row) = Key(k, i)
    BY <2>2, RowFields
  <2>4. QED
    BY <2>3, SimsAre
<1>7. ASSUME NEW x \in Sims(Plan)
      PROVE  \E row \in ToSet(u) : x = ConfigKey(row)
  <2>1. PICK k \in 1 .. Len(Plan) : \E i \in 1 .. Len(Plan[k].sims) : x = Key(k, i)
    BY SimsAre
  <2>2. PICK i \in 1 .. Len(Plan[k].sims) : x = Key(k, i)
    BY <2>1
  <2>3. PICK row : row = Row(k, i)
    OBVIOUS
  <2>4. ConfigKey(row) = x
    BY <2>2, <2>3, RowFields
  <2>5. row \in ToSet(u)
    BY <1>4, <2>3, SuiteMetrics
  <2>6. QED
    BY <2>4, <2>5
<1>8. PICK f : f = [row \in ToSet(u) |-> ConfigKey(row)]
  OBVIOUS
<1>9. f \in [ToSet(u) -> Sims(Plan)] /\ \A row \in ToSet(u) : f[row] = ConfigKey(row)
  BY <1>6, <1>8
<1>10. \A r, q \in ToSet(u) : f[r] = f[q] => r = q
  BY <1>1, <1>4, <1>9, MetricsApart
<1>11. \A x \in Sims(Plan) : \E row \in ToSet(u) : f[row] = x
  BY <1>7, <1>9
<1>12. IsFiniteSet(Sims(Plan)) /\ Cardinality(Sims(Plan)) = Cardinality(ToSet(u))
  <2>1. PICK S, T : S = ToSet(u) /\ T = Sims(Plan)
    OBVIOUS
  <2>2. IsFiniteSet(S) /\ f \in [S -> T]
    BY <1>5, <1>9, <2>1
  <2>3. (\A a, b \in S : f[a] = f[b] => a = b) /\ \A x \in T : \E s \in S : f[s] = x
    BY <1>10, <1>11, <2>1
  <2>4. IsFiniteSet(T) /\ Cardinality(T) = Cardinality(S)
    BY <2>2, <2>3, OneToOne
  <2>5. QED
    BY <2>1, <2>4
<1>13. QED
  BY <1>2, <1>5, <1>6, <1>7, <1>12

\* Those of one run.
RunRows(run) == Filtered(SuiteRows, LAMBDA row : row.run = run)

LEMMA RowsOfRun ==
  ASSUME Ready, tables["metrics"] = MetricsTable, NEW k \in 1 .. Len(Plan)
  PROVE  Len(RunRows(Plan[k].run)) = Len(Plan[k].sims)
<1>1. PICK s, X, run : s = SuiteRows /\ X = ToSet(SuiteRows) /\ run = Plan[k].run
  OBVIOUS
<1>2. s \in Seq(X) /\ Distinct(s) /\ X = ToSet(s)
  BY <1>1, SuiteRowsAre
<1> DEFINE T == {row \in X : row.run = run}
<1>3. PICK u : u = FlattenSeq([i \in DOMAIN s |-> IF s[i] \in T THEN <<s[i]>> ELSE << >>])
  OBVIOUS
<1>4. RunRows(run) = u
  <2>1. \A i \in DOMAIN s : s[i] \in T <=> s[i].run = run
    BY <1>2 DEF ToSet
  <2>2. [i \in DOMAIN s |-> IF s[i] \in T THEN <<s[i]>> ELSE << >>]
        = [i \in DOMAIN s |-> IF s[i].run = run THEN <<s[i]>> ELSE << >>]
    BY <2>1, Zenon
  <2>3. QED
    BY <1>1, <1>3, <2>2 DEF RunRows, Filtered
<1>5. \A row : row \in T <=> row \in X /\ row.run = run
  OBVIOUS
<1> HIDE DEF T
<1>6. u \in Seq(X) /\ ToSet(u) = ToSet(s) \cap T
  <2>1. s \in Seq(X)
    BY <1>2
  <2>2. QED
    BY <1>3, <2>1, FilteredBy
<1>7. Distinct(u)
  BY <1>2, <1>3, FilteredDistinct
<1>8. Cardinality(ToSet(u)) = Len(u)
  BY <1>6, <1>7, LengthIsSize
<1>9. PICK n, sims : sims = Plan[k].sims /\ n = Len(sims)
  OBVIOUS
<1>10. n \in Nat
  BY <1>9, CaseLines
<1>11. ASSUME NEW row \in ToSet(u)
       PROVE  \E i \in 1 .. n : Row(k, i) = row
  <2>1. row \in ToSet(SuiteRows) /\ row.run = run
    BY <1>1, <1>5, <1>6
  <2>2. row \in ToSet(MetricsTable) /\ row.suite = suite
    BY <2>1, SuiteRowsAre
  <2>3. PICK j \in 1 .. Len(Plan) : \E i \in 1 .. Len(Plan[j].sims) : row = Row(j, i)
    BY <2>2, SuiteMetrics
  <2>4. PICK i \in 1 .. Len(Plan[j].sims) : row = Row(j, i)
    BY <2>3
  <2>5. row.run = Plan[j].run
    BY <2>4, RowFields
  <2>6. j = k
    BY <1>1, <2>1, <2>5, PlanFacts DEF Ready
  <2>7. QED
    BY <1>9, <2>4, <2>6
<1>12. ASSUME NEW i \in 1 .. n
       PROVE  Row(k, i) \in ToSet(u)
  <2>1. Row(k, i) \in ToSet(MetricsTable) /\ Row(k, i).suite = suite
    BY <1>9, SuiteMetrics
  <2>2. Row(k, i) \in X
    BY <1>1, <2>1, SuiteRowsAre
  <2>3. Row(k, i).run = run
    BY <1>1, <1>9, RowFields
  <2>4. QED
    BY <1>2, <1>5, <1>6, <2>2, <2>3
<1>13. PICK f : f = [i \in 1 .. n |-> Row(k, i)]
  OBVIOUS
<1>14. PICK R : R = ToSet(u)
  OBVIOUS
<1>15. f \in [1 .. n -> R] /\ \A i \in 1 .. n : f[i] = Row(k, i)
  BY <1>12, <1>13, <1>14
<1>16. \A a, b \in 1 .. n : f[a] = f[b] => a = b
  <2>1. ASSUME NEW a \in 1 .. n, NEW b \in 1 .. n, f[a] = f[b]
        PROVE  a = b
    <3>1. ConfigKey(Row(k, a)) = ConfigKey(Row(k, b))
      BY <1>15, <2>1
    <3>2. Key(k, a) = Key(k, b)
      BY <1>9, <3>1, RowFields
    <3>3. QED
      BY <1>9, <3>2, CaseKeys
  <2>2. QED
    BY <2>1
<1>17. \A r \in R : \E i \in 1 .. n : f[i] = r
  BY <1>11, <1>14, <1>15
<1>18. IsFiniteSet(1 .. n) /\ Cardinality(1 .. n) = n
  <2>1. 1 \in Int /\ n \in Int
    BY <1>10
  <2>2. IsFiniteSet(1 .. n) /\ Cardinality(1 .. n) = IF 1 > n THEN 0 ELSE n - 1 + 1
    BY <2>1, FS_Interval
  <2>3. QED
    BY <1>10, <2>2
<1>19. Cardinality(R) = n
  <2>1. PICK I : I = 1 .. n
    OBVIOUS
  <2>2. IsFiniteSet(I) /\ f \in [I -> R] /\ Cardinality(I) = n
    BY <1>15, <1>18, <2>1
  <2>3. (\A a, b \in I : f[a] = f[b] => a = b) /\ \A r \in R : \E i \in I : f[i] = r
    BY <1>16, <1>17, <2>1
  <2>4. Cardinality(R) = Cardinality(I)
    BY <2>2, <2>3, OneToOne
  <2>5. QED
    BY <2>2, <2>4
<1>20. QED
  BY <1>1, <1>4, <1>8, <1>9, <1>14, <1>19

-----------------------------------------------------------------------------
(* The tables that are left *)

\* What is left when run_full_analysis.sh is done.
Left ==
  /\ Ready /\ AsWritten /\ \A t \in ToSet(TableOrder) : Written(t) => t \in fresh
  /\ tables["summary"] = SummaryTable(tables["metrics"])
  /\ \A exp \in DOMAIN drawn : drawn[exp] = FigureRows(exp)

\* A table with rows is that of the files.
LEMMA WrittenIs ==
  ASSUME Left, NEW t \in ToSet(TableOrder), t \in Canonical \/ Contents(t) # {}
  PROVE  tables[t] = Contents(t)
<1>1. t \in fresh
  BY DEF Left, Written
<1>2. QED
  BY <1>1 DEF Left, AsWritten

\* The buckets are told by key and nice.
LEMMA BucketsAre ==
  ASSUME NEW b
  PROVE  b \in NiceBucketTable <=>
           \E key \in Keys(AllTasks) : \E nice \in Nices(TasksOf(AllTasks, key)) :
             b = NiceBucket(key, TasksOf(AllTasks, key), nice, ExperimentsOfKey(key))
BY DEF NiceBucketTable

\* A simulation with tasks has a bucket.
LEMMA SomeBucket ==
  ASSUME Ready, NEW key \in Keys(AllTasks)
  PROVE  \E b \in NiceBucketTable : b.key = key
<1>1. LinesHere
  BY DEF Ready, LinesHere, Control
<1>2. key \in Keys(AllTasks)
  OBVIOUS
<1>3. PICK tasks, e : tasks = TasksOf(AllTasks, key) /\ e = ExperimentsOfKey(key)
  OBVIOUS
<1>4. 1 \in DOMAIN tasks
  BY <1>1, <1>2, <1>3, TasksOfKey
<1>5. tasks[1].task.nice \in Nices(tasks)
  BY <1>4 DEF Nices
<1>6. PICK nice, b : nice = tasks[1].task.nice /\ b = NiceBucket(key, tasks, nice, e)
  OBVIOUS
<1>7. b \in NiceBucketTable
  BY <1>2, <1>3, <1>5, <1>6, BucketsAre
<1>8. b.key = key
  BY <1>6 DEF NiceBucket
<1>9. QED
  BY <1>7, <1>8

LEMMA TablesLeft ==
  ASSUME Left
  PROVE  /\ tables["metrics"] = MetricsTable
         /\ tables["index"] = {RunIndexRow(d) : d \in ToSet(DataPaths)}
         /\ tables["quality"] = QualityTable
         /\ AllTasks # << >> => /\ tables["allocation"] = AllocationTable
                               /\ tables["characteristics"] = CharacteristicsTable
                               /\ tables["buckets"] = NiceBucketTable
         /\ (\E row \in ToSet(MetricsTable) : row.sched \in FairSchedulers) =>
              tables["fairness"] = FairnessTable(MetricsTable, CharacteristicsTable)
<1>1. Ready
  BY DEF Left
<1>2. /\ "metrics" \in ToSet(TableOrder) /\ "index" \in ToSet(TableOrder)
      /\ "quality" \in ToSet(TableOrder)
      /\ "allocation" \in ToSet(TableOrder) /\ "characteristics" \in ToSet(TableOrder)
      /\ "buckets" \in ToSet(TableOrder) /\ "fairness" \in ToSet(TableOrder)
  <2>1. PICK s : s = TableOrder
    OBVIOUS
  <2>2. /\ s[1] = "metrics" /\ s[2] = "index" /\ s[3] = "quality" /\ s[4] = "allocation"
        /\ s[5] = "buckets" /\ s[6] = "characteristics" /\ s[7] = "fairness"
    BY <2>1 DEF TableOrder
  <2>3. QED
    BY <2>1, <2>2, TableNames
<1>3. /\ Contents("metrics") = MetricsTable
      /\ Contents("index") = {RunIndexRow(d) : d \in ToSet(DataPaths)}
      /\ Contents("quality") = QualityTable
      /\ Contents("allocation") = AllocationTable
      /\ Contents("characteristics") = CharacteristicsTable
      /\ Contents("buckets") = NiceBucketTable
      /\ Contents("fairness") = FairnessTable(MetricsTable, CharacteristicsTable)
  BY DEF Contents
<1>4. ASSUME AllTasks # << >>
      PROVE  \E key : key \in Keys(AllTasks)
  <2>1. PICK u : u = AllTasks
    OBVIOUS
  <2>2. u \in Seq(ToSet(u))
    BY <1>1, <2>1, TaskRows DEF Ready, LinesHere, Control
  <2>3. 1 \in DOMAIN u
    BY <1>4, <2>1, <2>2
  <2>4. QED
    BY <2>1, <2>3 DEF Keys
<1>5. ASSUME NEW key \in Keys(AllTasks)
      PROVE  /\ Contents("allocation") # {} /\ Contents("characteristics") # {}
             /\ Contents("buckets") # {}
  <2>1. Allocation(key, TasksOf(AllTasks, key), ExperimentsOfKey(key)) \in AllocationTable
    BY DEF AllocationTable
  <2>2. Characteristics(key, TasksOf(AllTasks, key), ExperimentsOfKey(key)) \in CharacteristicsTable
    BY DEF CharacteristicsTable
  <2>3. \E b \in NiceBucketTable : b.key = key
    BY <1>1, SomeBucket
  <2>4. QED
    BY <1>3, <2>1, <2>2, <2>3
<1>6. AllTasks # << >> => /\ Contents("allocation") # {} /\ Contents("characteristics") # {}
                         /\ Contents("buckets") # {}
  BY <1>4, <1>5
<1>7. ASSUME NEW row \in ToSet(MetricsTable), row.sched \in FairSchedulers
      PROVE  Contents("fairness") # {}
  <2>1. Fairness(row, MetricsTable, CharacteristicsTable)
          \in FairnessTable(MetricsTable, CharacteristicsTable)
    BY <1>7 DEF FairnessTable
  <2>2. QED
    BY <1>3, <2>1
<1>8. "metrics" \in Canonical /\ "index" \in Canonical /\ "quality" \in Canonical
  BY DEF Canonical
<1>9. /\ tables["metrics"] = Contents("metrics") /\ tables["index"] = Contents("index")
       /\ tables["quality"] = Contents("quality")
  BY <1>2, <1>8, WrittenIs
<1>10. AllTasks # << >> => /\ tables["allocation"] = Contents("allocation")
                          /\ tables["characteristics"] = Contents("characteristics")
                          /\ tables["buckets"] = Contents("buckets")
  BY <1>2, <1>6, WrittenIs
<1>11. Contents("fairness") # {} => tables["fairness"] = Contents("fairness")
  BY <1>2, WrittenIs
<1>12. QED
  BY <1>3, <1>7, <1>9, <1>10, <1>11

-----------------------------------------------------------------------------
(* Tables that report the suite *)

LEMMA ReportsIf ==
  ASSUME NEW table, NEW S, IsFiniteSet(S),
         \A r \in table : r.key[1] = suite => r.key \in S /\ r.gen = gen,
         \A k \in S : k[1] = suite /\ \E r \in table : r.key = k,
         \A r, q \in table : r.key = q.key => r = q
  PROVE  IsReportOf(table, S)
<1>1. PICK R : R = OfSuite(table)
  OBVIOUS
<1>2. \A r : r \in R <=> r \in table /\ r.key[1] = suite
  BY <1>1 DEF OfSuite
<1>3. \A r \in R : r.key \in S /\ r.gen = gen
  BY <1>2
<1>4. \A k \in S : \E r \in R : r.key = k
  <2>1. ASSUME NEW k \in S
        PROVE  \E r \in R : r.key = k
    <3>1. PICK r \in table : r.key = k
      OBVIOUS
    <3>2. r \in R
      BY <1>2, <3>1
    <3>3. QED
      BY <3>1, <3>2
  <2>2. QED
    BY <2>1
<1>5. \A r, q \in R : r.key = q.key => r = q
  BY <1>2
<1>6. \A r \in R : r.key \in S
  BY <1>3
<1>7. Cardinality(R) = Cardinality(S)
  BY <1>4, <1>5, <1>6, KeyedRows
<1>8. KeysOf(R) = S
  <2>1. \A k : k \in KeysOf(R) <=> \E r \in R : k = r.key
    BY DEF KeysOf
  <2>2. QED
    BY <1>4, <1>6, <2>1
<1>9. QED
  BY <1>1, <1>3, <1>7, <1>8 DEF IsReportOf

\* The two tables with a row per simulation with tasks.
LEMMA TaskTables ==
  ASSUME Ready, IsFiniteSet(Tasked)
  PROVE  IsReportOf(AllocationTable, Tasked) /\ IsReportOf(CharacteristicsTable, Tasked)
<1>1. PICK K, S : K = Keys(AllTasks) /\ S = Tasked
  OBVIOUS
<1>2. \A key : key \in K /\ key[1] = suite <=> key \in S
  BY <1>1, SuiteKeys
<1>3. \A key \in S : TasksOf(AllTasks, key)[1].gen = gen
  BY <1>1, SuiteKeys
<1> DEFINE A(key) == Allocation(key, TasksOf(AllTasks, key), ExperimentsOfKey(key))
           C(key) == Characteristics(key, TasksOf(AllTasks, key), ExperimentsOfKey(key))
<1>4. \A key : A(key).key = key /\ A(key).gen = TasksOf(AllTasks, key)[1].gen
  BY DEF Allocation
<1>5. \A key : C(key).key = key /\ C(key).gen = TasksOf(AllTasks, key)[1].gen
  BY DEF Characteristics
<1>6. AllocationTable = {A(key) : key \in K}
  BY <1>1 DEF AllocationTable
<1>7. CharacteristicsTable = {C(key) : key \in K}
  BY <1>1 DEF CharacteristicsTable
<1> HIDE DEF A, C
<1>8. IsReportOf(AllocationTable, S)
  <2>1. PICK table : table = AllocationTable
    OBVIOUS
  <2>2. \A r \in table : r.key \in K /\ r = A(r.key) /\ r.gen = TasksOf(AllTasks, r.key)[1].gen
    BY <1>4, <1>6, <2>1
  <2>3. \A r \in table : r.key[1] = suite => r.key \in S /\ r.gen = gen
    BY <1>2, <1>3, <2>2
  <2>4. \A k \in S : k[1] = suite /\ \E r \in table : r.key = k
    BY <1>2, <1>4, <1>6, <2>1
  <2>5. \A r, q \in table : r.key = q.key => r = q
    BY <2>2
  <2>6. IsReportOf(table, S)
    BY <1>1, <2>3, <2>4, <2>5, ReportsIf
  <2>7. QED
    BY <2>1, <2>6
<1>9. IsReportOf(CharacteristicsTable, S)
  <2>1. PICK table : table = CharacteristicsTable
    OBVIOUS
  <2>2. \A r \in table : r.key \in K /\ r = C(r.key) /\ r.gen = TasksOf(AllTasks, r.key)[1].gen
    BY <1>5, <1>7, <2>1
  <2>3. \A r \in table : r.key[1] = suite => r.key \in S /\ r.gen = gen
    BY <1>2, <1>3, <2>2
  <2>4. \A k \in S : k[1] = suite /\ \E r \in table : r.key = k
    BY <1>2, <1>5, <1>7, <2>1
  <2>5. \A r, q \in table : r.key = q.key => r = q
    BY <2>2
  <2>6. IsReportOf(table, S)
    BY <1>1, <2>3, <2>4, <2>5, ReportsIf
  <2>7. QED
    BY <2>1, <2>6
<1>10. QED
  BY <1>1, <1>8, <1>9

\* The keys of the buckets.
LEMMA BucketKeys ==
  ASSUME Ready
  PROVE  KeysOf(OfSuite(NiceBucketTable)) = Tasked
<1>1. PICK R, S : R = OfSuite(NiceBucketTable) /\ S = Tasked
  OBVIOUS
<1>2. \A r : r \in R <=> r \in NiceBucketTable /\ r.key[1] = suite
  BY <1>1 DEF OfSuite
<1>3. ASSUME NEW r \in R
      PROVE  r.key \in S
  <2>1. r \in NiceBucketTable /\ r.key[1] = suite
    BY <1>2
  <2>2. PICK key \in Keys(AllTasks) : \E nice \in Nices(TasksOf(AllTasks, key)) :
               r = NiceBucket(key, TasksOf(AllTasks, key), nice, ExperimentsOfKey(key))
    BY <2>1, BucketsAre
  <2>3. r.key = key
    BY <2>2 DEF NiceBucket
  <2>4. QED
    BY <1>1, <2>1, <2>3, SuiteKeys
<1>4. ASSUME NEW k \in S
      PROVE  \E r \in R : r.key = k
  <2>1. PICK r \in NiceBucketTable : r.key = k
    BY <1>1, SomeBucket, SuiteKeys
  <2>2. k[1] = suite
    BY <1>1, SuiteKeys
  <2>3. r \in R
    BY <1>2, <2>1, <2>2
  <2>4. QED
    BY <2>1, <2>3
<1>5. \A k : k \in KeysOf(R) <=> \E r \in R : k = r.key
  BY DEF KeysOf
<1>6. KeysOf(R) = S
  BY <1>3, <1>4, <1>5
<1>7. QED
  BY <1>1, <1>6

-----------------------------------------------------------------------------
(* The differences to MLFQ *)

\* The MLFQ rows a row is compared to.
MlfqOf(row, rows) ==
  Filtered(rows, LAMBDA r : r.sched = "MLFQ" /\ BaselineKey(r) = BaselineKey(row))

LEMMA MlfqRows ==
  ASSUME NEW X, NEW s \in Seq(X), NEW row, NEW m, m = MlfqOf(row, s)
  PROVE  /\ \A r : r \in ToSet(m) <=>
                    r \in ToSet(s) /\ r.sched = "MLFQ" /\ BaselineKey(r) = BaselineKey(row)
         /\ m # << >> => Last(m) \in ToSet(m)
<1> DEFINE T == {r \in X : r.sched = "MLFQ" /\ BaselineKey(r) = BaselineKey(row)}
<1>1. PICK u : u = FlattenSeq([i \in DOMAIN s |-> IF s[i] \in T THEN <<s[i]>> ELSE << >>])
  OBVIOUS
<1>2. m = u
  <2>1. \A i \in DOMAIN s : s[i] \in T <=> s[i].sched = "MLFQ" /\ BaselineKey(s[i]) = BaselineKey(row)
    OBVIOUS
  <2>2. [i \in DOMAIN s |-> IF s[i] \in T THEN <<s[i]>> ELSE << >>]
        = [i \in DOMAIN s |-> IF s[i].sched = "MLFQ" /\ BaselineKey(s[i]) = BaselineKey(row)
                             THEN <<s[i]>> ELSE << >>]
    BY <2>1, Zenon
  <2>3. QED
    BY <1>1, <2>2 DEF MlfqOf, Filtered
<1>3. \A r : r \in T <=> r \in X /\ r.sched = "MLFQ" /\ BaselineKey(r) = BaselineKey(row)
  OBVIOUS
<1> HIDE DEF T
<1>4. u \in Seq(X) /\ ToSet(u) = ToSet(s) \cap T
  BY <1>1, FilteredBy
<1>5. \A r \in ToSet(s) : r \in X
  BY DEF ToSet
<1>6. u # << >> => Last(u) \in ToSet(u)
  <2>1. PICK n \in Nat : n = Len(u)
    BY <1>4
  <2>2. u # << >> => n > 0 /\ n \in DOMAIN u /\ Last(u) = u[n]
    BY <1>4, <2>1 DEF Last
  <2>3. QED
    BY <2>2 DEF ToSet
<1>7. QED
  BY <1>2, <1>3, <1>4, <1>5, <1>6

\* A row of the differences.
LEMMA FairnessIs ==
  ASSUME NEW row, NEW rows, NEW chars, NEW f, f = Fairness(row, rows, chars),
         NEW m, m = MlfqOf(row, rows)
  PROVE  /\ f.key = ConfigKey(row) /\ f.gen = row.gen
         /\ f.baseline = IF m # << >> THEN Last(m).gen ELSE NoBaseline
<1>1. f.key = ConfigKey(row) /\ f.gen = row.gen
  BY DEF Fairness
<1>2. f.baseline = IF m # << >> THEN Last(m).gen ELSE NoBaseline
  BY DEF Fairness, MlfqOf
<1>3. QED
  BY <1>1, <1>2

FairSims == {k \in Sims(Plan) : k[4] \in FairSchedulers}

LEMMA DifferencesReport ==
  ASSUME Ready, IsFiniteSet(Sims(Plan)), NEW table,
         table = FairnessTable(MetricsTable, CharacteristicsTable)
  PROVE  /\ IsReportOf(table, FairSims)
         /\ \A x \in OfSuite(table) :
              x.baseline = IF \E k \in Sims(Plan) : k[4] = "MLFQ" /\ k[2] = x.key[2] /\ k[5] = x.key[5]
                           THEN gen ELSE NoBaseline
<1>1. LinesHere /\ FilesApart
  BY DEF Ready, LinesHere, Control
<1>2. PICK rows, M, C : rows = MetricsTable /\ M = ToSet(rows) /\ C = CharacteristicsTable
  OBVIOUS
<1>3. rows \in Seq(M)
  BY <1>1, <1>2, MetricsRows
<1>4. \A row : row \in M /\ row.suite = suite <=>
               \E k \in 1 .. Len(Plan) : \E i \in 1 .. Len(Plan[k].sims) : row = Row(k, i)
  BY <1>2, SuiteMetrics
<1>5. \A r, q \in M : ConfigKey(r) = ConfigKey(q) => r = q
  BY <1>1, <1>2, MetricsApart
<1>6. \A x : x \in table <=> \E row \in M : row.sched \in FairSchedulers /\ x = Fairness(row, rows, C)
  BY <1>2 DEF FairnessTable
<1>7. \A row : /\ Fairness(row, rows, C).key = ConfigKey(row)
               /\ Fairness(row, rows, C).gen = row.gen
  BY FairnessIs
<1>8. \A row : ConfigKey(row)[1] = row.suite /\ ConfigKey(row)[2] = row.run
               /\ ConfigKey(row)[4] = row.sched /\ ConfigKey(row)[5] = row.workload
  BY DEF ConfigKey
<1>9. \A k : k \in FairSims <=> k \in Sims(Plan) /\ k[4] \in FairSchedulers
  BY DEF FairSims
<1>10. ASSUME NEW row \in M, row.suite = suite
       PROVE  ConfigKey(row) \in Sims(Plan) /\ row.gen = gen
  <2>1. PICK k \in 1 .. Len(Plan) : \E i \in 1 .. Len(Plan[k].sims) : row = Row(k, i)
    BY <1>4, <1>10
  <2>2. PICK i \in 1 .. Len(Plan[k].sims) : row = Row(k, i)
    BY <2>1
  <2>3. ConfigKey(row) = Key(k, i) /\ row.gen = gen
    BY <2>2, RowFields
  <2>4. QED
    BY <2>3, SimsAre
<1>11. \A x \in table : x.key[1] = suite => x.key \in FairSims /\ x.gen = gen
  <2>1. ASSUME NEW x \in table, x.key[1] = suite
        PROVE  x.key \in FairSims /\ x.gen = gen
    <3>1. PICK row \in M : row.sched \in FairSchedulers /\ x = Fairness(row, rows, C)
      BY <1>6
    <3>2. x.key = ConfigKey(row) /\ x.gen = row.gen
      BY <1>7, <3>1
    <3>3. row.suite = suite
      BY <1>8, <2>1, <3>2
    <3>4. x.key[4] \in FairSchedulers
      BY <1>8, <3>1, <3>2
    <3>5. x.key \in Sims(Plan) /\ x.gen = gen
      BY <1>10, <3>2, <3>3
    <3>6. QED
      BY <1>9, <3>4, <3>5
  <2>2. QED
    BY <2>1
<1>12. ASSUME NEW x \in Sims(Plan)
       PROVE  \E row \in M : row.suite = suite /\ ConfigKey(row) = x
  <2>1. PICK k \in 1 .. Len(Plan) : \E i \in 1 .. Len(Plan[k].sims) : x = Key(k, i)
    BY SimsAre
  <2>2. PICK i \in 1 .. Len(Plan[k].sims) : x = Key(k, i)
    BY <2>1
  <2>3. PICK row : row = Row(k, i)
    OBVIOUS
  <2>4. ConfigKey(row) = x
    BY <2>2, <2>3, RowFields
  <2>5. row \in M /\ row.suite = suite
    BY <1>4, <2>3
  <2>6. QED
    BY <2>4, <2>5
<1>13. \A k \in FairSims : k[1] = suite /\ \E x \in table : x.key = k
  <2>1. ASSUME NEW k \in FairSims
        PROVE  k[1] = suite /\ \E x \in table : x.key = k
    <3>1. k \in Sims(Plan) /\ k[4] \in FairSchedulers
      BY <1>9
    <3>2. PICK row \in M : row.suite = suite /\ ConfigKey(row) = k
      BY <1>12, <3>1
    <3>3. k[1] = suite /\ row.sched \in FairSchedulers
      BY <1>8, <3>1, <3>2
    <3>4. PICK x : x = Fairness(row, rows, C)
      OBVIOUS
    <3>5. x \in table /\ x.key = k
      BY <1>6, <1>7, <3>2, <3>3, <3>4
    <3>6. QED
      BY <3>3, <3>5
  <2>2. QED
    BY <2>1
<1>14. \A x, y \in table : x.key = y.key => x = y
  <2>1. ASSUME NEW x \in table, NEW y \in table, x.key = y.key
        PROVE  x = y
    <3>1. PICK r \in M : x = Fairness(r, rows, C)
      BY <1>6
    <3>2. PICK q \in M : y = Fairness(q, rows, C)
      BY <1>6
    <3>3. ConfigKey(r) = ConfigKey(q)
      BY <1>7, <2>1, <3>1, <3>2
    <3>4. r = q
      BY <1>5, <3>3
    <3>5. QED
      BY <3>1, <3>2, <3>4
  <2>2. QED
    BY <2>1
<1>15. IsFiniteSet(FairSims)
  BY FS_Subset DEF FairSims
<1>16. IsReportOf(table, FairSims)
  BY <1>11, <1>13, <1>14, <1>15, ReportsIf
<1>17. ASSUME NEW x \in OfSuite(table)
       PROVE  x.baseline = IF \E k \in Sims(Plan) : k[4] = "MLFQ" /\ k[2] = x.key[2] /\ k[5] = x.key[5]
                           THEN gen ELSE NoBaseline
  <2>1. x \in table /\ x.key[1] = suite
    BY DEF OfSuite
  <2>2. PICK row \in M : x = Fairness(row, rows, C)
    BY <1>6, <2>1
  <2>3. PICK m : m = MlfqOf(row, rows)
    OBVIOUS
  <2>4. x.key = ConfigKey(row) /\ x.baseline = IF m # << >> THEN Last(m).gen ELSE NoBaseline
    BY <2>2, <2>3, FairnessIs
  <2>5. /\ \A r : r \in ToSet(m) <=>
                   r \in M /\ r.sched = "MLFQ" /\ BaselineKey(r) = BaselineKey(row)
        /\ m # << >> => Last(m) \in ToSet(m)
    BY <1>2, <1>3, <2>3, MlfqRows
  <2>6. row.suite = suite /\ x.key[2] = row.run /\ x.key[5] = row.workload
    BY <1>8, <2>1, <2>4
  <2>7. CASE m # << >>
    <3>1. PICK r : r = Last(m)
      OBVIOUS
    <3>2. r \in M /\ r.sched = "MLFQ" /\ BaselineKey(r) = BaselineKey(row)
      BY <2>5, <2>7, <3>1
    <3>3. r.suite = row.suite /\ r.run = row.run /\ r.workload = row.workload
      BY <3>2 DEF BaselineKey
    <3>4. ConfigKey(r) \in Sims(Plan) /\ r.gen = gen
      BY <1>10, <2>6, <3>2, <3>3
    <3>5. \E k \in Sims(Plan) : k[4] = "MLFQ" /\ k[2] = x.key[2] /\ k[5] = x.key[5]
      BY <1>8, <2>6, <3>2, <3>3, <3>4
    <3>6. QED
      BY <2>4, <2>7, <3>1, <3>4, <3>5
  <2>8. CASE m = << >>
    <3>1. ASSUME NEW k \in Sims(Plan), k[4] = "MLFQ", k[2] = x.key[2], k[5] = x.key[5]
          PROVE  FALSE
      <4>1. PICK r \in M : r.suite = suite /\ ConfigKey(r) = k
        BY <1>12
      <4>2. r.sched = "MLFQ" /\ r.run = row.run /\ r.workload = row.workload
        BY <1>8, <2>6, <3>1, <4>1
      <4>3. r.config = row.config
        <5>1. PICK a \in 1 .. Len(Plan) : \E i \in 1 .. Len(Plan[a].sims) : r = Row(a, i)
          BY <1>4, <4>1
        <5>2. PICK b \in 1 .. Len(Plan) : \E i \in 1 .. Len(Plan[b].sims) : row = Row(b, i)
          BY <1>4, <2>6
        <5>3. r.run = Plan[a].run /\ r.config = Plan[a].config
          BY <5>1, RowFields
        <5>4. row.run = Plan[b].run /\ row.config = Plan[b].config
          BY <5>2, RowFields
        <5>5. a = b
          BY <4>2, <5>3, <5>4, PlanFacts DEF Ready
        <5>6. QED
          BY <5>3, <5>4, <5>5
      <4>4. BaselineKey(r) = BaselineKey(row)
        BY <2>6, <4>1, <4>2, <4>3 DEF BaselineKey
      <4>5. r \in ToSet(m)
        BY <2>5, <4>2, <4>4
      <4>6. ToSet(m) = {}
        BY <2>8 DEF ToSet
      <4>7. QED
        BY <4>5, <4>6
    <3>2. QED
      BY <2>4, <2>8, <3>1
  <2>9. QED
    BY <2>7, <2>8
<1>18. QED
  BY <1>16, <1>17

-----------------------------------------------------------------------------
(* The index, the summary and the figures *)

\* The rows of the index.
LEMMA IndexRow ==
  ASSUME NEW d
  PROVE  /\ RunIndexRow(d).suite = d[1] /\ RunIndexRow(d).run = d[2]
         /\ RunIndexRow(d).rows = RunSummary(d).rows
BY DEF RunIndexRow

LEMMA IndexReports ==
  ASSUME Ready, tables["metrics"] = MetricsTable,
         NEW index, index = {row \in {RunIndexRow(d) : d \in ToSet(DataPaths)} : row.suite = suite}
  PROVE  {<<i.run, i.rows>> : i \in index} = {<<c.run, Len(RunRows(c.run))>> : c \in ToSet(Plan)}
<1>1. \A k \in 1 .. Len(Plan) : Plan[k] \in ToSet(Plan)
  BY PlanFacts DEF Ready
<1>2. \A c \in ToSet(Plan) : \E k \in 1 .. Len(Plan) : c = Plan[k]
  <2>1. DOMAIN Plan = 1 .. Len(Plan)
    BY PlanFacts DEF Ready
  <2>2. QED
    BY <2>1 DEF ToSet
<1>3. PICK A, B : /\ A = {<<i.run, i.rows>> : i \in index}
                  /\ B = {<<c.run, Len(RunRows(c.run))>> : c \in ToSet(Plan)}
  OBVIOUS
<1>4. \A p : p \in A <=> \E i \in index : p = <<i.run, i.rows>>
  BY <1>3
<1>5. \A p : p \in B <=> \E c \in ToSet(Plan) : p = <<c.run, Len(RunRows(c.run))>>
  BY <1>3
<1>6. \A i : i \in index <=> i.suite = suite /\ \E d \in ToSet(DataPaths) : i = RunIndexRow(d)
  OBVIOUS
<1>7. ASSUME NEW k \in 1 .. Len(Plan), NEW d, d = <<suite, Plan[k].run>>
      PROVE  /\ RunIndexRow(d) \in index
             /\ RunIndexRow(d).run = Plan[k].run /\ RunIndexRow(d).rows = Len(RunRows(Plan[k].run))
  <2>1. d \in ToSet(DataPaths) /\ RunSummary(d).rows = Len(Plan[k].sims)
    BY <1>7, CaseRead
  <2>2. Len(RunRows(Plan[k].run)) = Len(Plan[k].sims)
    BY RowsOfRun
  <2>3. d[1] = suite /\ d[2] = Plan[k].run
    BY <1>7
  <2>4. QED
    BY <1>6, <2>1, <2>2, <2>3, IndexRow
<1>8. ASSUME NEW p \in A
      PROVE  p \in B
  <2>1. PICK i \in index : p = <<i.run, i.rows>>
    BY <1>4
  <2>2. PICK d \in ToSet(DataPaths) : i = RunIndexRow(d)
    BY <1>6
  <2>3. d[1] = suite
    BY <1>6, <2>2, IndexRow
  <2>4. d \in DOMAIN runs /\ runs[d].metrics # None
    BY PathsAre DEF Ready, Control
  <2>5. PICK k \in 1 .. Len(Plan) : d = <<suite, Plan[k].run>>
    BY <2>3, <2>4, OnlyCases
  <2>6. i.run = Plan[k].run /\ i.rows = Len(RunRows(Plan[k].run))
    BY <1>7, <2>2, <2>5
  <2>7. QED
    BY <1>1, <1>5, <2>1, <2>6
<1>9. ASSUME NEW p \in B
      PROVE  p \in A
  <2>1. PICK c \in ToSet(Plan) : p = <<c.run, Len(RunRows(c.run))>>
    BY <1>5
  <2>2. PICK k \in 1 .. Len(Plan) : c = Plan[k]
    BY <1>2
  <2>3. PICK d, i : d = <<suite, Plan[k].run>> /\ i = RunIndexRow(d)
    OBVIOUS
  <2>4. i \in index /\ i.run = Plan[k].run /\ i.rows = Len(RunRows(Plan[k].run))
    BY <1>7, <2>3
  <2>5. p = <<i.run, i.rows>>
    BY <2>1, <2>2, <2>4
  <2>6. QED
    BY <1>4, <2>4, <2>5
<1>10. A = B
  BY <1>8, <1>9
<1>11. QED
  BY <1>3, <1>10

\* The summary has the slots of each row.
LEMMA SummaryHas ==
  ASSUME NEW rows, NEW i \in DOMAIN rows, NEW exp \in rows[i].experiments
  PROVE  \E s \in SummaryTable(rows) : s.slot = <<exp, rows[i].workload, rows[i].sched>>
<1>1. PICK slot : slot = <<exp, rows[i].workload, rows[i].sched>>
  OBVIOUS
<1>2. slot \in SlotsOf(rows[i])
  BY <1>1 DEF SlotsOf, SplitExperiments
<1>3. PICK slots : slots = UNION {SlotsOf(rows[j]) : j \in DOMAIN rows}
  OBVIOUS
<1>4. slot \in slots
  BY <1>2, <1>3
<1> DEFINE In(x) == Filtered(rows, LAMBDA row : x \in SlotsOf(row))
           Throughput(row) == row.throughput
           MeanRT(row) == row.meanRT
           S(x) == [slot |-> x, samples |-> Len(In(x)),
                    throughput |-> Total(Throughput, In(x)), meanRT |-> Total(MeanRT, In(x))]
<1>5. SummaryTable(rows) = {S(x) : x \in slots}
  BY <1>3 DEF SummaryTable
<1>6. S(slot).slot = slot
  OBVIOUS
<1> HIDE DEF S
<1>7. S(slot) \in SummaryTable(rows)
  BY <1>4, <1>5
<1>8. QED
  BY <1>1, <1>6, <1>7

\* A figure draws rows of the suite.
LEMMA FigureOfSuite ==
  ASSUME Ready, tables["metrics"] = MetricsTable, NEW exp, NEW row \in ToSet(FigureRows(exp))
  PROVE  row \in ToSet(SuiteRows)
<1>1. PICK s, X : s = SuiteRows /\ X = ToSet(SuiteRows)
  OBVIOUS
<1>2. s \in Seq(X)
  BY <1>1, SuiteRowsAre
<1>3. ASSUME NEW e
      PROVE  \A r \in ToSet(Subset(e)) : r \in ToSet(s)
  <2> DEFINE T == {r \in X : e \in r.experiments}
  <2>1. PICK u : u = FlattenSeq([i \in DOMAIN s |-> IF s[i] \in T THEN <<s[i]>> ELSE << >>])
    OBVIOUS
  <2>2. Subset(e) = u
    <3>1. \A i \in DOMAIN s : s[i] \in T <=> e \in s[i].experiments
      BY <1>2
    <3>2. [i \in DOMAIN s |-> IF s[i] \in T THEN <<s[i]>> ELSE << >>]
          = [i \in DOMAIN s |-> IF e \in s[i].experiments THEN <<s[i]>> ELSE << >>]
      BY <3>1, Zenon
    <3>3. QED
      BY <1>1, <2>1, <3>2 DEF Subset, Filtered
  <2> HIDE DEF T
  <2>3. ToSet(u) = ToSet(s) \cap T
    BY <1>2, <2>1, FilteredBy
  <2>4. QED
    BY <2>2, <2>3
<1>4. FigureRows(exp) = Subset(exp) \/ FigureRows(exp) = Subset("exp3")
  BY DEF FigureRows
<1>5. QED
  BY <1>1, <1>3, <1>4

-----------------------------------------------------------------------------
(* The report *)

\* A simulation without tasks has completed none, and its row says so.
LEMMA TasklessWarned ==
  ASSUME Left, NEW key \in Sims(Plan), key \notin Tasked
  PROVE  Issue("low_completion_ratio", "WARN",
               [suite |-> key[1], run |-> key[2], sched |-> key[4], workload |-> key[5]],
               "CompletionRatio") \in tables["quality"]
<1>1. Ready
  BY DEF Left
<1>2. Phase /\ Control /\ full /\ LinesHere /\ FilesApart
  BY <1>1 DEF Ready, LinesHere, Control
<1>3. PICK k \in 1 .. Len(Plan) : \E i \in 1 .. Len(Plan[k].sims) : key = Key(k, i)
  BY <1>1, SimsAre
<1>4. PICK i \in 1 .. Len(Plan[k].sims) : key = Key(k, i)
  BY <1>3
<1>5. PICK sims, line, r : sims = Plan[k].sims /\ line = Lines(k)[i] /\ r = Row(k, i)
  OBVIOUS
<1>6. Result[sims[i]].metrics.permille = 0
  <2>1. sims[i] \in ToSet(sims)
    BY <1>1, <1>5, CaseLines DEF ToSet
  <2>2. Result[sims[i]].tasks = << >>
    BY <1>1, <1>4, <1>5, TaskedAre
  <2>3. QED
    BY <1>2, <1>5, <2>1, <2>2, PlanFacts
<1>7. line.cut = 16 /\ line.result.permille = 0
  BY <1>1, <1>5, <1>6, CaseLines
<1>8. r.permille = 0
  <2>1. 9 \in 1 .. 15 /\ line.cut \in Int /\ 9 < line.cut
    BY <1>7
  <2>2. Cell(line, Columns[9]) = "value"
    BY <2>1, CellAt
  <2>3. Number(line, "CompletionRatio", 0) = 0
    BY <2>2, ColumnsAre DEF Number, NumberIn
  <2>4. Enriched(line, Plan[k].experiments).permille
          = Number(line, "CompletionRatio", line.result.permille)
    BY DEF Enriched
  <2>5. QED
    BY <1>5, <1>7, <2>3, <2>4 DEF Row
<1>9. r.suite = key[1] /\ r.run = key[2] /\ r.sched = key[4] /\ r.workload = key[5]
  BY <1>1, <1>4, <1>5, RowFields DEF Key
<1>10. PICK q : q = Issue("low_completion_ratio", "WARN", r, "CompletionRatio")
  OBVIOUS
<1>11. q \in LowCompletion(r)
  BY <1>8, <1>10 DEF LowCompletion
<1>12. q \in QualityTable
  <2>1. r \in ToSet(MetricsTable)
    BY <1>1, <1>5, SuiteMetrics
  <2>2. PICK j \in DOMAIN MetricsTable : r = MetricsTable[j]
    BY <2>1 DEF ToSet
  <2>3. j \in DOMAIN LinesRead /\ q \in LowCompletion(MetricsTable[j])
    BY <1>2, <1>11, <2>2, RowsAre
  <2>4. PICK lines : lines = LinesRead
    OBVIOUS
  <2>5. QualityTable = UNION {MissingCells(lines[n], MetricsTable[n])
                              \cup LowCompletion(MetricsTable[n])
                              \cup InvalidLogScale(MetricsTable[n]) : n \in DOMAIN lines}
                       \cup Duplicates(MetricsTable)
    BY <2>4, Zenon DEF QualityTable, LinesRead
  <2>6. PICK U : U = {MissingCells(lines[n], MetricsTable[n])
                        \cup LowCompletion(MetricsTable[n])
                        \cup InvalidLogScale(MetricsTable[n]) : n \in DOMAIN lines}
    OBVIOUS
  <2>7. PICK S : S = MissingCells(lines[j], MetricsTable[j])
                       \cup LowCompletion(MetricsTable[j])
                       \cup InvalidLogScale(MetricsTable[j])
    OBVIOUS
  <2>8. q \in S
    BY <2>3, <2>7
  <2>9. S \in U
    BY <2>3, <2>4, <2>6, <2>7
  <2>10. q \in UNION U
    BY <2>8, <2>9
  <2>11. QualityTable = UNION U \cup Duplicates(MetricsTable)
    BY <2>5, <2>6
  <2>12. QED
    BY <2>10, <2>11
<1>13. q = Issue("low_completion_ratio", "WARN",
                 [suite |-> key[1], run |-> key[2], sched |-> key[4], workload |-> key[5]],
                 "CompletionRatio")
  BY <1>9, <1>10 DEF Issue
<1>14. QED
  BY <1>12, <1>13, TablesLeft

LEMMA ReportIs ==
  ASSUME Left
  PROVE  ReportsCurrentRun
<1>1. Ready
  BY DEF Left
<1>2. PICK M : M = ToSet(MetricsTable)
  OBVIOUS
<1> DEFINE sims == Sims(Plan)
           rows == SuiteRows
           fair == {row \in ToSet(tables["metrics"]) : row.sched \in FairSchedulers}
<1>3. tables["metrics"] = MetricsTable
  BY TablesLeft
<1>4. /\ IsFiniteSet(sims) /\ Len(rows) = Cardinality(sims)
      /\ \A row \in ToSet(rows) : ConfigKey(row) \in sims
      /\ \A x \in sims : \E row \in ToSet(rows) : x = ConfigKey(row)
  BY <1>1, <1>2, <1>3, OneRowEach
<1>5. \A i \in DOMAIN rows : rows[i] \in ToSet(rows)
  BY DEF ToSet
<1>6. \A row \in ToSet(rows) : \E i \in DOMAIN rows : row = rows[i]
  BY DEF ToSet
<1>7. {ConfigKey(rows[i]) : i \in DOMAIN rows} = sims
  BY <1>4, <1>5, <1>6
<1>8. ASSUME NEW row \in ToSet(rows)
      PROVE  /\ row.gen = gen /\ row \in M
             /\ \E c \in ToSet(Plan) : c.run = row.run /\ c.experiments = row.experiments
  <2>1. row \in M /\ row.suite = suite
    BY <1>1, <1>2, <1>3, SuiteRowsAre
  <2>2. PICK k \in 1 .. Len(Plan) : \E i \in 1 .. Len(Plan[k].sims) : row = Row(k, i)
    BY <1>1, <1>2, <2>1, SuiteMetrics
  <2>3. PICK i \in 1 .. Len(Plan[k].sims) : row = Row(k, i)
    BY <2>2
  <2>4. row.gen = gen /\ row.run = Plan[k].run /\ row.experiments = Plan[k].experiments
    BY <1>1, <2>3, RowFields
  <2>5. Plan[k] \in ToSet(Plan)
    BY <1>1, PlanFacts DEF Ready
  <2>6. QED
    BY <2>1, <2>4, <2>5
<1>9. {<<i.run, i.rows>> : i \in {row \in tables["index"] : row.suite = suite}} =
         {<<c.run, Len(Filtered(rows, LAMBDA row : row.run = c.run))>> : c \in ToSet(Plan)}
  <2>1. PICK index : index = {row \in {RunIndexRow(d) : d \in ToSet(DataPaths)} : row.suite = suite}
    OBVIOUS
  <2>2. {row \in tables["index"] : row.suite = suite} = index
    BY <2>1, TablesLeft
  <2>3. {<<i.run, i.rows>> : i \in index} = {<<c.run, Len(RunRows(c.run))>> : c \in ToSet(Plan)}
    BY <1>1, <1>3, <2>1, IndexReports
  <2>4. QED
    BY <2>2, <2>3 DEF RunRows, Filtered
<1>10. AllTasks # << >> =>
         /\ IsReportOf(tables["allocation"], Tasked)
         /\ IsReportOf(tables["characteristics"], Tasked)
         /\ KeysOf(OfSuite(tables["buckets"])) = Tasked
  <2>1. IsFiniteSet(Tasked)
    <3>1. Tasked \subseteq Sims(Plan)
      BY DEF Tasked
    <3>2. QED
      BY <1>4, <3>1, FS_Subset
  <2>2. QED
    BY <1>1, <2>1, TablesLeft, TaskTables, BucketKeys
<1>11. \A k \in sims \ Tasked :
         Issue("low_completion_ratio", "WARN",
               [suite |-> k[1], run |-> k[2], sched |-> k[4], workload |-> k[5]],
               "CompletionRatio") \in tables["quality"]
  BY TasklessWarned
<1>12. ASSUME fair # {}
       PROVE  /\ IsReportOf(tables["fairness"], {k \in sims : k[4] \in FairSchedulers})
              /\ \A row \in OfSuite(tables["fairness"]) :
                   row.baseline = IF \E k \in sims : /\ k[4] = "MLFQ" /\ k[2] = row.key[2]
                                                   /\ k[5] = row.key[5]
                                  THEN gen ELSE NoBaseline
  <2>1. \E row \in ToSet(MetricsTable) : row.sched \in FairSchedulers
    BY <1>3, <1>12
  <2>2. PICK table : table = tables["fairness"]
    OBVIOUS
  <2>3. table = FairnessTable(MetricsTable, CharacteristicsTable)
    BY <2>1, <2>2, TablesLeft
  <2>4. IsReportOf(table, FairSims)
    BY <1>1, <1>2, <1>4, <2>3, DifferencesReport
  <2>5. \A x \in OfSuite(table) :
          x.baseline = IF \E k \in Sims(Plan) : k[4] = "MLFQ" /\ k[2] = x.key[2] /\ k[5] = x.key[5]
                       THEN gen ELSE NoBaseline
    BY <1>1, <1>2, <1>4, <2>3, DifferencesReport
  <2>6. FairSims = {k \in sims : k[4] \in FairSchedulers}
    BY <1>2 DEF FairSims
  <2>7. QED
    BY <1>2, <2>2, <2>4, <2>5, <2>6
<1>13. ASSUME NEW row \in ToSet(rows), NEW exp \in row.experiments
       PROVE  \E s \in tables["summary"] : s.slot = <<exp, row.workload, row.sched>>
  <2>1. PICK t : t = MetricsTable
    OBVIOUS
  <2>2. PICK i \in DOMAIN t : row = t[i]
    BY <1>2, <1>8, <2>1 DEF ToSet
  <2>3. \E s \in SummaryTable(t) : s.slot = <<exp, t[i].workload, t[i].sched>>
    BY <1>13, <2>2, SummaryHas
  <2>4. tables["summary"] = SummaryTable(t)
    BY <1>3, <2>1 DEF Left
  <2>5. QED
    BY <2>2, <2>3, <2>4
<1>14. ASSUME NEW exp \in DOMAIN drawn, NEW row \in ToSet(drawn[exp])
       PROVE  row.gen = gen
  <2>1. drawn[exp] = FigureRows(exp)
    BY DEF Left
  <2>2. row \in ToSet(SuiteRows)
    BY <1>1, <1>3, <2>1, FigureOfSuite
  <2>3. QED
    BY <1>2, <1>8, <2>2
<1>15. \A i \in DOMAIN rows :
         /\ rows[i].gen = gen
         /\ \E c \in ToSet(Plan) : c.run = rows[i].run /\ c.experiments = rows[i].experiments
  BY <1>5, <1>8
<1>16. QED
  BY <1>2, <1>4, <1>7, <1>9, <1>10, <1>11, <1>12, <1>13, <1>14, <1>15
     DEF ReportsCurrentRun, Tasked

LEMMA DoneReports ==
  Control /\ OneExecution /\ FilesApart /\ ManifestDescribesMetrics /\ Phase /\ Progress /\ Reporting
    => ReportsCurrentRun
<1>1. ASSUME Control, OneExecution, FilesApart, ManifestDescribesMetrics, Phase, Progress, Reporting,
             pc = "done"
      PROVE  Left
  <2>1. full /\ Whole /\ summaries[suite] = statuses /\ suite \notin uncleaned
    BY <1>1 DEF Phase, Progress
  <2>2. Ready
    BY <1>1, <2>1 DEF Ready
  <2>3. QED
    BY <1>1, <2>2 DEF Left, Reporting
<1>2. pc # "done" => ReportsCurrentRun
  BY DEF ReportsCurrentRun
<1>3. QED
  BY <1>1, <1>2, ReportIs

\* When run_full_analysis.sh reports success, everything it leaves about its
\* suite is of this execution and of all of it.
THEOREM ReportOfThisRun == Spec => []ReportsCurrentRun
<1>1. IInv /\ Control /\ OneExecution /\ FilesApart /\ Phase /\ Progress /\ Reporting
        => ReportsCurrentRun
  BY DoneReports DEF IInv
<1>2. IInv => RunsShape
  BY DEF IInv
<1>3. QED
  BY InitIInv, NextIInv, ControlInit, ControlStep, OneExecutionInit, OneExecutionStep,
     TableStateInit, TableStateStep, FilesApartInit, FilesApartStep, PhaseInit, PhaseStep,
     ProgressStep, ReportingInit, ReportingStep, <1>1, <1>2, PTL
     DEF Spec

-----------------------------------------------------------------------------
(* Sums *)

\* Subsets of a finite set, by size.
LEMMA Sizes ==
  ASSUME NEW U, IsFiniteSet(U)
  PROVE  /\ Cardinality(U) \in Nat
         /\ \A T \in SUBSET U : /\ IsFiniteSet(T) /\ Cardinality(T) \in 0 .. Cardinality(U)
                                /\ Cardinality(T) = 0 <=> T = {}
                                /\ \A x \in T : Cardinality(T \ {x}) = Cardinality(T) - 1
<1>1. Cardinality(U) \in Nat
  BY FS_CardinalityType
<1>2. ASSUME NEW T \in SUBSET U
      PROVE  /\ IsFiniteSet(T) /\ Cardinality(T) \in 0 .. Cardinality(U)
             /\ Cardinality(T) = 0 <=> T = {}
             /\ \A x \in T : Cardinality(T \ {x}) = Cardinality(T) - 1
  <2>1. IsFiniteSet(T) /\ Cardinality(T) <= Cardinality(U)
    BY FS_Subset
  <2>2. Cardinality(T) \in Nat
    BY <2>1, FS_CardinalityType
  <2>3. Cardinality(T) = 0 <=> T = {}
    BY <2>1, FS_EmptySet
  <2>4. \A x \in T : Cardinality(T \ {x}) = Cardinality(T) - 1
    BY <2>1, FS_RemoveElement
  <2>5. QED
    BY <1>1, <2>1, <2>2, <2>3, <2>4
<1>3. QED
  BY <1>1, <1>2

\* Induction on the size, for a set of subsets.
LEMMA BySize ==
  ASSUME NEW U, IsFiniteSet(U), NEW C, {} \in C,
         \A T \in SUBSET U : (T # {} /\ \A x \in T : T \ {x} \in C) => T \in C
  PROVE  \A T \in SUBSET U : T \in C
<1>1. PICK n \in Nat : n = Cardinality(U)
  BY Sizes
<1> DEFINE S == {i \in 0 .. n : \A T \in SUBSET U : Cardinality(T) = i => T \in C}
<1>2. 0 \in S
  BY <1>1, Sizes
<1>3. ASSUME NEW i \in 1 .. n, i - 1 \in S
      PROVE  i \in S
  <2>1. ASSUME NEW T \in SUBSET U, Cardinality(T) = i
        PROVE  T \in C
    <3>1. T # {} /\ \A x \in T : Cardinality(T \ {x}) = i - 1
      BY <2>1, Sizes
    <3>2. \A x \in T : T \ {x} \in SUBSET U
      OBVIOUS
    <3>3. \A x \in T : T \ {x} \in C
      BY <1>3, <3>1, <3>2
    <3>4. QED
      BY <3>1, <3>3
  <2>2. QED
    BY <2>1
<1> HIDE DEF S
<1>4. 0 .. n \subseteq S
  BY <1>2, <1>3, UpTo
<1>5. \A T \in SUBSET U : Cardinality(T) \in 0 .. n
  BY <1>1, Sizes
<1>6. QED
  BY <1>4, <1>5 DEF S

\* Element by element.
LEMMA OneByOne ==
  ASSUME NEW U, IsFiniteSet(U), NEW C, {} \in C,
         \A T \in SUBSET U : \A x \in U \ T : T \in C => T \cup {x} \in C
  PROVE  \A T \in SUBSET U : T \in C
<1>1. ASSUME NEW T \in SUBSET U, T # {}, \A x \in T : T \ {x} \in C
      PROVE  T \in C
  <2>1. PICK x \in T : TRUE
    BY <1>1
  <2>2. PICK R : R = T \ {x}
    OBVIOUS
  <2>3. R \in SUBSET U /\ R \in C /\ x \in U \ R
    BY <1>1, <2>2
  <2>4. R \cup {x} \in C
    BY <2>3
  <2>5. T = R \cup {x}
    BY <2>2
  <2>6. QED
    BY <2>4, <2>5
<1>2. QED
  BY <1>1, BySize

\* h sums f up over each subset of U: whichever element is taken first.
IsSum(h, f, U) ==
  /\ h \in [SUBSET U -> Int] /\ h[{}] = 0
  /\ \A T \in SUBSET U : \A x \in T : h[T] = f[x] + h[T \ {x}]

\* The sum as the folds of the community modules compute it.
Chosen(s) == CHOOSE x \in s : TRUE

FoldsAt(h, f, s) == h[s] = IF s = {} THEN 0 ELSE f[Chosen(s)] + h[s \ {Chosen(s)}]

IsFold(h, f, U) ==
  h = [s \in SUBSET U |-> IF s = {} THEN 0 ELSE f[Chosen(s)] + h[s \ {Chosen(s)}]]

LEMMA ChosenIn ==
  ASSUME NEW s, s # {}
  PROVE  Chosen(s) \in s
BY DEF Chosen

LEMMA FoldExists ==
  ASSUME NEW U, IsFiniteSet(U), NEW f \in [U -> Int]
  PROVE  \E h : IsFold(h, f, U)
<1>1. PICK n \in Nat : n = Cardinality(U)
  BY Sizes
<1> DEFINE P(h, i) == /\ h \in [SUBSET U -> Int]
                      /\ \A s \in SUBSET U : Cardinality(s) <= i => FoldsAt(h, f, s)
           S == {i \in 0 .. n : \E h : P(h, i)}
<1>2. 0 \in S
  <2>1. PICK h : h = [s \in SUBSET U |-> 0]
    OBVIOUS
  <2>2. \A s \in SUBSET U : Cardinality(s) <= 0 => s = {}
    BY Sizes
  <2>3. P(h, 0)
    BY <2>1, <2>2 DEF FoldsAt
  <2>4. 0 \in 0 .. n
    OBVIOUS
  <2>5. QED
    BY <2>3, <2>4, Zenon
<1>3. ASSUME NEW i \in 1 .. n, i - 1 \in S
      PROVE  i \in S
  <2>1. PICK h : P(h, i - 1)
    BY <1>3
  <2>2. PICK g : g = [s \in SUBSET U |-> IF Cardinality(s) = i THEN f[Chosen(s)] + h[s \ {Chosen(s)}]
                                         ELSE h[s]]
    OBVIOUS
  <2>3. ASSUME NEW s \in SUBSET U
        PROVE  /\ g[s] \in Int
               /\ s # {} => /\ s \ {Chosen(s)} \in SUBSET U /\ f[Chosen(s)] \in Int
                            /\ Cardinality(s \ {Chosen(s)}) = Cardinality(s) - 1
               /\ Cardinality(s) \in Nat /\ (Cardinality(s) = 0 <=> s = {})
    <3>1. Cardinality(s) \in Nat /\ (Cardinality(s) = 0 <=> s = {})
      BY <1>1, Sizes
    <3>2. s # {} => Chosen(s) \in s
      BY ChosenIn
    <3>3. s # {} => Cardinality(s \ {Chosen(s)}) = Cardinality(s) - 1
      BY <3>2, Sizes
    <3>4. s # {} => f[Chosen(s)] \in Int /\ s \ {Chosen(s)} \in SUBSET U
      BY <3>2
    <3>5. g[s] \in Int
      BY <2>1, <2>2, <3>1, <3>4
    <3>6. QED
      BY <3>1, <3>3, <3>4, <3>5
  <2>4. g \in [SUBSET U -> Int]
    BY <2>2, <2>3
  <2>5. ASSUME NEW s \in SUBSET U, Cardinality(s) <= i
        PROVE  FoldsAt(g, f, s)
    <3>1. CASE s = {}
      <4>1. Cardinality(s) = 0 /\ i \in Nat /\ i > 0
        <5>1. Cardinality(s) = 0
          BY <3>1, FS_EmptySet
        <5>2. QED
          BY <5>1
      <4>2. g[s] = h[s]
        BY <2>2, <4>1
      <4>3. FoldsAt(h, f, s)
        BY <2>1, <4>1
      <4>4. h[s] = 0
        BY <3>1, <4>3 DEF FoldsAt
      <4>5. QED
        BY <3>1, <4>2, <4>4 DEF FoldsAt
    <3>2. CASE s # {}
      <4>1. PICK r : r = s \ {Chosen(s)}
        OBVIOUS
      <4>2. r \in SUBSET U /\ Cardinality(r) = Cardinality(s) - 1 /\ Cardinality(s) \in Nat
        BY <2>3, <3>2, <4>1
      <4>3. g[r] = h[r]
        BY <2>2, <2>5, <4>2
      <4>4. g[s] = f[Chosen(s)] + h[r]
        <5>1. CASE Cardinality(s) = i
          BY <2>2, <4>1, <5>1
        <5>2. CASE Cardinality(s) # i
          <6>1. Cardinality(s) <= i - 1
            BY <2>5, <4>2, <5>2
          <6>2. h[s] = f[Chosen(s)] + h[r]
            BY <2>1, <3>2, <4>1, <6>1 DEF FoldsAt
          <6>3. QED
            BY <2>2, <5>2, <6>2
        <5>3. QED
          BY <5>1, <5>2
      <4>5. QED
        BY <3>2, <4>1, <4>3, <4>4 DEF FoldsAt
    <3>3. QED
      BY <3>1, <3>2
  <2>6. P(g, i)
    BY <2>4, <2>5
  <2>7. i \in 0 .. n
    OBVIOUS
  <2>8. QED
    BY <2>6, <2>7, Zenon
<1>4. n \in 0 .. n
  OBVIOUS
<1>5. 0 .. n \subseteq S
  <2> HIDE DEF S
  <2>1. QED
    BY <1>2, <1>3, UpTo
<1>6. PICK h : P(h, n)
  BY <1>4, <1>5, Zenon
<1>7. \A s \in SUBSET U : FoldsAt(h, f, s)
  BY <1>1, <1>6, Sizes
<1>8. h = [s \in SUBSET U |-> h[s]]
  BY <1>6
<1>9. IsFold(h, f, U)
  BY <1>7, <1>8 DEF IsFold, FoldsAt
<1>10. QED
  BY <1>9

\* The element taken first does not matter.
LEMMA FoldSums ==
  ASSUME NEW U, IsFiniteSet(U), NEW f \in [U -> Int], NEW h, IsFold(h, f, U)
  PROVE  IsSum(h, f, U)
<1>1. ASSUME NEW T \in SUBSET U
      PROVE  h[T] = IF T = {} THEN 0 ELSE f[Chosen(T)] + h[T \ {Chosen(T)}]
  BY DEF IsFold
<1>2. \A T \in SUBSET U : h[T] \in Int
  <2> DEFINE C == {T \in SUBSET U : h[T] \in Int}
  <2>1. {} \in C
    <3>1. {} \in SUBSET U
      OBVIOUS
    <3>2. h[{}] = 0
      BY <1>1, <3>1
    <3>3. QED
      BY <3>1, <3>2
  <2>2. ASSUME NEW T \in SUBSET U, T # {}, \A x \in T : T \ {x} \in C
        PROVE  T \in C
    <3>1. PICK c : c = Chosen(T)
      OBVIOUS
    <3>2. c \in T
      BY <2>2, <3>1, ChosenIn
    <3>3. h[T] = f[c] + h[T \ {c}]
      BY <1>1, <2>2, <3>1
    <3>4. h[T \ {c}] \in Int /\ f[c] \in Int
      BY <2>2, <3>2
    <3>5. QED
      BY <3>3, <3>4
  <2> HIDE DEF C
  <2>3. \A T \in SUBSET U : T \in C
    BY <2>1, <2>2, BySize
  <2>4. QED
    BY <2>3 DEF C
<1> DEFINE C == {T \in SUBSET U : \A x \in T : h[T] = f[x] + h[T \ {x}]}
<1>3. {} \in C
  OBVIOUS
<1>4. ASSUME NEW T \in SUBSET U, T # {}, \A x \in T : T \ {x} \in C
      PROVE  T \in C
  <2>1. PICK c : c = Chosen(T)
    OBVIOUS
  <2>2. c \in T
    BY <1>4, <2>1, ChosenIn
  <2>3. h[T] = f[c] + h[T \ {c}]
    BY <1>1, <1>4, <2>1
  <2>4. ASSUME NEW x \in T, x # c
        PROVE  h[T] = f[x] + h[T \ {x}]
    <3>1. PICK R, Q, Z : R = T \ {c} /\ Q = T \ {x} /\ Z = R \ {x}
      OBVIOUS
    <3>2. R \in C /\ Q \in C /\ x \in R /\ c \in Q
      BY <1>4, <2>2, <2>4, <3>1
    <3>3. Z = Q \ {c} /\ Z \in SUBSET U
      BY <3>1
    <3>4. h[R] = f[x] + h[Z]
      BY <3>1, <3>2
    <3>5. h[Q] = f[c] + h[Z]
      BY <3>2, <3>3
    <3>6. h[Z] \in Int /\ f[x] \in Int /\ f[c] \in Int
      BY <1>2, <2>2, <3>3
    <3>7. h[T] = f[c] + (f[x] + h[Z])
      BY <2>3, <3>1, <3>4
    <3>8. QED
      BY <3>1, <3>5, <3>6, <3>7
  <2>5. QED
    BY <2>3, <2>4
<1> HIDE DEF C
<1>5. \A T \in SUBSET U : T \in C
  BY <1>3, <1>4, BySize
<1>6. h \in [SUBSET U -> Int]
  <2>1. h = [s \in SUBSET U |-> h[s]]
    BY DEF IsFold
  <2>2. QED
    BY <1>2, <2>1
<1>7. h[{}] = 0
  BY <1>1
<1>8. \A T \in SUBSET U : \A x \in T : h[T] = f[x] + h[T \ {x}]
  BY <1>5 DEF C
<1>9. QED
  BY <1>6, <1>7, <1>8 DEF IsSum

LEMMA SumExists ==
  ASSUME NEW U, IsFiniteSet(U), NEW f \in [U -> Int]
  PROVE  \E h : IsSum(h, f, U)
BY FoldExists, FoldSums

\* One more element.
LEMMA SumAdd ==
  ASSUME NEW U, NEW f, NEW h, IsSum(h, f, U), NEW T \in SUBSET U, NEW x \in U \ T
  PROVE  h[T \cup {x}] = f[x] + h[T] /\ h[T] \in Int
<1>1. PICK R : R = T \cup {x}
  OBVIOUS
<1>2. R \in SUBSET U /\ x \in R /\ R \ {x} = T
  BY <1>1
<1>3. h[R] = f[x] + h[R \ {x}]
  BY <1>2 DEF IsSum
<1>4. h[T] \in Int
  BY DEF IsSum
<1>5. QED
  BY <1>1, <1>2, <1>3, <1>4

\* The sum over a union of sets without a common element.
LEMMA SumUnion ==
  ASSUME NEW U, IsFiniteSet(U), NEW f \in [U -> Int], NEW h, IsSum(h, f, U),
         NEW A \in SUBSET U, NEW B \in SUBSET U, A \cap B = {}
  PROVE  h[A \cup B] = h[A] + h[B]
<1> DEFINE C == {T \in SUBSET U : T \cap A = {} => h[A \cup T] = h[A] + h[T]}
<1>1. {} \in C
  <2>1. h[{}] = 0 /\ h[A] \in Int /\ A \cup {} = A
    BY DEF IsSum
  <2>2. QED
    BY <2>1
<1>2. ASSUME NEW T \in SUBSET U, NEW x \in U \ T, T \in C
      PROVE  T \cup {x} \in C
  <2>1. ASSUME (T \cup {x}) \cap A = {}
        PROVE  h[A \cup (T \cup {x})] = h[A] + h[T \cup {x}]
    <3>1. PICK R : R = A \cup T
      OBVIOUS
    <3>2. R \in SUBSET U /\ x \in U \ R /\ T \cap A = {}
      BY <2>1, <3>1
    <3>3. h[R \cup {x}] = f[x] + h[R] /\ h[T \cup {x}] = f[x] + h[T] /\ h[T] \in Int
      BY <3>2, SumAdd
    <3>4. h[R] = h[A] + h[T]
      BY <1>2, <3>1, <3>2
    <3>5. h[A] \in Int /\ f[x] \in Int
      BY DEF IsSum
    <3>6. A \cup (T \cup {x}) = R \cup {x}
      BY <3>1
    <3>7. PICK Q : Q = T \cup {x}
      OBVIOUS
    <3>8. h[R \cup {x}] = h[A] + h[Q]
      BY <3>3, <3>4, <3>5, <3>7
    <3>9. A \cup Q = R \cup {x}
      BY <3>6, <3>7
    <3>10. QED
      BY <3>7, <3>8, <3>9
  <2>2. QED
    BY <2>1
<1> HIDE DEF C
<1>3. \A T \in SUBSET U : T \in C
  BY <1>1, <1>2, OneByOne
<1>4. QED
  BY <1>3 DEF C

\* Sums of naturals.
LEMMA SumNat ==
  ASSUME NEW U, IsFiniteSet(U), NEW f \in [U -> Nat], NEW h, IsSum(h, f, U)
  PROVE  \A T \in SUBSET U : h[T] \in Nat
<1> DEFINE C == {T \in SUBSET U : h[T] \in Nat}
<1>1. {} \in C
  BY DEF IsSum
<1>2. ASSUME NEW T \in SUBSET U, NEW x \in U \ T, T \in C
      PROVE  T \cup {x} \in C
  <2>1. h[T \cup {x}] = f[x] + h[T]
    BY SumAdd
  <2>2. QED
    BY <1>2, <2>1
<1> HIDE DEF C
<1>3. \A T \in SUBSET U : T \in C
  BY <1>1, <1>2, OneByOne
<1>4. QED
  BY <1>3 DEF C

LEMMA Distribute == \A a, b, c \in Int : (a + b) * c = a * c + b * c
OBVIOUS

\* The sum of what is bounded by two others, each times a number.
LEMMA SumBound ==
  ASSUME NEW U, IsFiniteSet(U), NEW e, NEW f \in [U -> Int], NEW g \in [U -> Int],
         NEW u, NEW v, NEW w, IsSum(u, e, U), IsSum(v, f, U), IsSum(w, g, U),
         NEW a \in Int, NEW b \in Int, \A x \in U : e[x] \in Int /\ e[x] <= f[x] * a + g[x] * b
  PROVE  u[U] <= v[U] * a + w[U] * b
<1> DEFINE C == {T \in SUBSET U : u[T] <= v[T] * a + w[T] * b}
<1>1. {} \in C
  BY DEF IsSum
<1>2. ASSUME NEW T \in SUBSET U, NEW x \in U \ T, T \in C
      PROVE  T \cup {x} \in C
  <2>1. PICK R, p, q, r, i, j, k : /\ R = T \cup {x} /\ p = u[T] /\ q = v[T] /\ r = w[T]
                                   /\ i = e[x] /\ j = f[x] /\ k = g[x]
    OBVIOUS
  <2>2. p \in Int /\ q \in Int /\ r \in Int /\ i \in Int /\ j \in Int /\ k \in Int
    BY <2>1 DEF IsSum
  <2>3. u[R] = i + p /\ v[R] = j + q /\ w[R] = k + r
    <3>1. x \in U \ T
      OBVIOUS
    <3>2. IsSum(u, e, U) /\ IsSum(v, f, U) /\ IsSum(w, g, U)
      OBVIOUS
    <3>3. u[T \cup {x}] = e[x] + u[T]
      BY <3>1, <3>2, SumAdd
    <3>4. v[T \cup {x}] = f[x] + v[T]
      BY <3>1, <3>2, SumAdd
    <3>5. w[T \cup {x}] = g[x] + w[T]
      BY <3>1, <3>2, SumAdd
    <3>6. QED
      BY <2>1, <3>3, <3>4, <3>5
  <2>4. i <= j * a + k * b
    BY <2>1
  <2>5. p <= q * a + r * b
    BY <1>2, <2>1
  <2>6. (j + q) * a = j * a + q * a /\ (k + r) * b = k * b + r * b
    BY <2>2, Distribute
  <2>7. j * a \in Int /\ q * a \in Int /\ k * b \in Int /\ r * b \in Int
    BY <2>2
  <2>8. i + p <= (j + q) * a + (k + r) * b
    BY <2>2, <2>4, <2>5, <2>6, <2>7
  <2>9. R \in SUBSET U
    BY <2>1
  <2>10. QED
    BY <2>1, <2>3, <2>8, <2>9
<1> HIDE DEF C
<1>3. \A T \in SUBSET U : T \in C
  BY <1>1, <1>2, OneByOne
<1>4. QED
  BY <1>3 DEF C

\* The same numbers at other places.
LEMMA SumMoved ==
  ASSUME NEW U, NEW f, NEW h, IsSum(h, f, U),
         NEW V, IsFiniteSet(V), NEW g, NEW k, IsSum(k, g, V),
         NEW p \in [V -> U], \A x, y \in V : p[x] = p[y] => x = y, \A y \in V : g[y] = f[p[y]]
  PROVE  k[V] = h[{p[y] : y \in V}]
<1> DEFINE Im(T) == {p[y] : y \in T}
           C == {T \in SUBSET V : k[T] = h[Im(T)]}
<1>1. {} \in C
  <2>1. Im({}) = {}
    OBVIOUS
  <2>2. QED
    BY <2>1 DEF IsSum
<1>2. ASSUME NEW T \in SUBSET V, NEW x \in V \ T, T \in C
      PROVE  T \cup {x} \in C
  <2>1. PICK R : R = Im(T)
    OBVIOUS
  <2>2. R \in SUBSET U /\ p[x] \in U \ R
    BY <2>1
  <2>3. Im(T \cup {x}) = R \cup {p[x]}
    BY <2>1
  <2>4. k[T \cup {x}] = g[x] + k[T]
    BY SumAdd
  <2>5. h[R \cup {p[x]}] = f[p[x]] + h[R]
    BY <2>2, SumAdd
  <2>6. k[T] = h[R] /\ g[x] = f[p[x]]
    BY <1>2, <2>1
  <2>7. QED
    BY <2>3, <2>4, <2>5, <2>6
<1> HIDE DEF C
<1>3. \A T \in SUBSET V : T \in C
  BY <1>1, <1>2, OneByOne
<1>4. QED
  BY <1>3 DEF C

\* g has the sum h of each class of U, times a number.
ByClass(g, N, h, U, class, w) ==
  \A n \in N : g[n] = h[{i \in U : class[i] = n}] * w

\* Class by class.
LEMMA SumByClass ==
  ASSUME NEW U, IsFiniteSet(U), NEW f \in [U -> Int], NEW h, IsSum(h, f, U),
         NEW N, IsFiniteSet(N), NEW g, NEW k, IsSum(k, g, N),
         NEW class \in [U -> N], NEW w \in Int, ByClass(g, N, h, U, class, w)
  PROVE  k[N] = h[U] * w
<1> DEFINE In(M) == {i \in U : class[i] \in M}
           C == {M \in SUBSET N : k[M] = h[In(M)] * w}
<1>1. {} \in C
  <2>1. In({}) = {}
    OBVIOUS
  <2>2. h[{}] = 0 /\ k[{}] = 0
    BY DEF IsSum
  <2>3. 0 * w = 0
    OBVIOUS
  <2>4. QED
    BY <2>1, <2>2, <2>3
<1>2. ASSUME NEW M \in SUBSET N, NEW n \in N \ M, M \in C
      PROVE  M \cup {n} \in C
  <2>1. PICK A, B : A = In(M) /\ B = {i \in U : class[i] = n}
    OBVIOUS
  <2>2. A \in SUBSET U /\ B \in SUBSET U /\ A \cap B = {}
    BY <2>1
  <2>3. In(M \cup {n}) = A \cup B
    BY <2>1
  <2>4. h[A \cup B] = h[A] + h[B]
    BY <2>2, SumUnion
  <2>5. k[M \cup {n}] = g[n] + k[M]
    <3>1. n \in N \ M /\ M \in SUBSET N
      OBVIOUS
    <3>2. IsSum(k, g, N)
      OBVIOUS
    <3>3. QED
      <4>1. \A S \in SUBSET N : \A y \in S : k[S] = g[y] + k[S \ {y}]
        BY <3>2 DEF IsSum
      <4>2. PICK S : S = M \cup {n}
        OBVIOUS
      <4>3. S \in SUBSET N /\ n \in S /\ S \ {n} = M
        BY <3>1, <4>2
      <4>4. k[S] = g[n] + k[S \ {n}]
        BY <4>1, <4>3
      <4>5. QED
        BY <4>2, <4>3, <4>4
  <2>6. k[M] = h[A] * w /\ g[n] = h[B] * w
    BY <1>2, <2>1 DEF ByClass
  <2>7. PICK x, y : x = h[A] /\ y = h[B]
    OBVIOUS
  <2>8. x \in Int /\ y \in Int
    BY <2>2, <2>7 DEF IsSum
  <2>9. (x + y) * w = x * w + y * w /\ x * w \in Int /\ y * w \in Int
    BY <2>8, Distribute
  <2>10. k[M \cup {n}] = (x + y) * w
    BY <2>5, <2>6, <2>7, <2>9
  <2>11. QED
    BY <2>3, <2>4, <2>7, <2>10
<1> HIDE DEF C
<1>3. \A M \in SUBSET N : M \in C
  BY <1>1, <1>2, OneByOne
<1>4. N \in C /\ In(N) = U
  BY <1>3
<1>5. QED
  BY <1>4 DEF C

\* u is s at the places I, in some order p.
Picks(p, u, s, I) ==
  /\ p \in [DOMAIN u -> DOMAIN s]
  /\ \A j, k \in DOMAIN u : p[j] = p[k] => j = k
  /\ \A j \in DOMAIN u : u[j] = s[p[j]]
  /\ {p[j] : j \in DOMAIN u} = I

\* Which elements a filter keeps, and where they were.
LEMMA FilteredPlaces ==
  ASSUME NEW X, NEW s \in Seq(X), NEW T,
         NEW u, u = FlattenSeq([i \in DOMAIN s |-> IF s[i] \in T THEN <<s[i]>> ELSE << >>]),
         NEW I, I = {i \in DOMAIN s : s[i] \in T}
  PROVE  u \in Seq(X) /\ \E p : Picks(p, u, s, I)
<1>1. PICK n \in Nat : n = Len(s)
  OBVIOUS
<1>2. DOMAIN s = 1 .. n
  BY <1>1
<1>3. PICK t : t = [i \in 1 .. n |-> IF s[i] \in T THEN <<s[i]>> ELSE << >>]
  OBVIOUS
<1>4. u = FlattenSeq(t)
  BY <1>2, <1>3
<1>5. ASSUME NEW i \in 1 .. n
      PROVE  /\ t[i] \in Seq(X) /\ Len(t[i]) \in {0, 1}
             /\ (Len(t[i]) = 1) <=> (s[i] \in T)
             /\ (Len(t[i]) = 1) => (t[i][1] = s[i])
  <2>1. s[i] \in X /\ t[i] = IF s[i] \in T THEN <<s[i]>> ELSE << >>
    BY <1>2, <1>3
  <2>2. CASE s[i] \in T
    <3>1. t[i] = <<s[i]>>
      BY <2>1, <2>2
    <3>2. QED
      BY <2>1, <2>2, <3>1
  <2>3. CASE s[i] \notin T
    <3>1. t[i] = << >>
      BY <2>1, <2>3
    <3>2. QED
      BY <2>3, <3>1
  <2>4. QED
    BY <2>2, <2>3
<1>6. \A i \in 1 .. n : t[i] \in Seq(X)
  BY <1>5
<1>7. \A i \in 1 .. n : Len(t[i]) \in {0, 1}
  BY <1>5
<1>8. \A i \in 1 .. n : Len(t[i]) = 1 <=> s[i] \in T
  BY <1>5
<1>9. \A i \in 1 .. n : Len(t[i]) = 1 => t[i][1] = s[i]
  BY <1>5
<1>10. Len(t) = n
  BY <1>3
<1>11. t \in Seq(Seq(X))
  <2>1. t = [i \in 1 .. n |-> t[i]]
    BY <1>3
  <2>2. QED
    BY <1>6, <2>1
<1>12. PICK q : q = FlattenSeq(Places(t))
  OBVIOUS
<1>13. /\ q \in Seq(Nat \X Nat) /\ Distinct(q) /\ Len(q) = Len(u)
      /\ ToSet(q) = {x \in Nat \X Nat : x[1] \in 1 .. Len(t) /\ x[2] \in 1 .. Len(t[x[1]])}
      /\ \A j \in 1 .. Len(q) : u[j] = t[q[j][1]][q[j][2]]
  <2>1. PICK Y : Y = X
    OBVIOUS
  <2>2. t \in Seq(Seq(Y))
    BY <1>11, <2>1
  <2>3. /\ q \in Seq(Nat \X Nat) /\ Distinct(q) /\ Len(q) = Len(FlattenSeq(t))
        /\ ToSet(q) = {x \in Nat \X Nat : x[1] \in 1 .. Len(t) /\ x[2] \in 1 .. Len(t[x[1]])}
        /\ \A j \in 1 .. Len(q) : FlattenSeq(t)[j] = t[q[j][1]][q[j][2]]
    BY <1>12, <2>2, FlattenPlaces
  <2>4. QED
    BY <1>4, <2>3
<1>14. u \in Seq(X)
  BY <1>4, <1>11, FlattenType
<1>15. PICK m \in Nat : m = Len(u)
  <2>1. Len(u) \in Nat
    BY <1>14
  <2>2. QED
    BY <2>1
<1>16. DOMAIN u = 1 .. m /\ DOMAIN q = 1 .. m /\ Len(q) = m
  BY <1>13, <1>14, <1>15
<1>17. ASSUME NEW j \in 1 .. m
       PROVE  /\ q[j] \in Nat \X Nat /\ q[j][1] \in 1 .. n /\ q[j][2] = 1
              /\ Len(t[q[j][1]]) = 1 /\ u[j] = s[q[j][1]] /\ s[q[j][1]] \in T
  <2>1. PICK a, b, x : a = q[j][1] /\ b = q[j][2] /\ x = q[j]
    OBVIOUS
  <2>2. x \in ToSet(q) /\ x \in Nat \X Nat
    BY <1>13, <1>16, <2>1 DEF ToSet
  <2>3. a \in 1 .. n /\ b \in 1 .. Len(t[a])
    BY <1>10, <1>13, <2>1, <2>2
  <2>4. Len(t[a]) = 1 /\ b = 1
    <3>1. PICK l : l = Len(t[a])
      OBVIOUS
    <3>2. l \in {0, 1}
      BY <1>7, <2>3, <3>1
    <3>3. b \in 1 .. l
      BY <2>3, <3>1
    <3>4. l = 1 /\ b = 1
      BY <3>2, <3>3
    <3>5. QED
      BY <3>1, <3>4
  <2>5. u[j] = t[a][b]
    BY <1>13, <1>16, <2>1
  <2>6. t[a][1] = s[a] /\ s[a] \in T
    BY <1>8, <1>9, <2>3, <2>4
  <2>7. QED
    BY <2>1, <2>2, <2>3, <2>4, <2>5, <2>6
<1>18. PICK p : p = [j \in 1 .. m |-> q[j][1]]
  OBVIOUS
<1>19. p \in [1 .. m -> 1 .. n] /\ \A j \in 1 .. m : p[j] = q[j][1]
  BY <1>17, <1>18
<1>20. \A j, k \in 1 .. m : p[j] = p[k] => j = k
  <2>1. ASSUME NEW j \in 1 .. m, NEW k \in 1 .. m, p[j] = p[k]
        PROVE  j = k
    <3>1. q[j] = <<q[j][1], q[j][2]>> /\ q[k] = <<q[k][1], q[k][2]>>
      BY <1>17
    <3>2. q[j][1] = q[k][1] /\ q[j][2] = q[k][2]
      BY <1>17, <1>19, <2>1
    <3>3. q[j] = q[k]
      BY <3>1, <3>2
    <3>4. QED
      BY <1>13, <1>16, <3>3 DEF Distinct
  <2>2. QED
    BY <2>1
<1>21. \A j \in 1 .. m : u[j] = s[p[j]] /\ s[p[j]] \in T
  BY <1>17, <1>19
<1>22. ASSUME NEW i \in 1 .. n, s[i] \in T
       PROVE  \E j \in 1 .. m : p[j] = i
  <2>1. Len(t[i]) = 1
    BY <1>8, <1>22
  <2>2. PICK x : x = <<i, 1>>
    OBVIOUS
  <2>3. x \in Nat \X Nat /\ x[1] = i /\ x[2] = 1
    BY <2>2
  <2>4. x[1] \in 1 .. Len(t) /\ x[2] \in 1 .. Len(t[x[1]])
    <3>1. x[1] \in 1 .. Len(t)
      BY <1>10, <2>3
    <3>2. Len(t[x[1]]) = 1
      BY <2>1, <2>3
    <3>3. QED
      BY <2>3, <3>1, <3>2
  <2>5. x \in ToSet(q)
    BY <1>13, <2>3, <2>4
  <2>6. PICK j \in 1 .. m : q[j] = x
    BY <1>16, <2>5 DEF ToSet
  <2>7. QED
    BY <1>19, <2>3, <2>6
<1>23. {p[j] : j \in 1 .. m} = {i \in 1 .. n : s[i] \in T}
  BY <1>19, <1>21, <1>22
<1>24. PICK D, E : D = DOMAIN u /\ E = DOMAIN s
  OBVIOUS
<1>25. D = 1 .. m /\ E = 1 .. n
  BY <1>2, <1>16, <1>24
<1>26. p \in [D -> E]
  BY <1>19, <1>25
<1>27. \A j, k \in D : p[j] = p[k] => j = k
  BY <1>20, <1>25
<1>28. \A j \in D : u[j] = s[p[j]]
  BY <1>21, <1>25
<1>29. {p[j] : j \in D} = {i \in E : s[i] \in T}
  BY <1>23, <1>25
<1>30. p \in [DOMAIN u -> DOMAIN s]
  BY <1>24, <1>26
<1>31. \A j, k \in DOMAIN u : p[j] = p[k] => j = k
  BY <1>24, <1>27
<1>32. \A j \in DOMAIN u : u[j] = s[p[j]]
  BY <1>24, <1>28
<1>33. {p[j] : j \in DOMAIN u} = I
  BY <1>24, <1>29
<1>34. Picks(p, u, s, I)
  BY <1>30, <1>31, <1>32, <1>33 DEF Picks
<1>35. QED
  BY <1>14, <1>34

\* Two sums of the same numbers are equal.
LEMMA SumUnique ==
  ASSUME NEW U, IsFiniteSet(U), NEW f, NEW h, IsSum(h, f, U), NEW k, IsSum(k, f, U)
  PROVE  \A T \in SUBSET U : h[T] = k[T]
<1> DEFINE C == {T \in SUBSET U : h[T] = k[T]}
<1>1. {} \in C
  BY DEF IsSum
<1>2. \A S \in SUBSET U : \A y \in S : h[S] = f[y] + h[S \ {y}] /\ k[S] = f[y] + k[S \ {y}]
  BY DEF IsSum
<1>3. ASSUME NEW T \in SUBSET U, T # {}, \A x \in T : T \ {x} \in C
      PROVE  T \in C
  <2>1. PICK x \in T : TRUE
    BY <1>3
  <2>2. h[T \ {x}] = k[T \ {x}]
    BY <1>3
  <2>3. h[T] = f[x] + h[T \ {x}] /\ k[T] = f[x] + k[T \ {x}]
    BY <1>2
  <2>4. QED
    BY <2>2, <2>3
<1> HIDE DEF C
<1>4. \A T \in SUBSET U : T \in C
  BY <1>1, <1>3, BySize
<1>5. QED
  BY <1>4 DEF C

\* Which sum the totals of the tables are.
LEMMA TotalAlloc ==
  ASSUME NEW lines, NEW D, D = DOMAIN lines, IsFiniteSet(D), NEW f \in [D -> Int],
         \A i \in D : f[i] = lines[i].task.alloc
  PROVE  \E h : IsSum(h, f, D) /\ Total(Alloc, lines) = h[D]
<1> DEFINE Body(h) == [s \in SUBSET D |-> IF s = {} THEN 0
                         ELSE lines[CHOOSE x \in s : TRUE].task.alloc + h[s \ {CHOOSE x \in s : TRUE}]]
<1>1. PICK h : h = CHOOSE k : k = Body(k)
  OBVIOUS
<1>2. Total(Alloc, lines) = h[D]
  BY <1>1 DEF Total, Alloc, MapThenSumSet, MapThenFoldSet
<1>3. ASSUME NEW k
      PROVE  k = Body(k) <=> IsFold(k, f, D)
  <2>1. ASSUME NEW s \in SUBSET D, s # {}
        PROVE  f[Chosen(s)] = lines[CHOOSE x \in s : TRUE].task.alloc
    <3>1. Chosen(s) \in D /\ Chosen(s) = CHOOSE x \in s : TRUE
      BY <2>1, ChosenIn DEF Chosen
    <3>2. QED
      BY <3>1
  <2>2. Body(k) = [s \in SUBSET D |-> IF s = {} THEN 0 ELSE f[Chosen(s)] + k[s \ {Chosen(s)}]]
    BY <2>1 DEF Chosen
  <2>3. QED
    BY <2>2 DEF IsFold
<1>4. \E k : k = Body(k)
  <2> HIDE DEF Body
  <2>1. PICK k : IsFold(k, f, D)
    BY FoldExists
  <2>2. k = Body(k)
    BY <1>3, <2>1
  <2>3. QED
    BY <2>2
<1>5. h = Body(h)
  BY <1>1, <1>4, Zenon
<1>6. IsSum(h, f, D)
  BY <1>3, <1>5, FoldSums
<1>7. QED
  BY <1>2, <1>6

LEMMA TotalWeight ==
  ASSUME NEW lines, NEW D, D = DOMAIN lines, IsFiniteSet(D), NEW f \in [D -> Int],
         \A i \in D : f[i] = lines[i].task.weight
  PROVE  \E h : IsSum(h, f, D) /\ Total(TaskWeight, lines) = h[D]
<1> DEFINE Body(h) == [s \in SUBSET D |-> IF s = {} THEN 0
                         ELSE lines[CHOOSE x \in s : TRUE].task.weight + h[s \ {CHOOSE x \in s : TRUE}]]
<1>1. PICK h : h = CHOOSE k : k = Body(k)
  OBVIOUS
<1>2. Total(TaskWeight, lines) = h[D]
  BY <1>1 DEF Total, TaskWeight, MapThenSumSet, MapThenFoldSet
<1>3. ASSUME NEW k
      PROVE  k = Body(k) <=> IsFold(k, f, D)
  <2>1. ASSUME NEW s \in SUBSET D, s # {}
        PROVE  f[Chosen(s)] = lines[CHOOSE x \in s : TRUE].task.weight
    <3>1. Chosen(s) \in D /\ Chosen(s) = CHOOSE x \in s : TRUE
      BY <2>1, ChosenIn DEF Chosen
    <3>2. QED
      BY <3>1
  <2>2. Body(k) = [s \in SUBSET D |-> IF s = {} THEN 0 ELSE f[Chosen(s)] + k[s \ {Chosen(s)}]]
    BY <2>1 DEF Chosen
  <2>3. QED
    BY <2>2 DEF IsFold
<1>4. \E k : k = Body(k)
  <2> HIDE DEF Body
  <2>1. PICK k : IsFold(k, f, D)
    BY FoldExists
  <2>2. k = Body(k)
    BY <1>3, <2>1
  <2>3. QED
    BY <2>2
<1>5. h = Body(h)
  BY <1>1, <1>4, Zenon
<1>6. IsSum(h, f, D)
  BY <1>3, <1>5, FoldSums
<1>7. QED
  BY <1>2, <1>6

LEMMA SumObserved ==
  ASSUME NEW B, IsFiniteSet(B), NEW f \in [B -> Int], \A b \in B : f[b] = b.observed
  PROVE  \E h : IsSum(h, f, B) /\ MapThenSumSet(LAMBDA b : b.observed, B) = h[B]
<1> DEFINE Body(h) == [s \in SUBSET B |-> IF s = {} THEN 0
                         ELSE (CHOOSE x \in s : TRUE).observed + h[s \ {CHOOSE x \in s : TRUE}]]
<1>1. PICK h : h = CHOOSE k : k = Body(k)
  OBVIOUS
<1>2. MapThenSumSet(LAMBDA b : b.observed, B) = h[B]
  BY <1>1 DEF MapThenSumSet, MapThenFoldSet
<1>3. ASSUME NEW k
      PROVE  k = Body(k) <=> IsFold(k, f, B)
  <2>1. ASSUME NEW s \in SUBSET B, s # {}
        PROVE  f[Chosen(s)] = (CHOOSE x \in s : TRUE).observed
    <3>1. Chosen(s) \in B /\ Chosen(s) = CHOOSE x \in s : TRUE
      BY <2>1, ChosenIn DEF Chosen
    <3>2. QED
      BY <3>1
  <2>2. Body(k) = [s \in SUBSET B |-> IF s = {} THEN 0 ELSE f[Chosen(s)] + k[s \ {Chosen(s)}]]
    BY <2>1 DEF Chosen
  <2>3. QED
    BY <2>2 DEF IsFold
<1>4. \E k : k = Body(k)
  <2> HIDE DEF Body
  <2>1. PICK k : IsFold(k, f, B)
    BY FoldExists
  <2>2. k = Body(k)
    BY <1>3, <2>1
  <2>3. QED
    BY <2>2
<1>5. h = Body(h)
  BY <1>1, <1>4, Zenon
<1>6. IsSum(h, f, B)
  BY <1>3, <1>5, FoldSums
<1>7. QED
  BY <1>2, <1>6

LEMMA SumExpected ==
  ASSUME NEW B, IsFiniteSet(B), NEW f \in [B -> Int], \A b \in B : f[b] = b.expected
  PROVE  \E h : IsSum(h, f, B) /\ MapThenSumSet(LAMBDA b : b.expected, B) = h[B]
<1> DEFINE Body(h) == [s \in SUBSET B |-> IF s = {} THEN 0
                         ELSE (CHOOSE x \in s : TRUE).expected + h[s \ {CHOOSE x \in s : TRUE}]]
<1>1. PICK h : h = CHOOSE k : k = Body(k)
  OBVIOUS
<1>2. MapThenSumSet(LAMBDA b : b.expected, B) = h[B]
  BY <1>1 DEF MapThenSumSet, MapThenFoldSet
<1>3. ASSUME NEW k
      PROVE  k = Body(k) <=> IsFold(k, f, B)
  <2>1. ASSUME NEW s \in SUBSET B, s # {}
        PROVE  f[Chosen(s)] = (CHOOSE x \in s : TRUE).expected
    <3>1. Chosen(s) \in B /\ Chosen(s) = CHOOSE x \in s : TRUE
      BY <2>1, ChosenIn DEF Chosen
    <3>2. QED
      BY <3>1
  <2>2. Body(k) = [s \in SUBSET B |-> IF s = {} THEN 0 ELSE f[Chosen(s)] + k[s \ {Chosen(s)}]]
    BY <2>1 DEF Chosen
  <2>3. QED
    BY <2>2 DEF IsFold
<1>4. \E k : k = Body(k)
  <2> HIDE DEF Body
  <2>1. PICK k : IsFold(k, f, B)
    BY FoldExists
  <2>2. k = Body(k)
    BY <1>3, <2>1
  <2>3. QED
    BY <2>2
<1>5. h = Body(h)
  BY <1>1, <1>4, Zenon
<1>6. IsSum(h, f, B)
  BY <1>3, <1>5, FoldSums
<1>7. QED
  BY <1>2, <1>6

LEMMA TotalError ==
  ASSUME NEW lines, NEW D, D = DOMAIN lines, IsFiniteSet(D), NEW key, NEW e,
         NEW a, a = Allocation(key, lines, e), a.alloc > 0, a.weight > 0, NEW f \in [D -> Int],
         \A i \in D : f[i] = AbsDiff(lines[i].task.alloc * a.weight, lines[i].task.weight * a.alloc)
  PROVE  \E h : IsSum(h, f, D) /\ a.shareError = h[D]
<1> DEFINE v == Total(Alloc, lines)
           w == Total(TaskWeight, lines)
           Error(l) == CASE v > 0 /\ w > 0 -> AbsDiff(Alloc(l) * w, TaskWeight(l) * v)
                         [] v > 0 /\ w = 0 -> Alloc(l)
                         [] v = 0 -> TaskWeight(l)
           Body(h) == [s \in SUBSET D |-> IF s = {} THEN 0
                         ELSE Error(lines[CHOOSE x \in s : TRUE]) + h[s \ {CHOOSE x \in s : TRUE}]]
<1>1. PICK h : h = CHOOSE k : k = Body(k)
  OBVIOUS
<1>2. a.shareError = Total(Error, lines)
  BY DEF Allocation
<1>3. Total(Error, lines) = h[D]
  <2> HIDE DEF Error
  <2>1. QED
    BY <1>1 DEF Total, MapThenSumSet, MapThenFoldSet
<1>4. a.alloc = v /\ a.weight = w
  BY DEF Allocation
<1> HIDE DEF v, w
<1>5. \A i \in D : Error(lines[i]) = f[i]
  BY <1>4 DEF Alloc, TaskWeight
<1> HIDE DEF Error
<1>6. ASSUME NEW k
      PROVE  k = Body(k) <=> IsFold(k, f, D)
  <2>1. ASSUME NEW s \in SUBSET D, s # {}
        PROVE  f[Chosen(s)] = Error(lines[CHOOSE x \in s : TRUE])
    <3>1. Chosen(s) \in D /\ Chosen(s) = CHOOSE x \in s : TRUE
      BY <2>1, ChosenIn DEF Chosen
    <3>2. QED
      BY <1>5, <3>1
  <2>2. Body(k) = [s \in SUBSET D |-> IF s = {} THEN 0 ELSE f[Chosen(s)] + k[s \ {Chosen(s)}]]
    BY <2>1 DEF Chosen
  <2>3. QED
    BY <2>2 DEF IsFold
<1>7. \E k : k = Body(k)
  <2> HIDE DEF Body
  <2>1. PICK k : IsFold(k, f, D)
    BY FoldExists
  <2>2. k = Body(k)
    BY <1>6, <2>1
  <2>3. QED
    BY <2>2
<1>8. h = Body(h)
  BY <1>1, <1>7, Zenon
<1>9. IsSum(h, f, D)
  BY <1>6, <1>8, FoldSums
<1>10. QED
  BY <1>2, <1>3, <1>9

-----------------------------------------------------------------------------
(* The shares *)

\* The places of a sequence are finitely many.
LEMMA PlacesFinite ==
  ASSUME NEW X, NEW s \in Seq(X)
  PROVE  IsFiniteSet(DOMAIN s)
<1>1. PICK n \in Nat : n = Len(s)
  OBVIOUS
<1>2. DOMAIN s = 1 .. n
  BY <1>1
<1>3. IsFiniteSet(1 .. n)
  <2>1. 1 \in Int /\ n \in Int
    OBVIOUS
  <2>2. QED
    BY <2>1, FS_Interval
<1>4. QED
  BY <1>2, <1>3

\* Sums of a field of the tasks.
SumsAlloc(s, f, h) ==
  IsSum(h, f, DOMAIN s) /\ \A i \in DOMAIN s : f[i] = s[i].task.alloc /\ f[i] \in Int

SumsWeight(s, f, h) ==
  IsSum(h, f, DOMAIN s) /\ \A i \in DOMAIN s : f[i] = s[i].task.weight /\ f[i] \in Int

\* The total over tasks picked out.
LEMMA AllocMoved ==
  ASSUME NEW s, NEW f, NEW h, SumsAlloc(s, f, h), NEW X, NEW u \in Seq(X), NEW p, NEW I, Picks(p, u, s, I)
  PROVE  Total(Alloc, u) = h[I]
<1>1. PICK D, E : D = DOMAIN s /\ E = DOMAIN u
  OBVIOUS
<1>2. IsSum(h, f, D) /\ \A i \in D : f[i] = s[i].task.alloc /\ f[i] \in Int
  BY <1>1 DEF SumsAlloc
<1>3. p \in [E -> D]
  BY <1>1 DEF Picks
<1>4. \A j, k \in E : p[j] = p[k] => j = k
  BY <1>1 DEF Picks
<1>5. \A j \in E : u[j] = s[p[j]]
  BY <1>1 DEF Picks
<1>6. {p[j] : j \in E} = I
  BY <1>1 DEF Picks
<1>7. IsFiniteSet(E)
  BY <1>1, PlacesFinite
<1>8. PICK v : v = [j \in E |-> u[j].task.alloc]
  OBVIOUS
<1>9. \A j \in E : v[j] = u[j].task.alloc
  BY <1>8
<1>10. \A j \in E : p[j] \in D
  BY <1>3
<1>11. \A j \in E : v[j] = f[p[j]] /\ v[j] \in Int
  BY <1>2, <1>5, <1>9, <1>10
<1>12. v \in [E -> Int]
  BY <1>8, <1>11
<1>13. \E k : IsSum(k, v, E) /\ Total(Alloc, u) = k[E]
  BY <1>1, <1>7, <1>9, <1>12, TotalAlloc
<1>14. PICK k : IsSum(k, v, E) /\ Total(Alloc, u) = k[E]
  BY <1>13
<1>15. IsSum(k, v, E) /\ IsSum(h, f, D)
  BY <1>2, <1>14
<1>16. \A j \in E : v[j] = f[p[j]]
  BY <1>11
<1>17. k[E] = h[{p[j] : j \in E}]
  BY <1>3, <1>4, <1>7, <1>15, <1>16, SumMoved
<1>18. QED
  BY <1>6, <1>14, <1>17

LEMMA WeightMoved ==
  ASSUME NEW s, NEW f, NEW h, SumsWeight(s, f, h), NEW X, NEW u \in Seq(X), NEW p, NEW I, Picks(p, u, s, I)
  PROVE  Total(TaskWeight, u) = h[I]
<1>1. PICK D, E : D = DOMAIN s /\ E = DOMAIN u
  OBVIOUS
<1>2. IsSum(h, f, D) /\ \A i \in D : f[i] = s[i].task.weight /\ f[i] \in Int
  BY <1>1 DEF SumsWeight
<1>3. p \in [E -> D]
  BY <1>1 DEF Picks
<1>4. \A j, k \in E : p[j] = p[k] => j = k
  BY <1>1 DEF Picks
<1>5. \A j \in E : u[j] = s[p[j]]
  BY <1>1 DEF Picks
<1>6. {p[j] : j \in E} = I
  BY <1>1 DEF Picks
<1>7. IsFiniteSet(E)
  BY <1>1, PlacesFinite
<1>8. PICK v : v = [j \in E |-> u[j].task.weight]
  OBVIOUS
<1>9. \A j \in E : v[j] = u[j].task.weight
  BY <1>8
<1>10. \A j \in E : p[j] \in D
  BY <1>3
<1>11. \A j \in E : v[j] = f[p[j]] /\ v[j] \in Int
  BY <1>2, <1>5, <1>9, <1>10
<1>12. v \in [E -> Int]
  BY <1>8, <1>11
<1>13. \E k : IsSum(k, v, E) /\ Total(TaskWeight, u) = k[E]
  BY <1>1, <1>7, <1>9, <1>12, TotalWeight
<1>14. PICK k : IsSum(k, v, E) /\ Total(TaskWeight, u) = k[E]
  BY <1>13
<1>15. IsSum(k, v, E) /\ IsSum(h, f, D)
  BY <1>2, <1>14
<1>16. \A j \in E : v[j] = f[p[j]]
  BY <1>11
<1>17. k[E] = h[{p[j] : j \in E}]
  BY <1>3, <1>4, <1>7, <1>15, <1>16, SumMoved
<1>18. QED
  BY <1>6, <1>14, <1>17

\* Where the tasks of a bucket are.
Bucket(s, nice) == Filtered(s, LAMBDA line : line.task.nice = nice)

LEMMA BucketPlaces ==
  ASSUME NEW X, NEW s \in Seq(X), NEW nice, NEW u, u = Bucket(s, nice),
         NEW I, I = {i \in DOMAIN s : s[i].task.nice = nice}
  PROVE  u \in Seq(X) /\ \E p : Picks(p, u, s, I)
<1> DEFINE T == {l \in X : l.task.nice = nice}
<1>1. PICK v : v = FlattenSeq([i \in DOMAIN s |-> IF s[i] \in T THEN <<s[i]>> ELSE << >>])
  OBVIOUS
<1>2. u = v
  <2>1. \A i \in DOMAIN s : s[i] \in T <=> s[i].task.nice = nice
    OBVIOUS
  <2>2. [i \in DOMAIN s |-> IF s[i] \in T THEN <<s[i]>> ELSE << >>]
        = [i \in DOMAIN s |-> IF s[i].task.nice = nice THEN <<s[i]>> ELSE << >>]
    BY <2>1, Zenon
  <2>3. QED
    BY <1>1, <2>2 DEF Bucket, Filtered
<1>3. I = {i \in DOMAIN s : s[i] \in T}
  OBVIOUS
<1> HIDE DEF T
<1>4. v \in Seq(X) /\ \E p : Picks(p, v, s, I)
  BY <1>1, <1>3, FilteredPlaces
<1>5. QED
  BY <1>2, <1>4

PlacesOf(s, nice) == {i \in DOMAIN s : s[i].task.nice = nice}

\* The totals of a bucket are those of its places.
LEMMA BucketAlloc ==
  ASSUME NEW X, NEW s \in Seq(X), NEW f, NEW h, SumsAlloc(s, f, h), NEW nice,
         NEW t, t = Total(Alloc, Bucket(s, nice))
  PROVE  t = h[PlacesOf(s, nice)]
<1>1. PICK u, I : u = Bucket(s, nice) /\ I = PlacesOf(s, nice)
  OBVIOUS
<1>2. u \in Seq(X) /\ \E p : Picks(p, u, s, I)
  BY <1>1, BucketPlaces DEF PlacesOf
<1>3. PICK p : Picks(p, u, s, I)
  BY <1>2
<1>4. u \in Seq(X)
  BY <1>2
<1>5. Total(Alloc, u) = h[I]
  BY <1>3, <1>4, AllocMoved
<1>6. QED
  BY <1>1, <1>5

LEMMA BucketWeight ==
  ASSUME NEW X, NEW s \in Seq(X), NEW f, NEW h, SumsWeight(s, f, h), NEW nice,
         NEW t, t = Total(TaskWeight, Bucket(s, nice))
  PROVE  t = h[PlacesOf(s, nice)]
<1>1. PICK u, I : u = Bucket(s, nice) /\ I = PlacesOf(s, nice)
  OBVIOUS
<1>2. u \in Seq(X) /\ \E p : Picks(p, u, s, I)
  BY <1>1, BucketPlaces DEF PlacesOf
<1>3. PICK p : Picks(p, u, s, I)
  BY <1>2
<1>4. u \in Seq(X)
  BY <1>2
<1>5. Total(TaskWeight, u) = h[I]
  BY <1>3, <1>4, WeightMoved
<1>6. QED
  BY <1>1, <1>5

\* What the buckets have, as they are summed; p tells whose they are.
ByBucket(r, B, p, h, U, class, w) ==
  \A b \in B : r[b] = h[{i \in U : class[i] = p[b]}] * w

OneEach(p, B, N) ==
  /\ p \in [B -> N] /\ \A a, b \in B : p[a] = p[b] => a = b
  /\ \A n \in N : \E b \in B : p[b] = n

LEMMA OverBuckets ==
  ASSUME NEW U, IsFiniteSet(U), NEW f \in [U -> Int], NEW h, IsSum(h, f, U),
         NEW N, IsFiniteSet(N), NEW class \in [U -> N], NEW w \in Int,
         NEW B, IsFiniteSet(B), NEW p, OneEach(p, B, N),
         NEW r, ByBucket(r, B, p, h, U, class, w), NEW q, IsSum(q, r, B)
  PROVE  q[B] = h[U] * w
<1>1. PICK g : g = [n \in N |-> h[{i \in U : class[i] = n}] * w]
  OBVIOUS
<1>2. \A n \in N : g[n] = h[{i \in U : class[i] = n}] * w
  BY <1>1
<1>3. g \in [N -> Int]
  <2>1. ASSUME NEW n \in N
        PROVE  g[n] \in Int
    <3>1. PICK I : I = {i \in U : class[i] = n}
      OBVIOUS
    <3>2. h[I] \in Int
      BY <3>1 DEF IsSum
    <3>3. g[n] = h[I] * w
      BY <1>2, <3>1
    <3>4. QED
      BY <3>2, <3>3
  <2>2. QED
    BY <1>1, <2>1
<1>4. PICK k : IsSum(k, g, N)
  BY <1>3, SumExists
<1>5. k[N] = h[U] * w
  <2>1. k[N] = h[U] * w
    <3>1. ByClass(g, N, h, U, class, w)
      BY <1>2 DEF ByClass
    <3>2. IsSum(k, g, N)
      BY <1>4
    <3>3. QED
      BY <1>3, <3>1, <3>2, SumByClass
  <2>2. QED
    BY <2>1
<1>6. p \in [B -> N]
  BY DEF OneEach
<1>7. \A a, b \in B : p[a] = p[b] => a = b
  BY DEF OneEach
<1>8. \A b \in B : p[b] \in N
  BY <1>6
<1>9. \A b \in B : r[b] = g[p[b]]
  BY <1>2, <1>8 DEF ByBucket
<1>10. q[B] = k[{p[b] : b \in B}]
  BY <1>4, <1>6, <1>7, <1>9, SumMoved
<1>11. {p[b] : b \in B} = N
  BY <1>6 DEF OneEach
<1>12. QED
  BY <1>5, <1>10, <1>11

\* Tasks with natural figures.
Natural(s) == \A i \in DOMAIN s : s[i].task.alloc \in Nat /\ s[i].task.weight \in Nat

\* Sums of both fields exist, and are naturals.
LEMMA SumsOfTasks ==
  ASSUME NEW X, NEW s \in Seq(X), Natural(s)
  PROVE  /\ \E f, h : /\ f \in [DOMAIN s -> Nat] /\ SumsAlloc(s, f, h)
                      /\ h[DOMAIN s] \in Nat /\ Total(Alloc, s) = h[DOMAIN s]
         /\ \E f, h : /\ f \in [DOMAIN s -> Nat] /\ SumsWeight(s, f, h)
                      /\ h[DOMAIN s] \in Nat /\ Total(TaskWeight, s) = h[DOMAIN s]
<1>1. PICK D : D = DOMAIN s
  OBVIOUS
<1>2. IsFiniteSet(D)
  BY <1>1, PlacesFinite
<1>3. \A i \in D : s[i].task.alloc \in Nat /\ s[i].task.weight \in Nat
  BY <1>1 DEF Natural
<1>4. \E f, h : f \in [D -> Nat] /\ SumsAlloc(s, f, h) /\ h[D] \in Nat /\ Total(Alloc, s) = h[D]
  <2>1. PICK f : f = [i \in D |-> s[i].task.alloc]
    OBVIOUS
  <2>2. \A i \in D : f[i] = s[i].task.alloc
    BY <2>1
  <2>3. f \in [D -> Nat]
    BY <1>3, <2>1
  <2>4. f \in [D -> Int]
    BY <2>3
  <2>5. PICK h : IsSum(h, f, D) /\ Total(Alloc, s) = h[D]
    BY <1>1, <1>2, <2>2, <2>4, TotalAlloc
  <2>6. \A T \in SUBSET D : h[T] \in Nat
    BY <1>2, <2>3, <2>5, SumNat
  <2>7. SumsAlloc(s, f, h)
    BY <1>1, <2>2, <2>4, <2>5 DEF SumsAlloc
  <2>8. h[D] \in Nat
    BY <2>6
  <2>9. QED
    BY <2>3, <2>5, <2>7, <2>8
<1>5. \E f, h : f \in [D -> Nat] /\ SumsWeight(s, f, h) /\ h[D] \in Nat /\ Total(TaskWeight, s) = h[D]
  <2>1. PICK f : f = [i \in D |-> s[i].task.weight]
    OBVIOUS
  <2>2. \A i \in D : f[i] = s[i].task.weight
    BY <2>1
  <2>3. f \in [D -> Nat]
    BY <1>3, <2>1
  <2>4. f \in [D -> Int]
    BY <2>3
  <2>5. PICK h : IsSum(h, f, D) /\ Total(TaskWeight, s) = h[D]
    BY <1>1, <1>2, <2>2, <2>4, TotalWeight
  <2>6. \A T \in SUBSET D : h[T] \in Nat
    BY <1>2, <2>3, <2>5, SumNat
  <2>7. SumsWeight(s, f, h)
    BY <1>1, <2>2, <2>4, <2>5 DEF SumsWeight
  <2>8. h[D] \in Nat
    BY <2>6
  <2>9. QED
    BY <2>3, <2>5, <2>7, <2>8
<1>6. QED
  BY <1>1, <1>4, <1>5

LEMMA Commutes == \A x, y \in Int : x * y = y * x /\ x * y \in Int
OBVIOUS

\* The rows of a simulation, with one bucket per nice value.
RowsOf(key, s, e, a, B) ==
  /\ a = Allocation(key, s, e)
  /\ \A b : b \in B <=> \E nice \in Nices(s) : b = NiceBucket(key, s, nice, e)

\* There are as many buckets as nice values, and they are told by these.
LEMMA BucketPerNice ==
  ASSUME NEW X, NEW s \in Seq(X), NEW key, NEW e, NEW a, NEW B, RowsOf(key, s, e, a, B)
  PROVE  /\ IsFiniteSet(Nices(s)) /\ IsFiniteSet(B) /\ Cardinality(Nices(s)) = Cardinality(B)
         /\ OneEach([b \in B |-> b.nice], B, Nices(s))
<1>1. PICK D, N : D = DOMAIN s /\ N = Nices(s)
  OBVIOUS
<1>2. IsFiniteSet(D)
  BY <1>1, PlacesFinite
<1>3. N = {s[i].task.nice : i \in D}
  BY <1>1 DEF Nices
<1>4. IsFiniteSet(N)
  <2>1. PICK f : f = [i \in D |-> s[i].task.nice]
    OBVIOUS
  <2>2. f \in Surjection(D, N)
    BY <1>3, <2>1 DEF Surjection
  <2>3. QED
    BY <1>2, <2>2, FS_Surjection
<1>5. \A b : b \in B <=> \E nice \in N : b = NiceBucket(key, s, nice, e)
  BY <1>1 DEF RowsOf
<1>6. \A nice : NiceBucket(key, s, nice, e).nice = nice
  BY DEF NiceBucket
<1>7. PICK g : g = [nice \in N |-> NiceBucket(key, s, nice, e)]
  OBVIOUS
<1>8. g \in [N -> B] /\ \A nice \in N : g[nice].nice = nice
  BY <1>5, <1>6, <1>7
<1>9. \A b \in B : \E nice \in N : g[nice] = b
  BY <1>5, <1>7
<1>10. \A m, n \in N : g[m] = g[n] => m = n
  BY <1>8
<1>11. IsFiniteSet(B) /\ Cardinality(B) = Cardinality(N)
  BY <1>4, <1>8, <1>9, <1>10, OneToOne
<1>12. PICK p : p = [b \in B |-> b.nice]
  OBVIOUS
<1>13. \A b \in B : p[b] = b.nice /\ p[b] \in N /\ b = NiceBucket(key, s, p[b], e)
  BY <1>5, <1>6, <1>12
<1>14. p \in [B -> N]
  BY <1>12, <1>13
<1>15. \A x, y \in B : p[x] = p[y] => x = y
  BY <1>13
<1>16. \A n \in N : \E b \in B : p[b] = n
  BY <1>5, <1>6, <1>12
<1>17. OneEach(p, B, N)
  BY <1>14, <1>15, <1>16 DEF OneEach
<1>18. QED
  BY <1>1, <1>4, <1>11, <1>12, <1>17

\* The buckets of a simulation share out its totals.
LEMMA ObservedBalances ==
  ASSUME NEW X, NEW s \in Seq(X), Natural(s), NEW key, NEW e, NEW a, NEW B, RowsOf(key, s, e, a, B)
  PROVE  MapThenSumSet(LAMBDA b : b.observed, B) = a.alloc * a.weight
<1>1. PICK D, N, p : D = DOMAIN s /\ N = Nices(s) /\ p = [b \in B |-> b.nice]
  OBVIOUS
<1>2. IsFiniteSet(D)
  BY <1>1, PlacesFinite
<1>3. IsFiniteSet(N) /\ IsFiniteSet(B) /\ OneEach(p, B, N)
  BY <1>1, BucketPerNice
<1>4. PICK f, h : f \in [D -> Nat] /\ SumsAlloc(s, f, h) /\ h[D] \in Nat /\ Total(Alloc, s) = h[D]
  BY <1>1, SumsOfTasks
<1>5. PICK w : w \in Nat /\ Total(TaskWeight, s) = w
  BY SumsOfTasks
<1>6. IsSum(h, f, D) /\ f \in [D -> Int]
  BY <1>1, <1>4 DEF SumsAlloc
<1>7. a.alloc = h[D] /\ a.weight = w
  BY <1>4, <1>5 DEF RowsOf, Allocation
<1>8. PICK class : class = [i \in D |-> s[i].task.nice]
  OBVIOUS
<1>9. class \in [D -> N] /\ \A i \in D : class[i] = s[i].task.nice
  BY <1>1, <1>8 DEF Nices
<1>10. PICK r : r = [b \in B |-> b.observed]
  OBVIOUS
<1>11. ASSUME NEW b \in B
       PROVE  /\ r[b] = h[{i \in D : class[i] = p[b]}] * w
              /\ r[b] \in Int
  <2>1. PICK nice \in Nices(s) : b = NiceBucket(key, s, nice, e)
    BY DEF RowsOf
  <2>2. b.nice = nice /\ b.observed = Total(Alloc, Bucket(s, nice)) * Total(TaskWeight, s)
    BY <2>1 DEF NiceBucket, Bucket
  <2>3. PICK I, t : I = PlacesOf(s, nice) /\ t = Total(Alloc, Bucket(s, nice))
    OBVIOUS
  <2>4. t = h[I]
    <3>1. SumsAlloc(s, f, h)
      BY <1>4
    <3>2. t = h[PlacesOf(s, nice)]
      BY <2>3, <3>1, BucketAlloc
    <3>3. QED
      BY <2>3, <3>2
  <2>5. I = {i \in D : class[i] = p[b]}
    BY <1>1, <1>9, <2>2, <2>3 DEF PlacesOf
  <2>6. r[b] = h[I] * w
    BY <1>5, <1>10, <2>2, <2>3, <2>4
  <2>7. h[I] \in Int
    BY <1>6, <2>5 DEF IsSum
  <2>8. QED
    BY <1>5, <2>5, <2>6, <2>7
<1>12. r \in [B -> Int]
  BY <1>10, <1>11
<1>13. ByBucket(r, B, p, h, D, class, w)
  BY <1>11 DEF ByBucket
<1>14. \A b \in B : r[b] = b.observed
  BY <1>10
<1>15. PICK q : IsSum(q, r, B) /\ MapThenSumSet(LAMBDA b : b.observed, B) = q[B]
  BY <1>3, <1>12, <1>14, SumObserved
<1>16. q[B] = h[D] * w
  <2>1. IsSum(q, r, B) /\ IsSum(h, f, D)
    BY <1>6, <1>15
  <2>2. f \in [D -> Int] /\ class \in [D -> N] /\ w \in Int
    BY <1>5, <1>6, <1>9
  <2>3. QED
    BY <1>2, <1>3, <1>13, <2>1, <2>2, OverBuckets
<1>17. QED
  BY <1>4, <1>5, <1>7, <1>15, <1>16, Commutes

LEMMA ExpectedBalances ==
  ASSUME NEW X, NEW s \in Seq(X), Natural(s), NEW key, NEW e, NEW a, NEW B, RowsOf(key, s, e, a, B)
  PROVE  MapThenSumSet(LAMBDA b : b.expected, B) = a.alloc * a.weight
<1>1. PICK D, N, p : D = DOMAIN s /\ N = Nices(s) /\ p = [b \in B |-> b.nice]
  OBVIOUS
<1>2. IsFiniteSet(D)
  BY <1>1, PlacesFinite
<1>3. IsFiniteSet(N) /\ IsFiniteSet(B) /\ OneEach(p, B, N)
  BY <1>1, BucketPerNice
<1>4. PICK f, h : f \in [D -> Nat] /\ SumsWeight(s, f, h) /\ h[D] \in Nat /\ Total(TaskWeight, s) = h[D]
  BY <1>1, SumsOfTasks
<1>5. PICK w : w \in Nat /\ Total(Alloc, s) = w
  BY SumsOfTasks
<1>6. IsSum(h, f, D) /\ f \in [D -> Int]
  BY <1>1, <1>4 DEF SumsWeight
<1>7. a.weight = h[D] /\ a.alloc = w
  BY <1>4, <1>5 DEF RowsOf, Allocation
<1>8. PICK class : class = [i \in D |-> s[i].task.nice]
  OBVIOUS
<1>9. class \in [D -> N] /\ \A i \in D : class[i] = s[i].task.nice
  BY <1>1, <1>8 DEF Nices
<1>10. PICK r : r = [b \in B |-> b.expected]
  OBVIOUS
<1>11. ASSUME NEW b \in B
       PROVE  /\ r[b] = h[{i \in D : class[i] = p[b]}] * w
              /\ r[b] \in Int
  <2>1. PICK nice \in Nices(s) : b = NiceBucket(key, s, nice, e)
    BY DEF RowsOf
  <2>2. b.nice = nice /\ b.expected = Total(TaskWeight, Bucket(s, nice)) * Total(Alloc, s)
    BY <2>1 DEF NiceBucket, Bucket
  <2>3. PICK I, t : I = PlacesOf(s, nice) /\ t = Total(TaskWeight, Bucket(s, nice))
    OBVIOUS
  <2>4. t = h[I]
    <3>1. SumsWeight(s, f, h)
      BY <1>4
    <3>2. t = h[PlacesOf(s, nice)]
      BY <2>3, <3>1, BucketWeight
    <3>3. QED
      BY <2>3, <3>2
  <2>5. I = {i \in D : class[i] = p[b]}
    BY <1>1, <1>9, <2>2, <2>3 DEF PlacesOf
  <2>6. r[b] = h[I] * w
    BY <1>5, <1>10, <2>2, <2>3, <2>4
  <2>7. h[I] \in Int
    BY <1>6, <2>5 DEF IsSum
  <2>8. QED
    BY <1>5, <2>5, <2>6, <2>7
<1>12. r \in [B -> Int]
  BY <1>10, <1>11
<1>13. ByBucket(r, B, p, h, D, class, w)
  BY <1>11 DEF ByBucket
<1>14. \A b \in B : r[b] = b.expected
  BY <1>10
<1>15. PICK q : IsSum(q, r, B) /\ MapThenSumSet(LAMBDA b : b.expected, B) = q[B]
  BY <1>3, <1>12, <1>14, SumExpected
<1>16. q[B] = h[D] * w
  <2>1. IsSum(q, r, B) /\ IsSum(h, f, D)
    BY <1>6, <1>15
  <2>2. f \in [D -> Int] /\ class \in [D -> N] /\ w \in Int
    BY <1>5, <1>6, <1>9
  <2>3. QED
    BY <1>2, <1>3, <1>13, <2>1, <2>2, OverBuckets
<1>17. QED
  BY <1>4, <1>5, <1>7, <1>15, <1>16, Commutes

LEMMA DifferenceBound ==
  ASSUME NEW x \in Nat, NEW y \in Nat, NEW v \in Nat, NEW w \in Nat
  PROVE  AbsDiff(x * w, y * v) \in Int /\ AbsDiff(x * w, y * v) <= x * w + y * v
<1>1. PICK p, q : p = x * w /\ q = y * v
  OBVIOUS
<1>2. p \in Nat /\ q \in Nat
  BY <1>1
<1>3. AbsDiff(p, q) \in Int /\ AbsDiff(p, q) <= p + q
  BY <1>2 DEF AbsDiff
<1>4. QED
  BY <1>1, <1>3

LEMMA Twice == \A v, w \in Nat : v * w + w * v = 2 * v * w
OBVIOUS

\* The shares observed and by weight are at most 2 apart.
LEMMA ErrorBounded ==
  ASSUME NEW X, NEW s \in Seq(X), Natural(s), NEW key, NEW e, NEW a, a = Allocation(key, s, e),
         a.alloc > 0, a.weight > 0
  PROVE  a.shareError <= 2 * a.alloc * a.weight
<1>1. PICK D : D = DOMAIN s
  OBVIOUS
<1>2. IsFiniteSet(D)
  BY <1>1, PlacesFinite
<1>3. PICK f, h : f \in [D -> Nat] /\ SumsAlloc(s, f, h) /\ h[D] \in Nat /\ Total(Alloc, s) = h[D]
  BY <1>1, SumsOfTasks
<1>4. PICK g, k : g \in [D -> Nat] /\ SumsWeight(s, g, k) /\ k[D] \in Nat /\ Total(TaskWeight, s) = k[D]
  BY <1>1, SumsOfTasks
<1>5. PICK v, w : v = h[D] /\ w = k[D]
  OBVIOUS
<1>6. v \in Nat /\ w \in Nat /\ a.alloc = v /\ a.weight = w
  BY <1>3, <1>4, <1>5 DEF Allocation
<1>7. IsSum(h, f, D) /\ IsSum(k, g, D) /\ \A i \in D : f[i] = s[i].task.alloc /\ g[i] = s[i].task.weight
  BY <1>1, <1>3, <1>4 DEF SumsAlloc, SumsWeight
<1>8. PICK d : d = [i \in D |-> AbsDiff(f[i] * w, g[i] * v)]
  OBVIOUS
<1>9. \A i \in D : d[i] = AbsDiff(f[i] * w, g[i] * v) /\ f[i] \in Nat /\ g[i] \in Nat
  BY <1>3, <1>4, <1>8
<1>10. ASSUME NEW i \in D
       PROVE  d[i] \in Int /\ d[i] <= f[i] * w + g[i] * v
  <2>1. PICK x, y : x = f[i] /\ y = g[i]
    OBVIOUS
  <2>2. x \in Nat /\ y \in Nat /\ d[i] = AbsDiff(x * w, y * v)
    BY <1>9, <2>1
  <2>3. AbsDiff(x * w, y * v) \in Int /\ AbsDiff(x * w, y * v) <= x * w + y * v
    BY <1>6, <2>2, DifferenceBound
  <2>4. QED
    BY <2>1, <2>2, <2>3
<1>11. d \in [D -> Int]
  BY <1>8, <1>10
<1>12. \A i \in D : d[i] = AbsDiff(s[i].task.alloc * a.weight, s[i].task.weight * a.alloc)
  BY <1>6, <1>7, <1>9
<1>13. PICK u : IsSum(u, d, D) /\ a.shareError = u[D]
  BY <1>1, <1>2, <1>11, <1>12, TotalError
<1>14. u[D] <= h[D] * w + k[D] * v
  <2>1. f \in [D -> Int] /\ g \in [D -> Int] /\ v \in Int /\ w \in Int
    BY <1>3, <1>4, <1>6
  <2>2. IsSum(u, d, D) /\ IsSum(h, f, D) /\ IsSum(k, g, D)
    BY <1>7, <1>13
  <2>3. \A i \in D : d[i] \in Int /\ d[i] <= f[i] * w + g[i] * v
    BY <1>10
  <2>4. QED
    BY <1>2, <2>1, <2>2, <2>3, SumBound, ZenonT(40)
<1>15. u[D] <= 2 * v * w
  BY <1>5, <1>6, <1>14, Twice
<1>16. QED
  BY <1>6, <1>13, <1>15

-----------------------------------------------------------------------------
(* The tables made from tasks.csv *)

NaturalTasks(lines) ==
  \A l \in ToSet(lines) : l.task.alloc \in Nat /\ l.task.weight \in Nat

\* The tasks the simulators leave have natural figures.
TasksNatural == \A d \in DOMAIN runs : runs[d].tasks # None => NaturalTasks(runs[d].tasks)

LEMMA TasksNaturalInit == Init => TasksNatural
BY DEF Init, TasksNatural, NoArtifacts

LEMMA CaseNatural ==
  ASSUME Control, pc = "cases", cursor <= Len(Plan)
  PROVE  NaturalTasks(TaskLines(suite, gen, Plan[cursor]))
<1>1. PICK case, plan, lines : /\ plan = Plan /\ case = plan[cursor]
                               /\ lines = TaskLines(suite, gen, case)
  OBVIOUS
<1>2. suite \in Suites /\ plan \in Plans[suite]
  BY <1>1 DEF Control, Plan
<1>3. plan \in Seq(ToSet(plan))
  BY <1>2, PlansAssumption
<1>4. cursor \in DOMAIN plan
  BY <1>1, <1>3 DEF Control
<1>5. case \in ToSet(plan)
  BY <1>1, <1>4 DEF ToSet
<1>6. CaseOfPlan(case)
  BY <1>1, NextCase
<1>7. \A l \in ToSet(lines) : TaskOf(case, l)
  BY <1>1, <1>6, TaskLinesOf
<1>8. \A sim \in ToSet(case.sims) : \A task \in ToSet(Result[sim].tasks) :
        task.alloc \in Nat /\ task.weight \in Nat
  BY <1>2, <1>5, TasksAssumption
<1>9. NaturalTasks(lines)
  BY <1>7, <1>8 DEF NaturalTasks, TaskOf
<1>10. QED
  BY <1>1, <1>9

LEMMA BeginningIn ==
  ASSUME NEW X, NEW s \in Seq(X), NEW n \in 0 .. Len(s), NaturalTasks(s)
  PROVE  NaturalTasks(SubSeq(s, 1, n))
<1>1. PICK u : u = SubSeq(s, 1, n)
  OBVIOUS
<1>2. \A x \in ToSet(u) : x \in ToSet(s)
  BY <1>1 DEF ToSet
<1>3. QED
  BY <1>1, <1>2 DEF NaturalTasks

\* The beginnings of a file of natural tasks, the last of them cut.
LEMMA CutNatural ==
  ASSUME NEW case, CaseOfPlan(case), NaturalTasks(TaskLines(suite, gen, case)),
         NEW tasks \in TaskBeginnings(TaskLines(suite, gen, case))
  PROVE  NaturalTasks(tasks)
<1>1. PICK lines, X : lines = TaskLines(suite, gen, case) /\ X = ToSet(lines)
  OBVIOUS
<1>2. /\ lines \in Seq(X) /\ Len(lines) \in Nat /\ NaturalTasks(lines)
      /\ \A l \in ToSet(lines) : TaskOf(case, l)
  BY <1>1, TaskLinesOf DEF LinesOf
<1>3. CASE \E n \in 0 .. Len(lines) : tasks = SubSeq(lines, 1, n)
  BY <1>2, <1>3, BeginningIn
<1>4. CASE \E n \in 0 .. Len(lines) - 1, c \in TaskCuts :
             tasks = Append(SubSeq(lines, 1, n), CutTask(lines[n + 1], c))
  <2>1. PICK n \in 0 .. Len(lines) - 1, c \in TaskCuts :
               tasks = Append(SubSeq(lines, 1, n), CutTask(lines[n + 1], c))
    BY <1>4
  <2>2. n \in 0 .. Len(lines) /\ n + 1 \in 1 .. Len(lines) /\ DOMAIN lines = 1 .. Len(lines)
    BY <1>2
  <2>3. PICK u, l, x : u = SubSeq(lines, 1, n) /\ l = lines[n + 1] /\ x = CutTask(l, c)
    OBVIOUS
  <2>4. NaturalTasks(u) /\ u \in Seq(X)
    BY <1>2, <2>2, <2>3, BeginningIn
  <2>5. l \in ToSet(lines)
    BY <2>2, <2>3 DEF ToSet
  <2>6. l.task.alloc \in Nat /\ l.task.weight \in Nat
    BY <1>2, <2>5 DEF NaturalTasks
  <2>7. x.task.alloc \in Nat /\ x.task.weight \in Nat
    BY <1>2, <2>3, <2>5, <2>6, CutTaskIs
  <2>8. \A y \in ToSet(Append(u, x)) : y \in ToSet(u) \/ y = x
    BY <2>4 DEF ToSet
  <2>9. QED
    BY <2>1, <2>3, <2>4, <2>7, <2>8 DEF NaturalTasks
<1>5. tasks \in TaskBeginnings(lines)
  <2>1. tasks \in TaskBeginnings(TaskLines(suite, gen, case))
    OBVIOUS
  <2>2. QED
    BY <1>1, <2>1
<1>6. QED
  BY <1>2, <1>3, <1>4, <1>5, TaskBeginningIs

\* The tasks of one directory change, or none.
LEMMA ExecutedNatural ==
  ASSUME RunsShape, TasksNatural, NEW case, NEW metrics, NEW lines,
         Executed(case, metrics, lines), lines = None \/ NaturalTasks(lines)
  PROVE  TasksNatural'
<1>1. PICK e : e = <<suite, case.run>>
  OBVIOUS
<1>2. /\ DOMAIN runs' = DOMAIN runs
      /\ \A d \in DOMAIN runs : d # e => runs'[d] = runs[d]
      /\ e \in DOMAIN runs =>
           runs'[e] = [[runs[e] EXCEPT !.metrics = metrics] EXCEPT !.tasks = lines]
  BY <1>1 DEF Executed
<1>3. e \in DOMAIN runs =>
        runs'[e] = [metrics |-> metrics, tasks |-> lines, manifest |-> runs[e].manifest]
  BY <1>2 DEF RunsShape
<1>4. \A d \in DOMAIN runs : runs'[d].tasks # None => NaturalTasks(runs'[d].tasks)
  BY <1>2, <1>3 DEF TasksNatural
<1>5. QED
  BY <1>2, <1>4 DEF TasksNatural, NaturalTasks

LEMMA NaturalKept ==
  ASSUME TasksNatural, DOMAIN runs' = DOMAIN runs,
         \A d \in DOMAIN runs : runs'[d].tasks \in {runs[d].tasks, None}
  PROVE  TasksNatural'
<1>1. \A d \in DOMAIN runs : runs'[d].tasks # None => NaturalTasks(runs'[d].tasks)
  BY DEF TasksNatural
<1>2. QED
  BY <1>1 DEF TasksNatural, NaturalTasks

LEMMA TasksNaturalStep == RunsShape /\ Control /\ TasksNatural /\ [Next]_vars => TasksNatural'
<1> SUFFICES ASSUME RunsShape, Control, TasksNatural, [Next]_vars
             PROVE  TasksNatural'
  OBVIOUS
<1>1. CASE RunCase
  <2>1. PICK case, lines : case = Plan[cursor] /\ lines = TaskLines(suite, gen, case)
    OBVIOUS
  <2>2. Executed(case, MetricsLines(suite, gen, case), lines)
    BY <1>1, <2>1 DEF RunCase
  <2>3. NaturalTasks(lines)
    BY <1>1, <2>1, CaseNatural DEF RunCase
  <2>4. QED
    BY <2>2, <2>3, ExecutedNatural
<1>2. CASE BreakCase
  <2>1. PICK case, metrics, tasks :
          /\ pc = "cases" /\ cursor <= Len(Plan)
          /\ case = Plan[cursor] /\ CaseOfPlan(case) /\ <<suite, case.run>> \in DOMAIN runs
          /\ Executed(case, metrics, tasks)
          /\ \/ tasks = runs[<<suite, case.run>>].tasks
             \/ tasks \in TaskBeginnings(TaskLines(suite, gen, case))
    BY <1>2, BreakCaseIs
  <2>2. CASE tasks = runs[<<suite, case.run>>].tasks
    <3>1. tasks = None \/ NaturalTasks(tasks)
      BY <2>1, <2>2 DEF TasksNatural
    <3>2. QED
      BY <2>1, <3>1, ExecutedNatural
  <2>3. CASE tasks \in TaskBeginnings(TaskLines(suite, gen, case))
    <3>1. NaturalTasks(TaskLines(suite, gen, case))
      BY <2>1, CaseNatural
    <3>2. NaturalTasks(tasks)
      BY <2>1, <2>3, <3>1, CutNatural
    <3>3. QED
      BY <2>1, <3>2, ExecutedNatural
  <2>4. QED
    BY <2>1, <2>2, <2>3
<1>3. CASE Clean \/ KillClean
  <2>1. CASE Clean
    <3>1. /\ DOMAIN runs' = DOMAIN runs
          /\ \A d \in DOMAIN runs : runs'[d] = NoArtifacts \/ runs'[d] = runs[d]
      BY <2>1 DEF Clean
    <3>2. \A d \in DOMAIN runs : runs'[d].tasks \in {runs[d].tasks, None}
      BY <3>1 DEF NoArtifacts
    <3>3. QED
      BY <3>1, <3>2, NaturalKept
  <2>2. CASE KillClean
    BY <2>2, KillCleanIs, NaturalKept
  <2>3. QED
    BY <1>3, <2>1, <2>2
<1>4. CASE GenerateManifest
  <2>1. PICK dir, m : runs' = runs \/ runs' = [runs EXCEPT ![dir].manifest = m]
    BY <1>4 DEF GenerateManifest
  <2>2. CASE runs' = runs
    BY <2>2, NaturalKept
  <2>3. CASE runs' = [runs EXCEPT ![dir].manifest = m]
    <3>1. /\ DOMAIN runs' = DOMAIN runs
          /\ \A d \in DOMAIN runs : d # dir => runs'[d] = runs[d]
          /\ dir \in DOMAIN runs => runs'[dir] = [runs[dir] EXCEPT !.manifest = m]
      BY <2>3
    <3>2. dir \in DOMAIN runs =>
            runs'[dir] = [metrics |-> runs[dir].metrics, tasks |-> runs[dir].tasks, manifest |-> m]
      BY <3>1 DEF RunsShape
    <3>3. QED
      BY <3>1, <3>2, NaturalKept
  <2>4. QED
    BY <2>1, <2>2, <2>3
<1>5. CASE ~ (RunCase \/ BreakCase \/ Clean \/ KillClean \/ GenerateManifest)
  <2>1. runs' = runs
    BY <1>5 DEF Next, vars, Begin, EndOfCases, WriteSummary, EndOfRunner, BeginAggregate,
                WriteTable, EndOfAggregate, Export, Plot, Finish, BeginPublish, Publish,
                EndOfPublish, Kill, Idle, files
  <2>2. QED
    BY <2>1, NaturalKept
<1>6. QED
  BY <1>1, <1>2, <1>3, <1>4, <1>5

\* The tasks of a simulation are some of those read.
LEMMA KeyTasks ==
  ASSUME LinesHere, TasksNatural, NEW key, NEW u, u = TasksOf(AllTasks, key)
  PROVE  u \in Seq(ToSet(AllTasks)) /\ Natural(u)
<1>1. PICK s, X : s = AllTasks /\ X = ToSet(s)
  OBVIOUS
<1>2. s \in Seq(X)
  BY <1>1, TaskRows
<1>3. \A l \in X : l.task.alloc \in Nat /\ l.task.weight \in Nat
  <2>1. \A l : l \in ToSet(AllTasks) <=>
               \E d \in DOMAIN runs : runs[d].tasks # None /\ l \in ToSet(runs[d].tasks)
    BY TaskRows
  <2>2. QED
    BY <1>1, <2>1 DEF TasksNatural, NaturalTasks
<1> DEFINE T == {l \in X : RunKey(l) = key}
<1>4. u = FlattenSeq([i \in DOMAIN s |-> IF s[i] \in T THEN <<s[i]>> ELSE << >>])
  <2>1. \A i \in DOMAIN s : s[i] \in T <=> RunKey(s[i]) = key
    BY <1>2
  <2>2. [i \in DOMAIN s |-> IF s[i] \in T THEN <<s[i]>> ELSE << >>]
        = [i \in DOMAIN s |-> IF RunKey(s[i]) = key THEN <<s[i]>> ELSE << >>]
    BY <2>1, Zenon
  <2>3. QED
    BY <1>1, <2>2 DEF TasksOf, Filtered
<1> HIDE DEF T
<1>5. PICK v : v = FlattenSeq([i \in DOMAIN s |-> IF s[i] \in T THEN <<s[i]>> ELSE << >>])
  OBVIOUS
<1>6. v \in Seq(X)
  BY <1>2, <1>5, FilteredBy
<1>7. u \in Seq(X)
  BY <1>4, <1>5, <1>6
<1>8. \A i \in DOMAIN u : u[i] \in X
  BY <1>7
<1>9. Natural(u)
  BY <1>3, <1>8 DEF Natural
<1>10. QED
  BY <1>1, <1>7, <1>9

\* The rows of a simulation balance.
LEMMA RowsBalance ==
  ASSUME NEW X, NEW s \in Seq(X), Natural(s), NEW key, NEW e, NEW a, NEW B, RowsOf(key, s, e, a, B)
  PROVE  /\ MapThenSumSet(LAMBDA b : b.observed, B) = a.alloc * a.weight
         /\ MapThenSumSet(LAMBDA b : b.expected, B) = a.alloc * a.weight
         /\ (a.alloc > 0 /\ a.weight > 0) => a.shareError <= 2 * a.alloc * a.weight
         /\ Cardinality(Nices(s)) = Cardinality(B)
<1>1. a = Allocation(key, s, e)
  BY DEF RowsOf
<1>2. (a.alloc > 0 /\ a.weight > 0) => a.shareError <= 2 * a.alloc * a.weight
  BY <1>1, ErrorBounded
<1>3. MapThenSumSet(LAMBDA b : b.observed, B) = a.alloc * a.weight
  BY ObservedBalances
<1>4. MapThenSumSet(LAMBDA b : b.expected, B) = a.alloc * a.weight
  BY ExpectedBalances
<1>5. Cardinality(Nices(s)) = Cardinality(B)
  BY BucketPerNice
<1>6. QED
  BY <1>2, <1>3, <1>4, <1>5

\* What is in the three tables.
LEMMA ThreeTables ==
  ASSUME LinesHere, NEW K, K = Keys(AllTasks)
  PROVE  /\ KeysOf(AllocationTable) = K
         /\ KeysOf(NiceBucketTable) = K
         /\ KeysOf(CharacteristicsTable) = K
<1> DEFINE A(key) == Allocation(key, TasksOf(AllTasks, key), ExperimentsOfKey(key))
           C(key) == Characteristics(key, TasksOf(AllTasks, key), ExperimentsOfKey(key))
<1>1. \A key : A(key).key = key
  BY DEF Allocation
<1>2. \A key : C(key).key = key
  BY DEF Characteristics
<1>3. AllocationTable = {A(key) : key \in K}
  BY DEF AllocationTable
<1>4. CharacteristicsTable = {C(key) : key \in K}
  BY DEF CharacteristicsTable
<1> HIDE DEF A, C
<1>5. KeysOf(AllocationTable) = K
  <2>1. PICK R : R = AllocationTable
    OBVIOUS
  <2>2. KeysOf(R) = K
    BY <1>1, <1>3, <2>1 DEF KeysOf
  <2>3. QED
    BY <2>1, <2>2
<1>6. KeysOf(CharacteristicsTable) = K
  <2>1. PICK R : R = CharacteristicsTable
    OBVIOUS
  <2>2. KeysOf(R) = K
    BY <1>2, <1>4, <2>1 DEF KeysOf
  <2>3. QED
    BY <2>1, <2>2
<1>7. ASSUME NEW key \in K
      PROVE  \E b \in NiceBucketTable : b.key = key
  <2>1. PICK tasks, e : tasks = TasksOf(AllTasks, key) /\ e = ExperimentsOfKey(key)
    OBVIOUS
  <2>2. 1 \in DOMAIN tasks
    BY <2>1, TasksOfKey
  <2>3. tasks[1].task.nice \in Nices(tasks)
    BY <2>2 DEF Nices
  <2>4. PICK nice, b : nice = tasks[1].task.nice /\ b = NiceBucket(key, tasks, nice, e)
    OBVIOUS
  <2>5. b \in NiceBucketTable
    BY <2>1, <2>3, <2>4, BucketsAre
  <2>6. b.key = key
    BY <2>4 DEF NiceBucket
  <2>7. QED
    BY <2>5, <2>6
<1>8. ASSUME NEW b \in NiceBucketTable
      PROVE  b.key \in K
  <2>1. PICK key \in K : \E nice \in Nices(TasksOf(AllTasks, key)) :
               b = NiceBucket(key, TasksOf(AllTasks, key), nice, ExperimentsOfKey(key))
    BY BucketsAre
  <2>2. b.key = key
    BY <2>1 DEF NiceBucket
  <2>3. QED
    BY <2>2
<1>9. KeysOf(NiceBucketTable) = K
  <2>1. PICK R : R = NiceBucketTable
    OBVIOUS
  <2>2. \A k : k \in KeysOf(R) <=> \E r \in R : k = r.key
    BY DEF KeysOf
  <2>3. \A k : k \in KeysOf(R) <=> k \in K
    <3>1. \A k \in K : \E r \in R : k = r.key
      BY <1>7, <2>1
    <3>2. \A r \in R : r.key \in K
      BY <1>8, <2>1
    <3>3. QED
      BY <2>2, <3>1, <3>2
  <2>4. KeysOf(R) = K
    BY <2>3
  <2>5. QED
    BY <2>1, <2>4
<1>10. QED
  BY <1>5, <1>6, <1>9

\* The buckets of a simulation in the table.
LEMMA BucketsOfKey ==
  ASSUME NEW key \in Keys(AllTasks), NEW s, s = TasksOf(AllTasks, key),
         NEW e, e = ExperimentsOfKey(key), NEW a, a = Allocation(key, s, e),
         NEW B, B = {b \in NiceBucketTable : b.key = key}
  PROVE  RowsOf(key, s, e, a, B)
<1>1. ASSUME NEW b, b \in B
      PROVE  \E nice \in Nices(s) : b = NiceBucket(key, s, nice, e)
  <2>1. b \in NiceBucketTable /\ b.key = key
    BY <1>1
  <2>2. PICK k \in Keys(AllTasks) : \E nice \in Nices(TasksOf(AllTasks, k)) :
               b = NiceBucket(k, TasksOf(AllTasks, k), nice, ExperimentsOfKey(k))
    BY <2>1, BucketsAre
  <2>3. b.key = k
    BY <2>2 DEF NiceBucket
  <2>4. QED
    BY <2>1, <2>2, <2>3
<1>2. ASSUME NEW nice \in Nices(s), NEW b, b = NiceBucket(key, s, nice, e)
      PROVE  b \in B
  <2>1. b \in NiceBucketTable
    BY <1>2, BucketsAre
  <2>2. b.key = key
    BY <1>2 DEF NiceBucket
  <2>3. QED
    BY <2>1, <2>2
<1>3. QED
  BY <1>1, <1>2 DEF RowsOf

\* The tables agree and their rows balance.
Balanced(allocation, buckets, characteristics) ==
  /\ KeysOf(allocation) = KeysOf(buckets)
  /\ KeysOf(allocation) = KeysOf(characteristics)
  /\ \A a \in allocation :
       LET B == {b \in buckets : b.key = a.key}
       IN  /\ MapThenSumSet(LAMBDA b : b.observed, B) = a.alloc * a.weight
           /\ MapThenSumSet(LAMBDA b : b.expected, B) = a.alloc * a.weight
           /\ (a.alloc > 0 /\ a.weight > 0) => a.shareError <= 2 * a.alloc * a.weight
           /\ \A c \in characteristics : c.key = a.key => c.uniqueNice = Cardinality(B)

LEMMA TablesBalance ==
  ASSUME LinesHere, TasksNatural
  PROVE  Balanced(AllocationTable, NiceBucketTable, CharacteristicsTable)
<1>1. /\ KeysOf(AllocationTable) = KeysOf(NiceBucketTable)
      /\ KeysOf(AllocationTable) = KeysOf(CharacteristicsTable)
  BY ThreeTables
<1>2. ASSUME NEW a \in AllocationTable, NEW B, B = {b \in NiceBucketTable : b.key = a.key}
      PROVE  /\ MapThenSumSet(LAMBDA b : b.observed, B) = a.alloc * a.weight
             /\ MapThenSumSet(LAMBDA b : b.expected, B) = a.alloc * a.weight
             /\ (a.alloc > 0 /\ a.weight > 0) => a.shareError <= 2 * a.alloc * a.weight
             /\ \A c \in CharacteristicsTable : c.key = a.key => c.uniqueNice = Cardinality(B)
  <2>1. PICK key \in Keys(AllTasks) :
           a = Allocation(key, TasksOf(AllTasks, key), ExperimentsOfKey(key))
    BY DEF AllocationTable
  <2>2. PICK s, e : s = TasksOf(AllTasks, key) /\ e = ExperimentsOfKey(key)
    OBVIOUS
  <2>3. a = Allocation(key, s, e)
    BY <2>1, <2>2
  <2>4. a.key = key
    BY <2>3 DEF Allocation
  <2>5. RowsOf(key, s, e, a, B)
    <3>1. B = {b \in NiceBucketTable : b.key = key}
      BY <1>2, <2>4
    <3>2. QED
      BY <2>2, <2>3, <3>1, BucketsOfKey
  <2>6. s \in Seq(ToSet(AllTasks)) /\ Natural(s)
    BY <2>2, KeyTasks
  <2>7. PICK X : s \in Seq(X)
    BY <2>6
  <2>8. /\ MapThenSumSet(LAMBDA b : b.observed, B) = a.alloc * a.weight
        /\ MapThenSumSet(LAMBDA b : b.expected, B) = a.alloc * a.weight
        /\ (a.alloc > 0 /\ a.weight > 0) => a.shareError <= 2 * a.alloc * a.weight
        /\ Cardinality(Nices(s)) = Cardinality(B)
    BY <2>5, <2>6, <2>7, RowsBalance
  <2>9. ASSUME NEW c \in CharacteristicsTable, c.key = a.key
        PROVE  c.uniqueNice = Cardinality(B)
    <3>1. PICK k \in Keys(AllTasks) :
             c = Characteristics(k, TasksOf(AllTasks, k), ExperimentsOfKey(k))
      BY DEF CharacteristicsTable
    <3>2. c.key = k /\ c.uniqueNice = Cardinality(Nices(TasksOf(AllTasks, k)))
      BY <3>1 DEF Characteristics
    <3>3. k = key
      BY <2>4, <2>9, <3>2
    <3>4. QED
      BY <2>2, <2>8, <3>2, <3>3
  <2>10. QED
    BY <2>8, <2>9
<1>3. QED
  BY <1>1, <1>2 DEF Balanced

\* Once the three tables are written they balance.
SharesInv ==
  (pc # "aggregate" /\ {"allocation", "buckets", "characteristics"} \subseteq fresh) =>
    Balanced(tables["allocation"], tables["buckets"], tables["characteristics"])

LEMMA WrittenBalance ==
  ASSUME Control, OneExecution, TasksNatural, TableState, SharesInv,
         {"allocation", "buckets", "characteristics"} \subseteq fresh
  PROVE  Balanced(tables["allocation"], tables["buckets"], tables["characteristics"])
<1>1. CASE pc = "aggregate"
  <2>1. LinesHere /\ AsWritten
    BY <1>1 DEF LinesHere, Control, TableState
  <2>2. /\ tables["allocation"] = AllocationTable
        /\ tables["buckets"] = NiceBucketTable
        /\ tables["characteristics"] = CharacteristicsTable
    BY <2>1 DEF AsWritten, Contents
  <2>3. QED
    BY <2>1, <2>2, TablesBalance
<1>2. CASE pc # "aggregate"
  BY <1>2 DEF SharesInv
<1>3. QED
  BY <1>1, <1>2

LEMMA SharesInvInit == Init => SharesInv
BY DEF Init, SharesInv

LEMMA SharesInvStep ==
  Control /\ OneExecution /\ TasksNatural /\ TableState /\ SharesInv /\ [Next]_vars => SharesInv'
<1> SUFFICES ASSUME Control, OneExecution, TasksNatural, TableState, SharesInv, [Next]_vars,
                    pc' # "aggregate", {"allocation", "buckets", "characteristics"} \subseteq fresh'
             PROVE  Balanced(tables'["allocation"], tables'["buckets"], tables'["characteristics"])
  <2>1. SharesInv' <=>
          ((pc' # "aggregate" /\ {"allocation", "buckets", "characteristics"} \subseteq fresh') =>
             Balanced(tables'["allocation"], tables'["buckets"], tables'["characteristics"]))
    BY DEF SharesInv
  <2>2. QED
    BY <2>1
<1>1. ~ WriteTable
  BY DEF WriteTable
<1>2. fresh' \in {fresh, {}}
  BY <1>1 DEF Next, vars, Begin, Clean, RunCase, BreakCase, EndOfCases, WriteSummary,
        GenerateManifest, EndOfRunner, BeginAggregate, EndOfAggregate, Export,
        Plot, Finish, BeginPublish, Publish, EndOfPublish, Kill, KillClean, Idle, EndCommand, ghosts
<1>3. \A t \in fresh : tables'[t] = tables[t]
  <2>1. CASE Export
    <3>1. "summary" \notin fresh
      BY TableNames DEF Control
    <3>2. QED
      BY <2>1, <3>1 DEF Export
  <2>2. CASE ~ Export
    BY <1>1, <2>2 DEF Next, vars, Begin, Clean, RunCase, BreakCase, EndOfCases, WriteSummary,
        GenerateManifest, EndOfRunner, BeginAggregate, EndOfAggregate,
        Plot, Finish, BeginPublish, Publish, EndOfPublish, Kill, KillClean, Idle, files
  <2>3. QED
    BY <2>1, <2>2
<1>4. {"allocation", "buckets", "characteristics"} \subseteq fresh
  BY <1>2
<1>5. Balanced(tables["allocation"], tables["buckets"], tables["characteristics"])
  BY <1>4, WrittenBalance
<1>6. QED
  BY <1>3, <1>4, <1>5

\* The buckets of a simulation share out all of its tasks, no distribution of CPU
\* is further than 2 from the one by weight, and the three tables agree.
THEOREM SharesOfAllTasks == Spec => []SharesBalance
<1>1. Control /\ OneExecution /\ TasksNatural /\ TableState /\ SharesInv => SharesBalance
  BY WrittenBalance DEF SharesBalance, Balanced
<1>2. IInv => RunsShape
  BY DEF IInv
<1>3. QED
  BY InitIInv, NextIInv, ControlInit, ControlStep, OneExecutionInit, OneExecutionStep,
     TableStateInit, TableStateStep, TasksNaturalInit, TasksNaturalStep,
     SharesInvInit, SharesInvStep, <1>1, <1>2, PTL
     DEF Spec

=============================================================================
