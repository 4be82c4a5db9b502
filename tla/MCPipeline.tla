------------------------------ MODULE MCPipeline ------------------------------
(***************************************************************************)
(* Two suites with a common experiment.  The document of the first loses   *)
(* its fair scheduler and a run between executions and turns to all        *)
(* workloads, of which a trace cannot be read; that of the second asks for *)
(* this trace alone.                                                       *)
(***************************************************************************)
EXTENDS BenchmarkPipeline

Config(topology, cores, steal) == [topology |-> topology, cores |-> cores, steal |-> steal]

Case(run, config, experiments, workload, sims) ==
  [run |-> run, config |-> config, experiments |-> experiments,
   workload |-> workload, sims |-> sims]

Both == <<<<"Desktop", "CFS">>, <<"Desktop", "MLFQ">>>>

MCPlans ==
  [core |->
     {<<Case("r1", Config("sq", 4, "na"), {"exp3", "exp5"}, "Desktop", Both),
        Case("r2", Config("mq", 4, "off"), {"exp5"}, "Server", <<<<"Server", "CFS">>>>)>>,
      <<Case("r1", Config("sq", 4, "na"), {"exp3"}, "all",
             <<<<"Desktop", "MLFQ">>, <<"GoogleTraceV3", "MLFQ">>>>)>>},
   wide |->
     {<<Case("r3", Config("sq", 8, "na"), {"exp3"}, "GoogleTraceV3",
             <<<<"GoogleTraceV3", "CFS">>>>)>>}]

MCRunOrder == <<<<"core", "r1">>, <<"core", "r2">>, <<"wide", "r3">>>>

\* Before the comma behind a name and inside the last number; inside a name.
MCCuts == {<<7, "gone">>, <<15, "part">>}

MCTaskCuts == {<<2, "part">>}

Task(nice, weight, alloc) == [nice |-> nice, weight |-> weight, alloc |-> alloc]

Metrics(completed, permille, meanRT, switches, throughput) ==
  [completed |-> completed, permille |-> permille, meanRT |-> meanRT, p99RT |-> meanRT,
   switches |-> switches, throughput |-> throughput]

MCResult ==
  <<"Desktop", "CFS">> :>
     [metrics |-> Metrics(1, 1000, 4, 7, 5), tasks |-> <<Task(5, 1, 1)>>]
  @@ <<"Desktop", "MLFQ">> :>
     [metrics |-> Metrics(1, 50, 2, 0, 2), tasks |-> <<Task(5, 1, 3)>>]
  @@ <<"Server", "CFS">> :>
     [metrics |-> Metrics(2, 1000, 4, 7, 5), tasks |-> <<Task(0, 2, 3), Task(5, 1, 1)>>]
  @@ <<"GoogleTraceV3", "CFS">> :> [metrics |-> Metrics(0, 0, 0, 0, 0), tasks |-> << >>]
  @@ <<"GoogleTraceV3", "MLFQ">> :> [metrics |-> Metrics(0, 0, 0, 0, 0), tasks |-> << >>]

=============================================================================
