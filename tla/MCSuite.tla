------------------------------- MODULE MCSuite -------------------------------
(***************************************************************************)
(* Suites of two experiments with any of the run lists below, and of three *)
(* that reuse each other in every way, circles and unknown ids included.   *)
(* "web" is a plugin of its own that runs the simulator's server workload, *)
(* "edf" one for a scheduler the simulator does not have.                  *)
(***************************************************************************)
EXTENDS BenchmarkSuite, TLC

MCLowerCase ==
  "MQ" :> "mq" @@ "RR" :> "rr" @@ "Google" :> "google" @@ "CFS" :> "cfs"
  @@ "GoogleTraceV3" :> "googletracev3"

MCWorkloadCli ==
  [desktop |-> "desktop", server |-> "server", google |-> "google", alibaba |-> "alibaba",
   all |-> "all", googletracev3 |-> "google", web |-> "server"]

MCSchedulerCli == [cfs |-> "cfs", mlfq |-> "mlfq", all |-> "all", edf |-> "edf"]

\* A run on one queue, and one on several; sizes are even, stop times whole.
Sq(workload, size) ==
  [workload |-> workload, scheduler |-> Absent, size |-> size, topology |-> "sq",
   balancer |-> Absent, steal |-> Absent]

Mq(topology, balancer, steal) ==
  [Sq("google", 2) EXCEPT !.topology = topology, !.balancer = balancer, !.steal = steal]

On(scheduler) == [Sq("google", 2) EXCEPT !.scheduler = scheduler]

RunLists ==
  {<< >>,
   <<Sq("google", 2)>>,
   <<Sq("all", 2)>>,
   <<Sq("desktop", 2), Sq("Google", 2)>>,
   <<Sq("google", 4), Sq("google", 4)>>,
   <<Sq("google", 3), Sq("google", 1)>>,
   <<Sq("GoogleTraceV3", 2)>>,
   <<Sq("web", 2), Sq("server", 2)>>,
   <<On("CFS"), On("mlfq")>>,
   <<On("edf")>>,
   <<On("unknown")>>,
   <<Mq("mq", "rr", Absent)>>,
   <<Mq("mq", "rr", "on"), Mq("mq", "rr", Absent)>>,
   <<Mq("mq", "rr", "off"), Mq("mq", "leastloaded", "on")>>,
   <<Mq("MQ", "rr", "off")>>,
   <<Mq("mq", "RR", "on")>>,
   <<Mq("mq", Absent, "on")>>,
   <<Sq("google", 0)>>,
   <<Sq("unknown", 2)>>}

GoodDefaults ==
  [scheduler |-> "CFS", replications |-> 1, topology |-> "sq", seedBase |-> 1]

Exp(id, runs, reuse) == [id |-> id, runs |-> runs, reuse |-> reuse]

Suite(exps) == [defaults |-> GoodDefaults, experiments |-> exps]

MCDocuments ==
  {Suite(<<Exp("e1", r, Absent), Exp(id, s, reuse)>>) :
     r \in RunLists, s \in RunLists, id \in {"e1", "e2"}, reuse \in {Absent, "e1"}}
  \cup
  {Suite(<<Exp("e1", r, p), Exp("e2", <<Sq("all", 2)>>, q), Exp("e3", << >>, o)>>) :
     r \in {<<Sq("google", 2)>>, <<Sq("desktop", 4)>>},
     p \in {Absent, "e1", "e2", "e3"}, q \in {Absent, "e1", "e3"},
     o \in {Absent, "e1", "e2", "e4"}}
  \cup
  {[Suite(<<Exp("e1", <<Sq("google", 2)>>, Absent)>>) EXCEPT !.defaults = d] :
     d \in {[GoodDefaults EXCEPT !.replications = 0], [GoodDefaults EXCEPT !.scheduler = "unknown"]}}
  \cup
  {Suite(<< >>)}

=============================================================================
