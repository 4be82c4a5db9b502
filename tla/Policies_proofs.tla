---------------------------- MODULE Policies_proofs ----------------------------
(***************************************************************************)
(* What each policy promises, proved from its calls, for every workload,   *)
(* all weights and all parameters.                                         *)
(***************************************************************************)
EXTENDS Simulator_proofs, SequenceLemmas, CFS, Stride, EEVDF, MLFQ

-----------------------------------------------------------------------------
(* CFS *)

\* The states of a CFSScheduler and of the fields it keeps in the tasks.
CfsObjects ==
  [ready : SUBSET Tasks, vruntime : [Tasks -> Nat], minVruntime : Nat,
   weight : [Tasks -> Weights]]

\* PolicySimulator drives a CFSScheduler; tasks are their ids, and Slices holds
\* the slices calc_time_slice can return.
DrivesCfs ==
  /\ Tasks \subseteq Nat
  /\ \A p \in CfsObjects : \A t \in p.ready : CfsSlice(p, t) \in Slices
  /\ PolicyInits = CfsInits
  /\ \A p : Ready(p) = CfsReady(p) /\ Decided(p) = CfsDecided(p)
  /\ \A p, t, x : /\ Added(p, t, x) = CfsAdded(p, t, x)
                  /\ CpuUsed(p, t, x) = CfsCpuUsed(p, t, x)
  /\ \A p, t : Removed(p, t) = CfsRemoved(p, t)

\* What task t may be owed, in virtual time.
Credit(p, t) == Virtual(SchedLatency, p.weight[t])

\* The tasks that are owed no more.
CfsBounded == {x \in CfsObjects \X Tasks :
              x[1].vruntime[x[2]] >= x[1].minVruntime - Credit(x[1], x[2])}

\* Virtual time is a natural number.
LEMMA VirtualNat ==
  ASSUME NEW d \in Nat, NEW w \in Nat \ {0}
  PROVE  Virtual(d, w) \in Nat
<1>1. PICK k \in Nat : k = d * Nice0Load
  BY WeightsAssumption
<1>2. k \div w \in Nat
  OBVIOUS
<1>3. QED
  BY <1>1, <1>2 DEF Virtual

\* add_task.
LEMMA CfsAddedFacts ==
  ASSUME NEW p \in CfsObjects, NEW t \in Tasks, NEW new \in BOOLEAN
  PROVE  LET n == CfsAdded(p, t, new)
         IN  /\ n \in CfsObjects /\ n.ready = p.ready \cup {t}
             /\ n.minVruntime = p.minVruntime /\ n.weight = p.weight
             /\ n.vruntime[t] >= p.minVruntime - Credit(p, t)
             /\ \A u \in Tasks \ {t} : n.vruntime[u] = p.vruntime[u]
<1> DEFINE v == p.vruntime[t]
           g == p.minVruntime
           r == Credit(p, t)
<1>1. /\ v \in Nat /\ g \in Nat /\ p.weight[t] \in Weights
      /\ p.vruntime \in [Tasks -> Nat] /\ p.ready \in SUBSET Tasks
      /\ p.weight \in [Tasks -> Weights]
  BY DEF CfsObjects
<1>2. r \in Nat
  BY <1>1, VirtualNat, CFSAssumption, WeightsAssumption DEF Credit
<1>3. p = [ready |-> p.ready, vruntime |-> p.vruntime, minVruntime |-> g,
           weight |-> p.weight]
  BY DEF CfsObjects
<1>4. PICK n : n = CfsAdded(p, t, new)
  OBVIOUS
<1>5. PICK x : x = Max({v, g - r})
  OBVIOUS
<1>6. PICK m : m = IF new THEN g ELSE x
  OBVIOUS
<1>7. n = [p EXCEPT !.ready = @ \cup {t}, !.vruntime[t] = m]
  BY <1>4, <1>5, <1>6 DEF CfsAdded, Clamped, Credit
<1>8. n = [ready |-> p.ready \cup {t}, vruntime |-> [p.vruntime EXCEPT ![t] = m],
           minVruntime |-> g, weight |-> p.weight]
  BY <1>3, <1>7
<1> HIDE DEF v, g, r
<1>9. PICK y : y = g - r
  OBVIOUS
<1>10. y \in Int /\ y <= g
  BY <1>1, <1>2, <1>9
<1>11. x = Max({v, y})
  BY <1>5, <1>9
<1>12. x \in {v, y} /\ v <= x /\ y <= x
  <2>1. v \in Int /\ y \in Int
    BY <1>1, <1>10
  <2>2. QED
    BY <1>11, <2>1, MaxOfTwo, Zenon
<1>13. x \in Nat
  BY <1>1, <1>10, <1>12
<1>14. m \in Nat /\ m >= y
  BY <1>1, <1>6, <1>10, <1>12, <1>13
<1>15. n \in CfsObjects
  BY <1>1, <1>8, <1>14 DEF CfsObjects
<1>16. /\ n.ready = p.ready \cup {t} /\ n.minVruntime = g /\ n.weight = p.weight
       /\ n.vruntime = [p.vruntime EXCEPT ![t] = m]
  BY <1>8
<1>17. n.vruntime[t] = m /\ \A u \in Tasks \ {t} : n.vruntime[u] = p.vruntime[u]
  BY <1>1, <1>16
<1>18. QED
  BY <1>4, <1>9, <1>14, <1>15, <1>16, <1>17 DEF g, r

\* on_cpu_used.
LEMMA CfsCpuUsedFacts ==
  ASSUME NEW p \in CfsObjects, NEW t \in Tasks, t \notin p.ready, NEW d \in Nat
  PROVE  LET n == CfsCpuUsed(p, t, d)
         IN  /\ n \in CfsObjects /\ n.ready = p.ready
             /\ \A u \in p.ready :
                  p.vruntime[u] >= p.minVruntime - Credit(p, u) =>
                    n.vruntime[u] >= n.minVruntime - Credit(n, u)
<1> DEFINE n == CfsCpuUsed(p, t, d)
           f == p.vruntime
           S == p.ready
           g == p.minVruntime
           a == Virtual(d, p.weight[t])
<1>1. /\ f \in [Tasks -> Nat] /\ S \in SUBSET Tasks /\ g \in Nat
      /\ p.weight[t] \in Weights /\ p.weight \in [Tasks -> Weights]
  BY DEF CfsObjects
<1>2. p = [ready |-> S, vruntime |-> f, minVruntime |-> g, weight |-> p.weight]
  BY DEF CfsObjects
<1>3. a \in Nat
  BY <1>1, VirtualNat, WeightsAssumption
<1>4. PICK h : h = Updated(S, f, g)
  OBVIOUS
<1>5. PICK k : k = [f EXCEPT ![t] = @ + a]
  OBVIOUS
<1>6. n = [p EXCEPT !.vruntime = k, !.minVruntime = h]
  BY <1>4, <1>5 DEF CfsCpuUsed, Updated
<1>7. n = [ready |-> S, vruntime |-> k, minVruntime |-> h, weight |-> p.weight]
  BY <1>2, <1>6
<1> HIDE DEF n, f, S, g, a
<1>8. h \in Nat /\ \A u \in S : h = g \/ h <= f[u]
  BY <1>1, <1>4, UpdatedFacts
<1>9. k \in [Tasks -> Nat] /\ \A u \in Tasks \ {t} : k[u] = f[u]
  BY <1>1, <1>3, <1>5
<1>10. n \in CfsObjects
  BY <1>1, <1>7, <1>8, <1>9 DEF CfsObjects
<1>11. n.ready = S /\ n.minVruntime = h /\ n.vruntime = k /\ n.weight = p.weight
  BY <1>7
<1>12. S \subseteq Tasks \ {t}
  BY <1>1 DEF S
<1>13. ASSUME NEW u \in S, f[u] >= g - Credit(p, u)
       PROVE  n.vruntime[u] >= n.minVruntime - Credit(n, u)
  <2>1. PICK r : r = Credit(p, u)
    OBVIOUS
  <2>2. p.weight[u] \in Weights
    BY <1>1
  <2>3. r \in Nat
    BY <2>1, <2>2, VirtualNat, CFSAssumption, WeightsAssumption DEF Credit
  <2>4. Credit(n, u) = r
    BY <1>11, <2>1 DEF Credit
  <2>5. n.vruntime[u] = f[u] /\ f[u] \in Nat
    BY <1>1, <1>9, <1>11, <1>12
  <2>6. f[u] >= h - r
    BY <1>1, <1>8, <1>13, <2>1, <2>3, <2>5
  <2>7. QED
    BY <1>11, <2>4, <2>5, <2>6
<1>14. QED
  BY <1>10, <1>11, <1>13 DEF n, f, S, g

\* remove_task.
LEMMA CfsRemovedFacts ==
  ASSUME NEW p \in CfsObjects, NEW t
  PROVE  LET n == CfsRemoved(p, t)
         IN  /\ n \in CfsObjects /\ n.ready = p.ready \ {t} /\ n.vruntime = p.vruntime
             /\ n.minVruntime = p.minVruntime /\ n.weight = p.weight
<1>1. p = [ready |-> p.ready, vruntime |-> p.vruntime, minVruntime |-> p.minVruntime,
           weight |-> p.weight]
  BY DEF CfsObjects
<1>2. PICK n : n = CfsRemoved(p, t)
  OBVIOUS
<1>3. n = [ready |-> p.ready \ {t}, vruntime |-> p.vruntime, minVruntime |-> p.minVruntime,
           weight |-> p.weight]
  BY <1>1, <1>2 DEF CfsRemoved
<1>4. n \in CfsObjects
  BY <1>3 DEF CfsObjects
<1>5. QED
  BY <1>2, <1>3, <1>4

\* Some ready task comes before all others.
LEMMA CfsSomeFirst ==
  ASSUME NEW p \in CfsObjects, p.ready # {}, Tasks \subseteq Nat
  PROVE  \E t \in p.ready : \A u \in p.ready \ {t} : CfsBefore(p, t, u)
<1> DEFINE S == p.ready
           A == {p.vruntime[t] : t \in S}
<1>1. S \in SUBSET Tasks /\ \A t \in S : p.vruntime[t] \in Nat
  BY DEF CfsObjects
<1>2. A \in SUBSET Nat /\ A # {}
  BY <1>1
<1>3. \A t \in S : p.vruntime[t] \in A
  OBVIOUS
<1>4. \A x \in A : \E t \in S : p.vruntime[t] = x
  OBVIOUS
<1> HIDE DEF A
<1>5. PICK a \in A : \A y \in A : a <= y
  BY <1>2, LeastNatural
<1> DEFINE B == {t \in S : p.vruntime[t] = a}
<1>6. B \in SUBSET Nat /\ B # {}
  BY <1>1, <1>4
<1>7. \A t \in S : p.vruntime[t] = a <=> t \in B
  OBVIOUS
<1>8. B \subseteq S
  OBVIOUS
<1> HIDE DEF B, S
<1>9. PICK t \in B : \A y \in B : t <= y
  BY <1>6, LeastNatural
<1>10. t \in S /\ p.vruntime[t] = a
  BY <1>7, <1>8
<1>11. ASSUME NEW u \in S, u # t
       PROVE  CfsBefore(p, t, u)
  <2>1. p.vruntime[u] \in Nat /\ a \in Nat /\ u \in Nat /\ t \in Nat
    BY <1>1, <1>2, <1>6
  <2>2. a <= p.vruntime[u]
    BY <1>3, <1>5
  <2>3. p.vruntime[u] = a => t <= u
    BY <1>7, <1>9
  <2>4. \/ a < p.vruntime[u]
        \/ p.vruntime[u] = a /\ t < u
    BY <1>11, <2>1, <2>2, <2>3
  <2>5. QED
    BY <1>10, <2>4 DEF CfsBefore
<1>12. QED
  BY <1>10, <1>11 DEF S

\* A CFSScheduler keeps the contract, call by call.
LEMMA CfsContract ==
  ASSUME DrivesCfs
  PROVE  Contract(CfsObjects)
<1>1. CfsInits \subseteq CfsObjects /\ \A p \in CfsInits : p.ready = {}
  <2> SUFFICES ASSUME NEW p \in CfsInits
               PROVE  p \in CfsObjects /\ p.ready = {}
    OBVIOUS
  <2>1. PICK zero : zero = [t \in Tasks |-> 0]
    OBVIOUS
  <2>2. PICK w \in [Tasks -> Weights] :
          p = [ready |-> {}, vruntime |-> zero, minVruntime |-> 0, weight |-> w]
    BY <2>1 DEF CfsInits
  <2>3. zero \in [Tasks -> Nat]
    BY <2>1
  <2>4. QED
    BY <2>2, <2>3 DEF CfsObjects
<1>2. ASSUME NEW p \in CfsObjects
      PROVE  CfsDecided(p) \in Decisions(p.ready)
  <2>1. CASE p.ready = {}
    BY <2>1 DEF CfsDecided, Decisions
  <2>2. CASE p.ready # {}
    <3> DEFINE t == CHOOSE t \in p.ready : \A u \in p.ready \ {t} : CfsBefore(p, t, u)
    <3>1. Tasks \subseteq Nat /\ \A u \in p.ready : CfsSlice(p, u) \in Slices
      BY DEF DrivesCfs
    <3>2. \E x \in p.ready : \A u \in p.ready \ {x} : CfsBefore(p, x, u)
      BY <2>2, <3>1, CfsSomeFirst
    <3>3. t \in p.ready
      BY <3>2, Zenon
    <3>4. CfsDecided(p) = [task |-> t, slice |-> CfsSlice(p, t)]
      BY <2>2 DEF CfsDecided, CfsBest
    <3> HIDE DEF t
    <3>5. PICK x : x = CfsSlice(p, t)
      OBVIOUS
    <3>6. x \in Slices
      BY <3>1, <3>3, <3>5
    <3>7. [task |-> t, slice |-> x] \in [task : p.ready, slice : Slices]
      BY <3>3, <3>6
    <3>8. Decisions(p.ready) = [task : p.ready, slice : Slices]
      BY <2>2 DEF Decisions
    <3>9. QED
      BY <3>4, <3>5, <3>7, <3>8
  <2>3. QED
    BY <2>1, <2>2
<1>3. \A p \in CfsObjects : p.ready \subseteq Tasks
  BY DEF CfsObjects
<1>4. \A p \in CfsObjects : \A t \in Tasks \ p.ready : \A new \in BOOLEAN :
        CfsAdded(p, t, new) \in CfsObjects
          /\ CfsAdded(p, t, new).ready = p.ready \cup {t}
  BY CfsAddedFacts
<1>5. \A p \in CfsObjects : \A t \in Tasks \ p.ready : \A d \in Nat :
        CfsCpuUsed(p, t, d) \in CfsObjects /\ CfsCpuUsed(p, t, d).ready = p.ready
  BY CfsCpuUsedFacts
<1>6. \A p \in CfsObjects : \A t \in p.ready :
        CfsRemoved(p, t) \in CfsObjects /\ CfsRemoved(p, t).ready = p.ready \ {t}
  BY CfsRemovedFacts
<1>7. QED
  BY <1>1, <1>2, <1>3, <1>4, <1>5, <1>6 DEF Contract, DrivesCfs, CfsReady

\* It bounds the credit of every ready task.
LEMMA CfsProtects ==
  ASSUME DrivesCfs
  PROVE  Protects(CfsObjects, CfsBounded)
<1>1. ASSUME NEW p \in CfsObjects, NEW t \in Tasks
      PROVE  <<p, t>> \in CfsBounded <=> p.vruntime[t] >= p.minVruntime - Credit(p, t)
  BY DEF CfsBounded
<1>2. ASSUME NEW p \in CfsObjects, NEW t \in Tasks \ p.ready, NEW new \in BOOLEAN
      PROVE  /\ <<CfsAdded(p, t, new), t>> \in CfsBounded
             /\ \A u \in Tasks \ {t} :
                  <<p, u>> \in CfsBounded => <<CfsAdded(p, t, new), u>> \in CfsBounded
  <2>1. PICK n : n = CfsAdded(p, t, new)
    OBVIOUS
  <2>2. /\ n \in CfsObjects /\ n.minVruntime = p.minVruntime /\ n.weight = p.weight
        /\ n.vruntime[t] >= p.minVruntime - Credit(p, t)
        /\ \A u \in Tasks \ {t} : n.vruntime[u] = p.vruntime[u]
    BY <2>1, CfsAddedFacts
  <2>3. \A u : Credit(n, u) = Credit(p, u)
    BY <2>2 DEF Credit
  <2>4. <<n, t>> \in CfsBounded
    BY <1>1, <2>2, <2>3
  <2>5. \A u \in Tasks \ {t} : <<p, u>> \in CfsBounded => <<n, u>> \in CfsBounded
    BY <1>1, <2>2, <2>3
  <2>6. QED
    BY <2>1, <2>4, <2>5
<1>3. ASSUME NEW p \in CfsObjects, NEW t \in Tasks \ p.ready, NEW d \in Nat, NEW u \in p.ready,
             <<p, u>> \in CfsBounded
      PROVE  <<CfsCpuUsed(p, t, d), u>> \in CfsBounded
  <2>1. u \in Tasks
    BY DEF CfsObjects
  <2>2. QED
    BY <1>1, <1>3, <2>1, CfsCpuUsedFacts
<1>4. ASSUME NEW p \in CfsObjects, NEW t \in p.ready, NEW u \in p.ready, <<p, u>> \in CfsBounded
      PROVE  <<CfsRemoved(p, t), u>> \in CfsBounded
  <2>1. u \in Tasks
    BY DEF CfsObjects
  <2>2. PICK n : n = CfsRemoved(p, t)
    OBVIOUS
  <2>3. n \in CfsObjects /\ n.vruntime = p.vruntime /\ n.minVruntime = p.minVruntime
        /\ n.weight = p.weight
    BY <2>2, CfsRemovedFacts
  <2>4. Credit(n, u) = Credit(p, u)
    BY <2>3 DEF Credit
  <2>5. <<n, u>> \in CfsBounded
    BY <1>1, <1>4, <2>1, <2>3, <2>4
  <2>6. QED
    BY <2>2, <2>5
<1>5. QED
  BY <1>2, <1>3, <1>4 DEF Protects, DrivesCfs, CfsReady

\* With CFSScheduler the ready queue of the policy is the simulator's, on any
\* number of cores, and schedule() always has an answer among it.
THEOREM CfsKeepsContract ==
  ASSUME DrivesCfs
  PROVE  PolicySpec => []SchedulerContract
<1>1. PolicyInit => InContract(CfsObjects)
  BY CfsContract, PolicyInitFacts
<1>2. IInv /\ InContract(CfsObjects) /\ [PolicyNext]_policyVars => InContract(CfsObjects)'
  BY CfsContract, PolicyStepFacts
<1>3. InContract(CfsObjects) => SchedulerContract
  BY CfsContract DEF InContract, Contract, SchedulerContract
<1>4. QED
  BY <1>1, <1>2, <1>3, PolicyInvariance, PTL DEF PolicySpec

\* "clamp vruntime to prevent credit hoarding": on one core no task ready or
\* running is owed more than a latency period, whatever the weights, the
\* parameters and the workload.
THEOREM CreditStaysBounded ==
  ASSUME DrivesCfs
  PROVE  PolicySpec => []CreditBounded
<1> DEFINE Inv == InContract(CfsObjects) /\ (NumCores = 1 => Protected(CfsBounded))
<1>1. PolicyInit => Inv
  BY CfsContract, PolicyInitFacts
<1>2. IInv /\ Inv /\ [PolicyNext]_policyVars => Inv'
  BY CfsContract, CfsProtects, PolicyStepFacts DEF OneCoreProtects
<1>3. Inv => CreditBounded
  BY DEF Protected, CfsBounded, CreditBounded, Present, Credit
<1>4. QED
  BY <1>1, <1>2, <1>3, PolicyInvariance, PTL DEF PolicySpec

-----------------------------------------------------------------------------
(* Stride *)

\* PolicySimulator drives a StrideScheduler; tasks are their ids.
DrivesStride ==
  /\ Tasks \subseteq Nat /\ QuantumLength \in Slices
  /\ PolicyInits = StrideInits
  /\ \A p : Ready(p) = StrideReady(p) /\ Decided(p) = StrideDecided(p)
  /\ \A p, t, x : /\ Added(p, t, x) = StrideAdded(p, t, x)
                  /\ CpuUsed(p, t, x) = StrideCpuUsed(p, t, x)
  /\ \A p, t : Removed(p, t) = StrideRemoved(p, t)

\* The states of a StrideScheduler and of the fields it keeps in the tasks.
StrideObjects ==
  [ready : SUBSET Tasks, stride : [Tasks -> Nat], pass : [Tasks -> Nat],
   globalPass : Nat, weight : [Tasks -> Nat \ {0}]]

\* The tasks that are not behind.
Level == {x \in StrideObjects \X Tasks : x[1].pass[x[2]] >= x[1].globalPass}

\* add_task.
LEMMA StrideAddedFacts ==
  ASSUME NEW p \in StrideObjects, NEW t \in Tasks, NEW new \in BOOLEAN
  PROVE  LET n == StrideAdded(p, t, new)
         IN  /\ n \in StrideObjects /\ n.ready = p.ready \cup {t}
             /\ n.globalPass = p.globalPass /\ n.pass[t] >= p.globalPass
             /\ \A u \in Tasks \ {t} : n.pass[u] = p.pass[u]
<1> DEFINE s == Max({1, StrideConstant \div p.weight[t]})
           m == IF new THEN p.globalPass ELSE Max({p.pass[t], p.globalPass})
           n == StrideAdded(p, t, new)
<1>1. /\ p.weight[t] \in Nat \ {0} /\ p.pass[t] \in Nat /\ p.globalPass \in Nat
      /\ p.pass \in [Tasks -> Nat] /\ p.stride \in [Tasks -> Nat]
      /\ p.ready \in SUBSET Tasks /\ p.weight \in [Tasks -> Nat \ {0}]
  BY DEF StrideObjects
<1>2. StrideConstant \div p.weight[t] \in Int
  BY <1>1, StrideAssumption, WeightsAssumption
<1>3. s \in Nat
  <2>1. s \in {1, StrideConstant \div p.weight[t]} /\ 1 <= s
    <3>1. PICK x : x = StrideConstant \div p.weight[t]
      OBVIOUS
    <3>2. x \in Int /\ s = Max({1, x})
      BY <1>2, <3>1
    <3>3. s \in {1, x} /\ 1 <= s
      BY <3>2, 1 \in Int, MaxOfTwo, Zenon
    <3>4. QED
      BY <3>1, <3>3
  <2>2. QED
    BY <1>2, <2>1
<1>4. m \in Nat /\ m >= p.globalPass
  <2> DEFINE a == p.pass[t]
             g == p.globalPass
  <2>1. a \in Nat /\ g \in Nat
    BY <1>1
  <2>2. PICK x : x = Max({a, g})
    OBVIOUS
  <2>3. m = IF new THEN g ELSE x
    BY <2>2
  <2> HIDE DEF a, g, m
  <2>4. x \in {a, g} /\ g <= x
    <3>1. a \in Int /\ g \in Int
      BY <2>1
    <3>2. QED
      BY <2>2, <3>1, MaxOfTwo, Zenon
  <2>5. m \in Nat /\ m >= g
    BY <2>1, <2>3, <2>4
  <2>6. QED
    BY <2>5 DEF g
<1>5. p = [ready |-> p.ready, stride |-> p.stride, pass |-> p.pass,
           globalPass |-> p.globalPass, weight |-> p.weight]
  BY DEF StrideObjects
<1>6. n = [p EXCEPT !.ready = @ \cup {t}, !.stride[t] = s, !.pass[t] = m]
  BY DEF StrideAdded
<1> HIDE DEF s, m, n
<1>7. n = [ready |-> p.ready \cup {t}, stride |-> [p.stride EXCEPT ![t] = s],
           pass |-> [p.pass EXCEPT ![t] = m], globalPass |-> p.globalPass,
           weight |-> p.weight]
  BY <1>5, <1>6
<1>8. n \in StrideObjects
  BY <1>1, <1>3, <1>4, <1>7 DEF StrideObjects
<1>9. n.pass = [p.pass EXCEPT ![t] = m] /\ n.ready = p.ready \cup {t}
      /\ n.globalPass = p.globalPass
  BY <1>7
<1>10. n.pass[t] = m /\ \A u \in Tasks \ {t} : n.pass[u] = p.pass[u]
  BY <1>1, <1>9
<1>11. QED
  BY <1>4, <1>8, <1>9, <1>10 DEF n

\* on_cpu_used.
LEMMA StrideCpuUsedFacts ==
  ASSUME NEW p \in StrideObjects, NEW t \in Tasks, t \notin p.ready, NEW d \in Nat
  PROVE  LET n == StrideCpuUsed(p, t, d)
         IN  /\ n \in StrideObjects /\ n.ready = p.ready
             /\ \A u \in p.ready :
                  p.pass[u] >= p.globalPass => n.pass[u] >= n.globalPass
<1> DEFINE n == StrideCpuUsed(p, t, d)
           f == p.pass
           S == p.ready
           g == p.globalPass
           a == Advance(p, t, d)
<1>1. /\ p.stride[t] \in Nat /\ f \in [Tasks -> Nat] /\ S \in SUBSET Tasks
      /\ g \in Nat /\ p.stride \in [Tasks -> Nat]
      /\ p.weight \in [Tasks -> Nat \ {0}]
  BY DEF StrideObjects
<1>2. p = [ready |-> S, stride |-> p.stride, pass |-> f, globalPass |-> g,
           weight |-> p.weight]
  BY DEF StrideObjects
<1>3. a \in Nat
  <2>1. PICK k : k = p.stride[t] * d
    OBVIOUS
  <2>2. k \in Nat
    BY <1>1, <2>1
  <2>3. PICK x : x = k \div QuantumLength
    OBVIOUS
  <2>4. x \in Int
    BY <2>2, <2>3, StrideAssumption, WeightsAssumption
  <2>5. a = Max({1, x})
    BY <2>1, <2>3 DEF Advance
  <2> HIDE DEF a
  <2>6. a \in {1, x} /\ 1 <= a
    BY <2>4, <2>5, 1 \in Int, MaxOfTwo, Zenon
  <2>7. QED
    BY <2>4, <2>6
<1>4. PICK h : h = Updated(S, f, g)
  OBVIOUS
<1>5. PICK k : k = [f EXCEPT ![t] = @ + a]
  OBVIOUS
<1>6. n = [p EXCEPT !.pass = k, !.globalPass = h]
  BY <1>4, <1>5 DEF StrideCpuUsed, Updated
<1>7. n = [ready |-> S, stride |-> p.stride, pass |-> k, globalPass |-> h,
           weight |-> p.weight]
  BY <1>2, <1>6
<1> HIDE DEF n, f, S, g, a
<1>8. h \in Nat /\ \A u \in S : h = g \/ h <= f[u]
  BY <1>1, <1>4, UpdatedFacts
<1>9. k \in [Tasks -> Nat] /\ \A u \in Tasks \ {t} : k[u] = f[u]
  BY <1>1, <1>3, <1>5
<1>10. n \in StrideObjects
  BY <1>1, <1>7, <1>8, <1>9 DEF StrideObjects
<1>11. n.ready = S /\ n.globalPass = h /\ n.pass = k
  BY <1>7
<1>12. S \subseteq Tasks \ {t}
  BY <1>1 DEF S
<1>13. \A u \in S : f[u] >= g => n.pass[u] >= n.globalPass
  BY <1>1, <1>8, <1>9, <1>11, <1>12
<1>14. QED
  BY <1>10, <1>11, <1>13 DEF n, f, S, g

\* remove_task.
LEMMA StrideRemovedFacts ==
  ASSUME NEW p \in StrideObjects, NEW t
  PROVE  LET n == StrideRemoved(p, t)
         IN  /\ n \in StrideObjects /\ n.ready = p.ready \ {t}
             /\ n.pass = p.pass /\ n.globalPass = p.globalPass
<1>1. p = [ready |-> p.ready, stride |-> p.stride, pass |-> p.pass,
           globalPass |-> p.globalPass, weight |-> p.weight]
  BY DEF StrideObjects
<1>2. PICK n : n = StrideRemoved(p, t)
  OBVIOUS
<1>3. n = [ready |-> p.ready \ {t}, stride |-> p.stride, pass |-> p.pass,
           globalPass |-> p.globalPass, weight |-> p.weight]
  BY <1>1, <1>2 DEF StrideRemoved
<1>4. n \in StrideObjects
  BY <1>3 DEF StrideObjects
<1>5. QED
  BY <1>2, <1>3, <1>4

\* Some ready task comes before all others.
LEMMA StrideSomeFirst ==
  ASSUME NEW p \in StrideObjects, p.ready # {}, Tasks \subseteq Nat
  PROVE  \E t \in p.ready : \A u \in p.ready \ {t} : StrideBefore(p, t, u)
<1> DEFINE S == p.ready
           A == {p.pass[t] : t \in S}
<1>1. S \in SUBSET Tasks /\ \A t \in S : p.pass[t] \in Nat /\ p.stride[t] \in Nat
  BY DEF StrideObjects
<1>2. A \in SUBSET Nat /\ A # {}
  BY <1>1
<1>3. \A t \in S : p.pass[t] \in A
  OBVIOUS
<1>4. \A x \in A : \E t \in S : p.pass[t] = x
  OBVIOUS
<1> HIDE DEF A
<1>5. PICK a \in A : \A y \in A : a <= y
  BY <1>2, LeastNatural
<1> DEFINE B == {p.stride[t] : t \in {t \in S : p.pass[t] = a}}
<1>6. B \in SUBSET Nat /\ B # {}
  BY <1>1, <1>4
<1>7. \A t \in S : p.pass[t] = a => p.stride[t] \in B
  OBVIOUS
<1>8. \A x \in B : \E t \in S : p.pass[t] = a /\ p.stride[t] = x
  OBVIOUS
<1> HIDE DEF B
<1>9. PICK b \in B : \A y \in B : b <= y
  BY <1>6, LeastNatural
<1> DEFINE C == {t \in S : p.pass[t] = a /\ p.stride[t] = b}
<1>10. C \in SUBSET Nat /\ C # {}
  BY <1>1, <1>8
<1>11. \A t \in S : p.pass[t] = a /\ p.stride[t] = b <=> t \in C
  OBVIOUS
<1>12. C \subseteq S
  OBVIOUS
<1> HIDE DEF C, S
<1>13. PICK t \in C : \A y \in C : t <= y
  BY <1>10, LeastNatural
<1>14. t \in S /\ p.pass[t] = a /\ p.stride[t] = b
  BY <1>11, <1>12
<1>15. ASSUME NEW u \in S, u # t
       PROVE  StrideBefore(p, t, u)
  <2>1. p.pass[u] \in Nat /\ p.stride[u] \in Nat /\ a \in Nat /\ b \in Nat
        /\ u \in Nat /\ t \in Nat
    BY <1>1, <1>2, <1>6, <1>10
  <2>2. a <= p.pass[u]
    BY <1>3, <1>5
  <2>3. p.pass[u] = a => b <= p.stride[u]
    BY <1>7, <1>9
  <2>4. p.pass[u] = a /\ p.stride[u] = b => t <= u
    BY <1>11, <1>13
  <2>5. \/ a < p.pass[u]
        \/ p.pass[u] = a /\ b < p.stride[u]
        \/ p.pass[u] = a /\ p.stride[u] = b /\ t < u
    BY <1>15, <2>1, <2>2, <2>3, <2>4
  <2>6. QED
    BY <1>14, <2>5 DEF StrideBefore
<1>16. QED
  BY <1>14, <1>15 DEF S

\* A StrideScheduler keeps the contract, call by call.
LEMMA StrideContract ==
  ASSUME DrivesStride
  PROVE  Contract(StrideObjects)
<1>1. StrideInits \subseteq StrideObjects /\ \A p \in StrideInits : p.ready = {}
  <2> SUFFICES ASSUME NEW p \in StrideInits
               PROVE  p \in StrideObjects /\ p.ready = {}
    OBVIOUS
  <2>1. PICK zero : zero = [t \in Tasks |-> 0]
    OBVIOUS
  <2>2. PICK w \in [Tasks -> Weights] :
          p = [ready |-> {}, stride |-> zero, pass |-> zero, globalPass |-> 0, weight |-> w]
    BY <2>1 DEF StrideInits
  <2>3. zero \in [Tasks -> Nat] /\ w \in [Tasks -> Nat \ {0}]
    BY <2>1, StrideAssumption, WeightsAssumption
  <2>4. QED
    BY <2>2, <2>3 DEF StrideObjects
<1>2. ASSUME NEW p \in StrideObjects
      PROVE  StrideDecided(p) \in Decisions(p.ready)
  <2>1. CASE p.ready = {}
    BY <2>1 DEF StrideDecided, Decisions
  <2>2. CASE p.ready # {}
    <3> DEFINE t == CHOOSE t \in p.ready : \A u \in p.ready \ {t} : StrideBefore(p, t, u)
    <3>1. Tasks \subseteq Nat /\ QuantumLength \in Slices
      BY DEF DrivesStride
    <3>2. \E x \in p.ready : \A u \in p.ready \ {x} : StrideBefore(p, x, u)
      BY <2>2, <3>1, StrideSomeFirst
    <3>3. t \in p.ready
      BY <3>2, Zenon
    <3>4. StrideDecided(p) = [task |-> t, slice |-> QuantumLength]
      BY <2>2 DEF StrideDecided
    <3> HIDE DEF t
    <3>5. [task |-> t, slice |-> QuantumLength] \in [task : p.ready, slice : Slices]
      BY <3>1, <3>3
    <3>6. Decisions(p.ready) = [task : p.ready, slice : Slices]
      BY <2>2 DEF Decisions
    <3>7. QED
      BY <3>4, <3>5, <3>6
  <2>3. QED
    BY <2>1, <2>2
<1>3. \A p \in StrideObjects : p.ready \subseteq Tasks
  BY DEF StrideObjects
<1>4. \A p \in StrideObjects : \A t \in Tasks \ p.ready : \A new \in BOOLEAN :
        StrideAdded(p, t, new) \in StrideObjects
          /\ StrideAdded(p, t, new).ready = p.ready \cup {t}
  BY StrideAddedFacts
<1>5. \A p \in StrideObjects : \A t \in Tasks \ p.ready : \A d \in Nat :
        StrideCpuUsed(p, t, d) \in StrideObjects /\ StrideCpuUsed(p, t, d).ready = p.ready
  BY StrideCpuUsedFacts
<1>6. \A p \in StrideObjects : \A t \in p.ready :
        StrideRemoved(p, t) \in StrideObjects /\ StrideRemoved(p, t).ready = p.ready \ {t}
  BY StrideRemovedFacts
<1>7. QED
  BY <1>1, <1>2, <1>3, <1>4, <1>5, <1>6 DEF Contract, DrivesStride, StrideReady

\* It keeps every ready task from falling behind.
LEMMA StrideProtects ==
  ASSUME DrivesStride
  PROVE  Protects(StrideObjects, Level)
<1>1. ASSUME NEW p \in StrideObjects, NEW t \in Tasks
      PROVE  <<p, t>> \in Level <=> p.pass[t] >= p.globalPass
  BY DEF Level
<1>2. ASSUME NEW p \in StrideObjects, NEW t \in Tasks \ p.ready, NEW new \in BOOLEAN
      PROVE  /\ <<StrideAdded(p, t, new), t>> \in Level
             /\ \A u \in Tasks \ {t} :
                  <<p, u>> \in Level => <<StrideAdded(p, t, new), u>> \in Level
  BY <1>1, StrideAddedFacts
<1>3. ASSUME NEW p \in StrideObjects, NEW t \in Tasks \ p.ready, NEW d \in Nat, NEW u \in p.ready,
             <<p, u>> \in Level
      PROVE  <<StrideCpuUsed(p, t, d), u>> \in Level
  <2>1. u \in Tasks
    BY DEF StrideObjects
  <2>2. QED
    BY <1>1, <1>3, <2>1, StrideCpuUsedFacts
<1>4. ASSUME NEW p \in StrideObjects, NEW t \in p.ready, NEW u \in p.ready, <<p, u>> \in Level
      PROVE  <<StrideRemoved(p, t), u>> \in Level
  <2>1. u \in Tasks
    BY DEF StrideObjects
  <2>2. QED
    BY <1>1, <1>4, <2>1, StrideRemovedFacts
<1>5. QED
  BY <1>2, <1>3, <1>4 DEF Protects, DrivesStride, StrideReady

\* With StrideScheduler the ready queue of the policy is the simulator's, on any
\* number of cores, and schedule() always has an answer among it.
THEOREM StrideKeepsContract ==
  ASSUME DrivesStride
  PROVE  PolicySpec => []SchedulerContract
<1>1. PolicyInit => InContract(StrideObjects)
  BY StrideContract, PolicyInitFacts
<1>2. IInv /\ InContract(StrideObjects) /\ [PolicyNext]_policyVars => InContract(StrideObjects)'
  BY StrideContract, PolicyStepFacts
<1>3. InContract(StrideObjects) => SchedulerContract
  BY StrideContract DEF InContract, Contract, SchedulerContract
<1>4. QED
  BY <1>1, <1>2, <1>3, PolicyInvariance, PTL DEF PolicySpec

\* "clamp pass to not fall too far behind": on one core no task ready or running
\* lags the global pass, whatever the weights, the quantum and the workload.
THEOREM NobodyFallsBehind ==
  ASSUME DrivesStride
  PROVE  PolicySpec => []NoneBehind
<1> DEFINE Inv == InContract(StrideObjects) /\ (NumCores = 1 => Protected(Level))
<1>1. PolicyInit => Inv
  BY StrideContract, PolicyInitFacts
<1>2. IInv /\ Inv /\ [PolicyNext]_policyVars => Inv'
  BY StrideContract, StrideProtects, PolicyStepFacts DEF OneCoreProtects
<1>3. Inv => NoneBehind
  BY DEF Protected, Level, NoneBehind, Present
<1>4. QED
  BY <1>1, <1>2, <1>3, PolicyInvariance, PTL DEF PolicySpec

-----------------------------------------------------------------------------
(* MLFQ *)

\* The first n elements of s, but for the one at k.
Cut(s, k, n) ==
  [j \in 1 .. (IF n < k THEN n ELSE n - 1) |-> IF j < k THEN s[j] ELSE s[j + 1]]

\* t is at k in s, and only there; nowhere, when k is the next index.
OnlyAt(s, t, k) ==
  k \in 1 .. Len(s) + 1 /\ \A i \in 1 .. Len(s) : s[i] = t <=> i = k

\* One element more.
LEMMA CutExtends ==
  ASSUME NEW X, NEW s \in Seq(X), NEW k \in 1 .. Len(s) + 1, NEW i \in 1 .. Len(s)
  PROVE  /\ Cut(s, k, i - 1) \in Seq(X) /\ Cut(s, k, i) \in Seq(X)
         /\ i = k => Cut(s, k, i) = Cut(s, k, i - 1) \o << >>
         /\ i # k => Cut(s, k, i) = Cut(s, k, i - 1) \o <<s[i]>>
<1>1. /\ Len(s) \in Nat /\ i \in Nat /\ k \in Nat /\ i - 1 \in Nat /\ i > 0 /\ k > 0
      /\ i <= Len(s) /\ \A j \in 1 .. Len(s) : s[j] \in X
  OBVIOUS
<1>2. PICK m \in Nat : m = IF i - 1 < k THEN i - 1 ELSE i - 2
  BY <1>1
<1>3. Cut(s, k, i - 1) = [j \in 1 .. m |-> IF j < k THEN s[j] ELSE s[j + 1]]
  <2>1. m = IF i - 1 < k THEN i - 1 ELSE (i - 1) - 1
    BY <1>1, <1>2
  <2>2. QED
    BY <2>1 DEF Cut
<1>4. \A j \in 1 .. m : (IF j < k THEN s[j] ELSE s[j + 1]) \in X
  BY <1>1, <1>2
<1>5. Cut(s, k, i - 1) \in Seq(X)
  BY <1>3, <1>4
<1>6. CASE i = k
  <2>1. m = IF i < k THEN i ELSE i - 1
    BY <1>1, <1>2, <1>6
  <2>2. Cut(s, k, i) = Cut(s, k, i - 1)
    BY <1>3, <2>1 DEF Cut
  <2>3. QED
    BY <1>5, <1>6, <2>2
<1>7. CASE i # k
  <2>1. m + 1 = IF i < k THEN i ELSE i - 1
    BY <1>1, <1>2, <1>7
  <2>2. Cut(s, k, i) = [j \in 1 .. m + 1 |-> IF j < k THEN s[j] ELSE s[j + 1]]
    BY <2>1 DEF Cut
  <2>3. (IF m + 1 < k THEN s[m + 1] ELSE s[m + 2]) = s[i]
    BY <1>1, <1>2, <1>7
  <2>4. s[i] \in X
    BY <1>1
  <2>5. PICK a, b : a = Cut(s, k, i - 1) /\ b = s[i]
    OBVIOUS
  <2>6. a \in Seq(X) /\ Len(a) = m /\ \A j \in 1 .. m : a[j] = IF j < k THEN s[j] ELSE s[j + 1]
    BY <1>2, <1>3, <1>5, <2>5
  <2>7. \A j \in 1 .. m + 1 : (a \o <<b>>)[j] = IF j < k THEN s[j] ELSE s[j + 1]
    <3>1. ASSUME NEW j \in 1 .. m + 1
          PROVE  (a \o <<b>>)[j] = IF j < k THEN s[j] ELSE s[j + 1]
      <4>1. CASE j = m + 1
        <5>1. (a \o <<b>>)[m + 1] = b
          BY <1>2, <2>4, <2>5, <2>6
        <5>2. m + 1 + 1 = m + 2
          BY <1>2
        <5>3. QED
          BY <2>3, <2>5, <4>1, <5>1, <5>2
      <4>2. CASE j # m + 1
        <5>1. j \in 1 .. m
          BY <1>2, <4>2
        <5>2. (a \o <<b>>)[j] = a[j]
          BY <2>4, <2>5, <2>6, <5>1
        <5>3. QED
          BY <2>6, <5>1, <5>2
      <4>3. QED
        BY <4>1, <4>2
    <3>2. QED
      BY <3>1
  <2>8. a \o <<b>> \in Seq(X) /\ Len(a \o <<b>>) = m + 1
    BY <1>2, <2>4, <2>5, <2>6
  <2>9. a \o <<b>> = [j \in 1 .. m + 1 |-> IF j < k THEN s[j] ELSE s[j + 1]]
    BY <1>2, <2>7, <2>8
  <2>10. QED
    BY <1>5, <1>7, <2>2, <2>5, <2>8, <2>9
<1>8. QED
  BY <1>6, <1>7

\* remove_task takes the task out of its place.
LEMMA WithoutCut ==
  ASSUME NEW X, NEW s \in Seq(X), NEW t, NEW k, OnlyAt(s, t, k)
  PROVE  Without(s, t) = Cut(s, k, Len(s)) /\ Without(s, t) \in Seq(X)
<1>1. /\ Len(s) \in Nat /\ k \in 1 .. Len(s) + 1 /\ DOMAIN s = 1 .. Len(s)
      /\ \A i \in 1 .. Len(s) : s[i] \in X /\ (s[i] = t <=> i = k)
  BY DEF OnlyAt
<1>2. PICK m : m = [i \in DOMAIN s |-> IF s[i] = t THEN << >> ELSE <<s[i]>>]
  OBVIOUS
<1>3. \A i \in 1 .. Len(s) : <<s[i]>> \in Seq(X) /\ << >> \in Seq(X)
  BY <1>1
<1>4. m \in Seq(Seq(X)) /\ Len(m) = Len(s)
        /\ \A i \in 1 .. Len(s) : m[i] = IF i = k THEN << >> ELSE <<s[i]>>
  BY <1>1, <1>2, <1>3
<1>5. PICK f : f = [i \in 0 .. Len(s) |-> Cut(s, k, i)]
  OBVIOUS
<1>6. ASSUME NEW i \in 1 .. Len(s)
      PROVE  f[i] = f[i - 1] \o m[i] /\ f[i] \in Seq(X)
  <2>1. i \in 0 .. Len(s) /\ i - 1 \in 0 .. Len(s)
    OBVIOUS
  <2>2. f[i] = Cut(s, k, i) /\ f[i - 1] = Cut(s, k, i - 1)
    BY <1>5, <2>1
  <2>3. /\ Cut(s, k, i) \in Seq(X)
        /\ i = k => Cut(s, k, i) = Cut(s, k, i - 1) \o << >>
        /\ i # k => Cut(s, k, i) = Cut(s, k, i - 1) \o <<s[i]>>
    BY <1>1, CutExtends
  <2>4. QED
    BY <1>4, <2>2, <2>3, Zenon
<1>7. f[0] = << >>
  <2>1. Cut(s, k, 0) = << >>
    BY <1>1 DEF Cut
  <2>2. QED
    BY <1>1, <1>5, <2>1
<1>8. f \in [0 .. Len(s) -> Seq(X)]
  <2>1. ASSUME NEW i \in 0 .. Len(s)
        PROVE  Cut(s, k, i) \in Seq(X)
    <3>1. CASE i = 0
      <4>1. f[i] = Cut(s, k, i)
        BY <1>5
      <4>2. << >> \in Seq(X)
        OBVIOUS
      <4>3. QED
        BY <1>7, <3>1, <4>1, <4>2
    <3>2. CASE i # 0
      <4>1. i \in 1 .. Len(s)
        BY <3>2
      <4>2. QED
        BY <1>1, <4>1, CutExtends
    <3>3. QED
      BY <3>1, <3>2
  <2>2. QED
    BY <1>5, <2>1
<1>9. Concatenates(m, f, X)
  BY <1>4, <1>6, <1>7, <1>8 DEF Concatenates
<1>10. FlattenSeq(m) = f[Len(m)] /\ FlattenSeq(m) \in Seq(X)
  BY <1>4, <1>9, FlattenConcatenates
<1>11. f[Len(s)] = Cut(s, k, Len(s))
  BY <1>1, <1>5
<1>12. Without(s, t) = FlattenSeq(m)
  BY <1>2 DEF Without
<1>13. QED
  BY <1>4, <1>10, <1>11, <1>12

\* In a queue without repetition: the others move up, and stay distinct.
LEMMA WithoutFacts ==
  ASSUME NEW X, NEW s \in Seq(X), NEW t, Distinct(s)
  PROVE  /\ Without(s, t) \in Seq(X) /\ Distinct(Without(s, t))
         /\ ToSet(Without(s, t)) = ToSet(s) \ {t}
         /\ t \notin ToSet(s) => Without(s, t) = s
         /\ \A k \in DOMAIN s : s[k] = t =>
              \A i \in DOMAIN s : i > k => /\ i - 1 \in DOMAIN Without(s, t)
                                           /\ Without(s, t)[i - 1] = s[i]
<1>1. PICK L \in Nat : L = Len(s)
  OBVIOUS
<1>2. DOMAIN s = 1 .. L /\ ToSet(s) = {s[i] : i \in 1 .. L}
  BY <1>1 DEF ToSet
<1>3. \E k : OnlyAt(s, t, k)
  <2>1. CASE t \in ToSet(s)
    <3>1. PICK k \in 1 .. L : s[k] = t
      BY <1>2, <2>1
    <3>2. OnlyAt(s, t, k)
      BY <1>1, <1>2, <3>1 DEF OnlyAt, Distinct
    <3>3. QED
      BY <3>2
  <2>2. CASE t \notin ToSet(s)
    <3>1. L + 1 \in 1 .. L + 1 /\ \A i \in 1 .. L : i # L + 1
      BY <1>1
    <3>2. \A i \in 1 .. L : s[i] # t
      BY <1>2, <2>2
    <3>3. OnlyAt(s, t, L + 1)
      BY <1>1, <3>1, <3>2 DEF OnlyAt
    <3>4. QED
      BY <3>3
  <2>3. QED
    BY <2>1, <2>2
<1>4. PICK k : OnlyAt(s, t, k)
  BY <1>3
<1>5. k \in 1 .. L + 1 /\ \A i \in 1 .. L : s[i] = t <=> i = k
  BY <1>1, <1>4 DEF OnlyAt
<1>6. PICK n \in Nat : n = IF L < k THEN L ELSE L - 1
  <2>1. L < k \/ L - 1 \in Nat
    BY <1>5
  <2>2. QED
    BY <2>1
<1>7. PICK w : w = Without(s, t)
  OBVIOUS
<1>8. w = [j \in 1 .. n |-> IF j < k THEN s[j] ELSE s[j + 1]] /\ w \in Seq(X)
  BY <1>1, <1>4, <1>6, <1>7, WithoutCut DEF Cut
<1>9. DOMAIN w = 1 .. n /\ \A j \in 1 .. n : w[j] = IF j < k THEN s[j] ELSE s[j + 1]
  BY <1>8
<1>10. k \in Nat /\ k >= 1 /\ k <= L + 1
  BY <1>5
<1>11. ASSUME NEW j \in 1 .. n
       PROVE  \E i \in 1 .. L : i = (IF j < k THEN j ELSE j + 1) /\ i # k /\ w[j] = s[i]
  <2>1. PICK i : i = IF j < k THEN j ELSE j + 1
    OBVIOUS
  <2>2. i \in 1 .. L /\ i # k
    BY <1>6, <1>10, <2>1
  <2>3. w[j] = s[i]
    BY <1>9, <2>1
  <2>4. QED
    BY <2>1, <2>2, <2>3
<1>12. ASSUME NEW i \in 1 .. L
       PROVE  /\ i < k => i \in 1 .. n /\ w[i] = s[i]
              /\ i > k => i - 1 \in 1 .. n /\ w[i - 1] = s[i]
  <2>1. CASE i < k
    <3>1. i \in 1 .. n
      BY <1>6, <1>10, <2>1
    <3>2. QED
      BY <1>9, <1>10, <2>1, <3>1
  <2>2. CASE i > k
    <3>1. i - 1 \in 1 .. n /\ ~(i - 1 < k) /\ (i - 1) + 1 = i
      BY <1>6, <1>10, <2>2
    <3>2. w[i - 1] = s[i]
      BY <1>9, <3>1
    <3>3. QED
      BY <1>10, <2>2, <3>1, <3>2
  <2>3. QED
    BY <2>1, <2>2
<1>13. Distinct(w)
  <2>1. ASSUME NEW i \in 1 .. n, NEW j \in 1 .. n, w[i] = w[j]
        PROVE  i = j
    <3>1. PICK a \in 1 .. L : a = (IF i < k THEN i ELSE i + 1) /\ w[i] = s[a]
      BY <1>11
    <3>2. PICK b \in 1 .. L : b = (IF j < k THEN j ELSE j + 1) /\ w[j] = s[b]
      BY <1>11
    <3>3. a = b
      BY <1>2, <2>1, <3>1, <3>2 DEF Distinct
    <3>4. QED
      BY <1>10, <3>1, <3>2, <3>3
  <2>2. QED
    BY <1>9, <2>1 DEF Distinct
<1>14. ToSet(w) = ToSet(s) \ {t}
  <2>1. ToSet(w) = {w[j] : j \in 1 .. n}
    BY <1>9 DEF ToSet
  <2>2. ASSUME NEW j \in 1 .. n
        PROVE  w[j] \in ToSet(s) \ {t}
    BY <1>2, <1>5, <1>11
  <2>3. ASSUME NEW i \in 1 .. L, s[i] # t
        PROVE  s[i] \in ToSet(w)
    <3>1. i < k \/ i > k
      BY <1>5, <1>10, <2>3
    <3>2. QED
      BY <1>12, <2>1, <3>1
  <2>4. QED
    BY <1>2, <2>1, <2>2, <2>3
<1>15. ASSUME t \notin ToSet(s)
       PROVE  w = s
  <2>1. \A i \in 1 .. L : i # k
    BY <1>2, <1>5, <1>15
  <2>2. k = L + 1
    BY <1>5, <1>10, <2>1
  <2>3. n = L /\ \A j \in 1 .. L : w[j] = s[j]
    BY <1>6, <1>9, <2>2
  <2>4. Len(w) = n
    BY <1>8
  <2>5. QED
    BY <1>1, <1>8, <2>3, <2>4
<1>16. ASSUME NEW b \in 1 .. L, s[b] = t, NEW i \in 1 .. L, i > b
       PROVE  i - 1 \in 1 .. n /\ w[i - 1] = s[i]
  BY <1>5, <1>12, <1>16
<1>17. QED
  BY <1>2, <1>7, <1>8, <1>9, <1>13, <1>14, <1>15, <1>16

\* PolicySimulator drives an MLFQScheduler, whose quanta schedule() returns.
DrivesMlfq ==
  /\ \A l \in Levels : Quantum[l] \in Slices
  /\ PolicyInits = MlfqInits
  /\ \A p : Ready(p) = MlfqReady(p) /\ Decided(p) = MlfqDecided(p)
  /\ \A p, t, x : /\ Added(p, t, x) = MlfqAdded(p, t, x)
                  /\ CpuUsed(p, t, x) = MlfqCpuUsed(p, t, x)
                  /\ Preempts(p, t, x) = MlfqPreempts(p, t, x)
  /\ \A p, t : Removed(p, t) = MlfqRemoved(p, t)

\* A queued task is in the queue of its level, once.
Placed(p) ==
  \A l \in Levels : /\ Distinct(p.queues[l])
                    /\ \A t \in ToSet(p.queues[l]) : p.level[t] = l

\* The states of an MLFQScheduler and of the fields it keeps in the tasks.
MlfqObjects ==
  {p \in [queues : [Levels -> Seq(Tasks)], level : [Tasks -> Levels],
          allotment : [Tasks -> Nat], sinceBoost : Nat] :
     Placed(p) /\ p.sinceBoost < BoostInterval}

\* Task t has an allotment that its level can have.
Allotted(p, t) == p.allotment[t] \in 1 .. AllotmentFor(p.level[t])

\* Nobody in the top queue loses its place.
KeepsTop(p, n) ==
  \A i \in DOMAIN p.queues[0] : i \in DOMAIN n.queues[0] /\ n.queues[0][i] = p.queues[0][i]

\* The fields of an object.
LEMMA MlfqFields ==
  ASSUME NEW p \in MlfqObjects
  PROVE  /\ p = [queues |-> p.queues, level |-> p.level, allotment |-> p.allotment,
                 sinceBoost |-> p.sinceBoost]
         /\ p.queues \in [Levels -> Seq(Tasks)] /\ p.level \in [Tasks -> Levels]
         /\ p.allotment \in [Tasks -> Nat] /\ p.sinceBoost \in Nat
         /\ Placed(p) /\ p.sinceBoost < BoostInterval
         /\ 0 \in Levels /\ MlfqReady(p) \subseteq Tasks
<1>1. /\ p.queues \in [Levels -> Seq(Tasks)] /\ p.level \in [Tasks -> Levels]
      /\ p.allotment \in [Tasks -> Nat] /\ p.sinceBoost \in Nat
      /\ Placed(p) /\ p.sinceBoost < BoostInterval
      /\ p = [queues |-> p.queues, level |-> p.level, allotment |-> p.allotment,
              sinceBoost |-> p.sinceBoost]
  BY DEF MlfqObjects
<1>2. 0 \in Levels
  BY MLFQAssumption DEF Levels
<1>3. ASSUME NEW l \in Levels
      PROVE  ToSet(p.queues[l]) \subseteq Tasks
  <2>1. PICK s \in Seq(Tasks) : s = p.queues[l]
    BY <1>1
  <2>2. \A i \in DOMAIN s : s[i] \in Tasks
    OBVIOUS
  <2>3. QED
    BY <2>1, <2>2 DEF ToSet
<1>4. MlfqReady(p) \subseteq Tasks
  BY <1>3 DEF MlfqReady
<1>5. QED
  BY <1>1, <1>2, <1>4

\* An object, from its fields.
MlfqParts(n, q, v, a, b) ==
  /\ n = [queues |-> q, level |-> v, allotment |-> a, sinceBoost |-> b]
  /\ q \in [Levels -> Seq(Tasks)] /\ v \in [Tasks -> Levels] /\ a \in [Tasks -> Nat]
  /\ b \in Nat /\ b < BoostInterval

\* It is one, when every task is in its place.
LEMMA MlfqObject ==
  ASSUME NEW n, NEW q, NEW v, NEW a, NEW b, MlfqParts(n, q, v, a, b), Placed(n)
  PROVE  /\ n \in MlfqObjects
         /\ n.queues = q /\ n.level = v /\ n.allotment = a /\ n.sinceBoost = b
BY DEF MlfqObjects, MlfqParts

\* The length of an allotment.
LEMMA AllotmentPositive ==
  ASSUME NEW l \in Levels
  PROVE  AllotmentFor(l) \in Nat \ {0}
BY MLFQAssumption DEF AllotmentFor

\* add_task.
LEMMA MlfqAddedFacts ==
  ASSUME NEW p \in MlfqObjects, NEW t \in Tasks, t \notin MlfqReady(p), NEW new \in BOOLEAN
  PROVE  LET n == MlfqAdded(p, t, new)
         IN  /\ n \in MlfqObjects /\ MlfqReady(n) = MlfqReady(p) \cup {t}
             /\ n.sinceBoost = p.sinceBoost /\ KeepsTop(p, n)
             /\ n.level[t] = IF new THEN 0 ELSE p.level[t]
             /\ \A u \in Tasks \ {t} : n.level[u] = p.level[u]
             /\ new => Allotted(n, t)
             /\ \A u \in Tasks : Allotted(p, u) => Allotted(n, u)
<1>1. /\ p = [queues |-> p.queues, level |-> p.level, allotment |-> p.allotment,
              sinceBoost |-> p.sinceBoost]
      /\ p.queues \in [Levels -> Seq(Tasks)] /\ p.level \in [Tasks -> Levels]
      /\ p.allotment \in [Tasks -> Nat] /\ p.sinceBoost \in Nat
      /\ Placed(p) /\ p.sinceBoost < BoostInterval
      /\ 0 \in Levels
  BY MlfqFields
<1>2. PICK n : n = MlfqAdded(p, t, new)
  OBVIOUS
<1>3. PICK l \in Levels : l = IF new THEN 0 ELSE p.level[t]
  BY <1>1
<1>4. PICK m \in Nat : m = IF new THEN AllotmentFor(0) ELSE p.allotment[t]
  BY <1>1, AllotmentPositive
<1>5. PICK q : q = [p.queues EXCEPT ![l] = Append(@, t)]
  OBVIOUS
<1>6. PICK v : v = [p.level EXCEPT ![t] = l]
  OBVIOUS
<1>7. PICK a : a = [p.allotment EXCEPT ![t] = m]
  OBVIOUS
<1>8. n = [queues |-> q, level |-> v, allotment |-> a, sinceBoost |-> p.sinceBoost]
  <2>1. n = [p EXCEPT !.level[t] = l, !.allotment[t] = IF new THEN AllotmentFor(0) ELSE @,
                      !.queues[l] = Append(@, t)]
    BY <1>2, <1>3 DEF MlfqAdded
  <2>2. n = [queues |-> [p.queues EXCEPT ![l] = Append(@, t)],
             level |-> [p.level EXCEPT ![t] = l],
             allotment |-> [p.allotment EXCEPT ![t] = IF new THEN AllotmentFor(0) ELSE @],
             sinceBoost |-> p.sinceBoost]
    BY <1>1, <2>1
  <2>3. [p.allotment EXCEPT ![t] = IF new THEN AllotmentFor(0) ELSE @] = a
    BY <1>4, <1>7
  <2>4. QED
    BY <1>5, <1>6, <2>2, <2>3
<1>9. PICK s \in Seq(Tasks) : s = p.queues[l]
  BY <1>1
<1>10. /\ q \in [Levels -> Seq(Tasks)] /\ v \in [Tasks -> Levels] /\ a \in [Tasks -> Nat]
       /\ q[l] = Append(s, t) /\ \A k \in Levels \ {l} : q[k] = p.queues[k]
       /\ v[t] = l /\ \A u \in Tasks \ {t} : v[u] = p.level[u]
       /\ a[t] = m /\ \A u \in Tasks \ {t} : a[u] = p.allotment[u]
  <2>1. Append(s, t) \in Seq(Tasks)
    OBVIOUS
  <2>2. q = [p.queues EXCEPT ![l] = Append(s, t)]
    BY <1>5, <1>9
  <2>3. /\ q \in [Levels -> Seq(Tasks)] /\ q[l] = Append(s, t)
        /\ \A k \in Levels \ {l} : q[k] = p.queues[k]
    BY <1>1, <2>1, <2>2
  <2>4. v \in [Tasks -> Levels] /\ v[t] = l /\ \A u \in Tasks \ {t} : v[u] = p.level[u]
    BY <1>1, <1>6
  <2>5. a \in [Tasks -> Nat] /\ a[t] = m /\ \A u \in Tasks \ {t} : a[u] = p.allotment[u]
    BY <1>1, <1>7
  <2>6. QED
    BY <2>3, <2>4, <2>5
<1>11. \A k \in Levels : \A u \in ToSet(p.queues[k]) : u # t /\ u \in MlfqReady(p) /\ u \in Tasks
  <2>1. MlfqReady(p) \subseteq Tasks
    BY MlfqFields
  <2>2. QED
    BY <2>1 DEF MlfqReady
<1>12. ToSet(Append(s, t)) = ToSet(s) \cup {t} /\ Distinct(Append(s, t))
  <2>1. t \notin ToSet(s) /\ Distinct(s)
    BY <1>1, <1>9, <1>11 DEF Placed
  <2>2. QED
    BY <2>1, AppendFacts
<1>13. n.queues = q /\ n.level = v /\ n.allotment = a /\ n.sinceBoost = p.sinceBoost
  BY <1>8
<1>14. Placed(n)
  <2>1. ASSUME NEW k \in Levels
        PROVE  Distinct(q[k]) /\ \A u \in ToSet(q[k]) : v[u] = k
    <3>1. CASE k = l
      <4>1. \A u \in ToSet(s) : v[u] = l
        BY <1>1, <1>9, <1>10, <1>11 DEF Placed
      <4>2. QED
        BY <1>10, <1>12, <3>1, <4>1
    <3>2. CASE k # l
      BY <1>1, <1>10, <1>11, <3>2 DEF Placed
    <3>3. QED
      BY <3>1, <3>2
  <2>2. QED
    BY <1>13, <2>1 DEF Placed
<1>15. n \in MlfqObjects
  <2>1. MlfqParts(n, q, v, a, p.sinceBoost)
    BY <1>1, <1>8, <1>10 DEF MlfqParts
  <2>2. QED
    BY <1>14, <2>1, MlfqObject
<1>16. MlfqReady(n) = MlfqReady(p) \cup {t}
  <2>1. \A k \in Levels \ {l} : ToSet(q[k]) = ToSet(p.queues[k])
    BY <1>10
  <2>2. ToSet(q[l]) = ToSet(p.queues[l]) \cup {t}
    BY <1>9, <1>10, <1>12
  <2>3. QED
    BY <1>13, <2>1, <2>2 DEF MlfqReady
<1>17. KeepsTop(p, n)
  <2>1. CASE l = 0
    <3>1. \A i \in DOMAIN s : i \in DOMAIN Append(s, t) /\ Append(s, t)[i] = s[i]
      OBVIOUS
    <3>2. QED
      BY <1>9, <1>10, <1>13, <2>1, <3>1 DEF KeepsTop
  <2>2. CASE l # 0
    BY <1>1, <1>10, <1>13, <2>2 DEF KeepsTop
  <2>3. QED
    BY <2>1, <2>2
<1>18. new => Allotted(n, t)
  <2>1. ASSUME new
        PROVE  m \in 1 .. AllotmentFor(l)
    <3>1. l = 0 /\ m = AllotmentFor(0) /\ AllotmentFor(0) \in Nat \ {0}
      BY <1>1, <1>3, <1>4, <2>1, AllotmentPositive
    <3>2. QED
      BY <3>1
  <2>2. QED
    BY <1>10, <1>13, <2>1 DEF Allotted
<1>19. ASSUME NEW u \in Tasks, Allotted(p, u)
       PROVE  Allotted(n, u)
  <2>1. CASE new /\ u = t
    BY <1>18, <2>1
  <2>2. CASE ~(new /\ u = t)
    <3>1. n.level[u] = p.level[u] /\ n.allotment[u] = p.allotment[u]
      BY <1>3, <1>4, <1>10, <1>13, <2>2
    <3>2. QED
      BY <1>19, <3>1 DEF Allotted
  <2>3. QED
    BY <2>1, <2>2
<1>20. n.level[t] = (IF new THEN 0 ELSE p.level[t]) /\ \A u \in Tasks \ {t} : n.level[u] = p.level[u]
  BY <1>3, <1>10, <1>13
<1>21. QED
  BY <1>2, <1>13, <1>15, <1>16, <1>17, <1>18, <1>19, <1>20

\* Rule 4.
LEMMA DemotedFacts ==
  ASSUME NEW p \in MlfqObjects, NEW t \in Tasks, t \notin MlfqReady(p), NEW d \in Nat
  PROVE  LET n == Demoted(p, t, d)
         IN  /\ n \in MlfqObjects /\ n.queues = p.queues /\ n.sinceBoost = p.sinceBoost
             /\ \A u \in Tasks : Allotted(p, u) => Allotted(n, u)
<1>1. /\ p = [queues |-> p.queues, level |-> p.level, allotment |-> p.allotment,
              sinceBoost |-> p.sinceBoost]
      /\ p.queues \in [Levels -> Seq(Tasks)] /\ p.level \in [Tasks -> Levels]
      /\ p.allotment \in [Tasks -> Nat] /\ p.sinceBoost \in Nat
      /\ Placed(p) /\ p.sinceBoost < BoostInterval
  BY MlfqFields
<1>2. PICK n : n = Demoted(p, t, d)
  OBVIOUS
<1>3. PICK left \in Int : left = p.allotment[t] - d
  BY <1>1
<1>4. PICK l \in Levels : l = IF p.level[t] < NumLevels - 1 THEN p.level[t] + 1 ELSE p.level[t]
  <2>1. PICK k \in Levels : k = p.level[t]
    BY <1>1
  <2>2. k < NumLevels - 1 => k + 1 \in Levels
    BY MLFQAssumption DEF Levels
  <2>3. QED
    BY <2>1, <2>2
<1>5. PICK k \in Levels : k = IF left > 0 THEN p.level[t] ELSE l
  BY <1>1
<1>6. PICK m \in Nat : m = IF left > 0 THEN left ELSE AllotmentFor(l)
  BY AllotmentPositive
<1>7. PICK v : v = [p.level EXCEPT ![t] = k]
  OBVIOUS
<1>8. PICK a : a = [p.allotment EXCEPT ![t] = m]
  OBVIOUS
<1>9. /\ v \in [Tasks -> Levels] /\ a \in [Tasks -> Nat]
      /\ v[t] = k /\ \A u \in Tasks \ {t} : v[u] = p.level[u]
      /\ a[t] = m /\ \A u \in Tasks \ {t} : a[u] = p.allotment[u]
  BY <1>1, <1>7, <1>8
<1>10. n = [queues |-> p.queues, level |-> v, allotment |-> a, sinceBoost |-> p.sinceBoost]
  <2>1. CASE left > 0
    <3>1. n = [p EXCEPT !.allotment[t] = left]
      BY <1>2, <1>3, <2>1 DEF Demoted
    <3>2. v = p.level
      <4>1. v = [p.level EXCEPT ![t] = p.level[t]]
        BY <1>5, <1>7, <2>1
      <4>2. QED
        BY <1>1, <4>1
    <3>3. a = [p.allotment EXCEPT ![t] = left]
      BY <1>6, <1>8, <2>1
    <3>4. n = [queues |-> p.queues, level |-> p.level,
               allotment |-> [p.allotment EXCEPT ![t] = left], sinceBoost |-> p.sinceBoost]
      BY <1>1, <3>1
    <3>5. QED
      BY <3>2, <3>3, <3>4
  <2>2. CASE ~(left > 0)
    <3>1. n = [p EXCEPT !.level[t] = l, !.allotment[t] = AllotmentFor(l)]
      BY <1>2, <1>3, <1>4, <2>2 DEF Demoted
    <3>2. v = [p.level EXCEPT ![t] = l] /\ a = [p.allotment EXCEPT ![t] = AllotmentFor(l)]
      BY <1>5, <1>6, <1>7, <1>8, <2>2
    <3>3. n = [queues |-> p.queues, level |-> [p.level EXCEPT ![t] = l],
               allotment |-> [p.allotment EXCEPT ![t] = AllotmentFor(l)],
               sinceBoost |-> p.sinceBoost]
      BY <1>1, <3>1
    <3>4. QED
      BY <3>2, <3>3
  <2>3. QED
    BY <2>1, <2>2
<1>11. n.queues = p.queues /\ n.level = v /\ n.allotment = a /\ n.sinceBoost = p.sinceBoost
  BY <1>10
<1>12. Placed(n)
  <2>1. \A j \in Levels : \A u \in ToSet(p.queues[j]) : u \in Tasks \ {t}
    BY MlfqFields DEF MlfqReady
  <2>2. QED
    BY <1>1, <1>9, <1>11, <2>1 DEF Placed
<1>13. n \in MlfqObjects
  <2>1. MlfqParts(n, p.queues, v, a, p.sinceBoost)
    BY <1>1, <1>9, <1>10 DEF MlfqParts
  <2>2. QED
    BY <1>12, <2>1, MlfqObject
<1>14. ASSUME NEW u \in Tasks, Allotted(p, u)
       PROVE  Allotted(n, u)
  <2>1. CASE u # t
    BY <1>9, <1>11, <1>14, <2>1 DEF Allotted
  <2>2. CASE u = t
    <3>1. PICK x \in Nat : x = p.allotment[t]
      BY <1>1
    <3>2. PICK y : y = AllotmentFor(p.level[t])
      OBVIOUS
    <3>3. y \in Nat /\ x \in 1 .. y
      BY <1>1, <1>14, <2>2, <3>1, <3>2, AllotmentPositive DEF Allotted
    <3>4. m \in 1 .. AllotmentFor(k)
      <4>1. CASE left > 0
        <5>1. AllotmentFor(k) = y /\ m = left /\ left = x - d
          BY <1>3, <1>5, <1>6, <3>1, <3>2, <4>1
        <5>2. QED
          BY <3>3, <4>1, <5>1
      <4>2. CASE ~(left > 0)
        <5>1. k = l /\ m = AllotmentFor(l)
          BY <1>5, <1>6, <4>2
        <5>2. AllotmentFor(l) \in Nat \ {0}
          BY AllotmentPositive
        <5>3. QED
          BY <5>1, <5>2
      <4>3. QED
        BY <4>1, <4>2
    <3>5. QED
      BY <1>9, <1>11, <2>2, <3>4 DEF Allotted
  <2>3. QED
    BY <2>1, <2>2
<1>15. QED
  BY <1>2, <1>11, <1>13, <1>14

\* The queues below the top hold what the top does not, each task once.
LEMMA LowerFacts ==
  ASSUME NEW p \in MlfqObjects
  PROVE  /\ Lower(p) \in Seq(Tasks) /\ Distinct(Lower(p))
         /\ Disjoint(p.queues[0], Lower(p))
         /\ ToSet(p.queues[0]) \cup ToSet(Lower(p)) = MlfqReady(p)
<1>1. p.queues \in [Levels -> Seq(Tasks)] /\ Placed(p) /\ 0 \in Levels
  BY MlfqFields
<1>2. PICK m \in Nat : m = NumLevels - 1
  BY MLFQAssumption
<1>3. /\ 1 .. m \subseteq Levels /\ 0 \notin 1 .. m
      /\ \A l \in Levels : l = 0 \/ l \in 1 .. m
  BY <1>2, MLFQAssumption DEF Levels
<1>4. PICK s : s = [l \in 1 .. m |-> p.queues[l]]
  OBVIOUS
<1>5. s \in Seq(Seq(Tasks)) /\ Len(s) = m /\ \A l \in 1 .. m : s[l] = p.queues[l]
  <2>1. \A l \in 1 .. m : p.queues[l] \in Seq(Tasks)
    BY <1>1, <1>3
  <2>2. QED
    BY <1>4, <2>1
<1>6. \A k, l \in Levels : k # l => Disjoint(p.queues[k], p.queues[l])
  BY <1>1 DEF Placed, Disjoint
<1>7. AllDistinct(s)
  <2>1. ASSUME NEW i \in 1 .. m
        PROVE  Distinct(s[i])
    <3>1. i \in Levels /\ s[i] = p.queues[i]
      BY <1>3, <1>5
    <3>2. Distinct(p.queues[i])
      BY <1>1, <3>1 DEF Placed
    <3>3. QED
      BY <3>1, <3>2
  <2>2. ASSUME NEW i \in 1 .. m, NEW j \in 1 .. m, i # j
        PROVE  Disjoint(s[i], s[j])
    <3>1. i \in Levels /\ s[i] = p.queues[i] /\ j \in Levels /\ s[j] = p.queues[j]
      BY <1>3, <1>5
    <3>2. Disjoint(p.queues[i], p.queues[j])
      BY <1>6, <2>2, <3>1
    <3>3. QED
      BY <3>1, <3>2
  <2>3. QED
    BY <1>5, <2>1, <2>2 DEF AllDistinct
<1>8. Lower(p) = FlattenSeq(s)
  BY <1>2, <1>4 DEF Lower
<1>9. Distinct(FlattenSeq(s)) /\ ToSet(FlattenSeq(s)) = Elements(s, m)
  BY <1>5, <1>7, FlattenDistinct
<1>10. FlattenSeq(s) \in Seq(Tasks)
  BY <1>5, FlattenType
<1>11. Elements(s, m) = UNION {ToSet(p.queues[l]) : l \in 1 .. m}
  BY <1>5 DEF Elements
<1>12. ToSet(p.queues[0]) \cup Elements(s, m) = MlfqReady(p)
  BY <1>1, <1>3, <1>11 DEF MlfqReady
<1>13. Disjoint(p.queues[0], FlattenSeq(s))
  <2>1. \A l \in 1 .. m : ToSet(p.queues[0]) \cap ToSet(p.queues[l]) = {}
    BY <1>1, <1>3, <1>6 DEF Disjoint
  <2>2. QED
    BY <1>9, <1>11, <2>1 DEF Disjoint
<1>14. QED
  BY <1>8, <1>9, <1>10, <1>12, <1>13

\* Rule 5.
LEMMA BoostedFacts ==
  ASSUME NEW p \in MlfqObjects
  PROVE  LET n == Boosted(p)
         IN  /\ n \in MlfqObjects /\ MlfqReady(n) = MlfqReady(p) /\ n.sinceBoost = 0
             /\ KeepsTop(p, n) /\ ToSet(n.queues[0]) = MlfqReady(p)
             /\ \A u \in Tasks : Allotted(p, u) => Allotted(n, u)
<1>1. /\ p = [queues |-> p.queues, level |-> p.level, allotment |-> p.allotment,
              sinceBoost |-> p.sinceBoost]
      /\ p.queues \in [Levels -> Seq(Tasks)] /\ p.level \in [Tasks -> Levels]
      /\ p.allotment \in [Tasks -> Nat] /\ p.sinceBoost \in Nat
      /\ Placed(p) /\ 0 \in Levels
  BY MlfqFields
<1>2. PICK n : n = Boosted(p)
  OBVIOUS
<1>3. PICK top : top = p.queues[0] \o Lower(p)
  OBVIOUS
<1>4. top \in Seq(Tasks) /\ Distinct(top) /\ ToSet(top) = MlfqReady(p)
  <2>1. PICK a, b : a = p.queues[0] /\ b = Lower(p)
    OBVIOUS
  <2>2. /\ a \in Seq(Tasks) /\ Distinct(a) /\ b \in Seq(Tasks) /\ Distinct(b)
        /\ Disjoint(a, b) /\ ToSet(a) \cup ToSet(b) = MlfqReady(p)
    <3>1. a \in Seq(Tasks) /\ Distinct(a)
      BY <1>1, <2>1 DEF Placed
    <3>2. QED
      BY <2>1, <3>1, LowerFacts
  <2>3. top = a \o b
    BY <1>3, <2>1
  <2>4. a \o b \in Seq(Tasks)
    BY <2>2
  <2>5. Distinct(a \o b)
    BY <2>2, ConcatDistinct
  <2>6. ToSet(a \o b) = ToSet(a) \cup ToSet(b)
    BY <2>2, ConcatElements
  <2>7. QED
    BY <2>2, <2>3, <2>4, <2>5, <2>6
<1>5. \A i \in DOMAIN p.queues[0] : i \in DOMAIN top /\ top[i] = p.queues[0][i]
  <2>1. PICK a \in Seq(Tasks), b \in Seq(Tasks) : a = p.queues[0] /\ b = Lower(p)
    BY <1>1, LowerFacts
  <2>2. \A i \in DOMAIN a : i \in DOMAIN (a \o b) /\ (a \o b)[i] = a[i]
    OBVIOUS
  <2>3. QED
    BY <1>3, <2>1, <2>2
<1>6. PICK q : q = [l \in Levels |-> IF l = 0 THEN top ELSE << >>]
  OBVIOUS
<1>7. PICK v : v = [t \in Tasks |-> IF t \in MlfqReady(p) THEN 0 ELSE p.level[t]]
  OBVIOUS
<1>8. PICK a : a = [t \in Tasks |-> IF t \in MlfqReady(p) THEN AllotmentFor(0)
                                    ELSE p.allotment[t]]
  OBVIOUS
<1>9. n = [queues |-> q, level |-> v, allotment |-> a, sinceBoost |-> 0]
  <2>1. n = [p EXCEPT !.queues = q, !.level = v, !.allotment = a, !.sinceBoost = 0]
    BY <1>2, <1>3, <1>6, <1>7, <1>8 DEF Boosted
  <2>2. QED
    BY <1>1, <2>1
<1>10. AllotmentFor(0) \in Nat \ {0}
  BY <1>1, AllotmentPositive
<1>11. /\ q \in [Levels -> Seq(Tasks)] /\ v \in [Tasks -> Levels] /\ a \in [Tasks -> Nat]
       /\ q[0] = top /\ \A l \in Levels \ {0} : q[l] = << >>
  <2>1. << >> \in Seq(Tasks)
    OBVIOUS
  <2>2. q \in [Levels -> Seq(Tasks)]
    BY <1>4, <1>6, <2>1
  <2>3. q[0] = top /\ \A l \in Levels \ {0} : q[l] = << >>
    BY <1>1, <1>6
  <2>4. v \in [Tasks -> Levels] /\ a \in [Tasks -> Nat]
    BY <1>1, <1>7, <1>8, <1>10
  <2>5. QED
    BY <2>2, <2>3, <2>4
<1>12. n.queues = q /\ n.level = v /\ n.allotment = a /\ n.sinceBoost = 0
  BY <1>9
<1>13. MlfqReady(p) \subseteq Tasks
  BY MlfqFields
<1>14. ToSet(<< >>) = {} /\ Distinct(<< >>)
  BY DEF ToSet, Distinct
<1>15. Placed(n)
  <2>1. \A u \in ToSet(top) : v[u] = 0
    BY <1>4, <1>7, <1>13
  <2>2. ASSUME NEW l \in Levels
        PROVE  Distinct(q[l]) /\ \A u \in ToSet(q[l]) : v[u] = l
    BY <1>4, <1>11, <1>14, <2>1
  <2>3. QED
    BY <1>12, <2>2 DEF Placed
<1>16. n \in MlfqObjects
  <2>1. 0 \in Nat /\ 0 < BoostInterval
    BY MLFQAssumption
  <2>2. MlfqParts(n, q, v, a, 0)
    BY <1>9, <1>11, <2>1 DEF MlfqParts
  <2>3. QED
    BY <1>15, <2>2, MlfqObject
<1>17. MlfqReady(n) = MlfqReady(p)
  <2>1. \A l \in Levels \ {0} : ToSet(q[l]) = {}
    BY <1>11, <1>14
  <2>2. ToSet(q[0]) = MlfqReady(p)
    BY <1>4, <1>11
  <2>3. MlfqReady(n) = UNION {ToSet(q[l]) : l \in Levels}
    BY <1>12 DEF MlfqReady
  <2>4. UNION {ToSet(q[l]) : l \in Levels} = ToSet(q[0])
    <3>1. \A l \in Levels : l = 0 \/ ToSet(q[l]) = {}
      BY <2>1
    <3>2. QED
      BY <1>1, <3>1, Zenon
  <2>5. QED
    BY <2>2, <2>3, <2>4
<1>18. ASSUME NEW u \in Tasks, Allotted(p, u)
       PROVE  Allotted(n, u)
  <2>1. CASE u \in MlfqReady(p)
    <3>1. n.level[u] = 0 /\ n.allotment[u] = AllotmentFor(0)
      BY <1>7, <1>8, <1>12, <2>1
    <3>2. QED
      BY <1>10, <3>1 DEF Allotted
  <2>2. CASE u \notin MlfqReady(p)
    <3>1. n.level[u] = p.level[u] /\ n.allotment[u] = p.allotment[u]
      BY <1>7, <1>8, <1>12, <2>2
    <3>2. QED
      BY <1>18, <3>1 DEF Allotted
  <2>3. QED
    BY <2>1, <2>2
<1>19. KeepsTop(p, n) /\ ToSet(n.queues[0]) = MlfqReady(p)
  BY <1>4, <1>5, <1>11, <1>12 DEF KeepsTop
<1>20. QED
  BY <1>2, <1>12, <1>16, <1>17, <1>18, <1>19

\* on_cpu_used: the boost timer runs on, or every ready task is boosted.
LEMMA MlfqCpuUsedFacts ==
  ASSUME NEW p \in MlfqObjects, NEW t \in Tasks, t \notin MlfqReady(p), NEW d \in Nat
  PROVE  LET n == MlfqCpuUsed(p, t, d)
         IN  /\ n \in MlfqObjects /\ MlfqReady(n) = MlfqReady(p) /\ KeepsTop(p, n)
             /\ \A u \in Tasks : Allotted(p, u) => Allotted(n, u)
             /\ \/ n.sinceBoost = p.sinceBoost + d
                \/ n.sinceBoost = 0 /\ ToSet(n.queues[0]) = MlfqReady(p)
<1>1. PICK n : n = MlfqCpuUsed(p, t, d)
  OBVIOUS
<1>2. PICK r : r = Demoted(p, t, d)
  OBVIOUS
<1>3. /\ r \in MlfqObjects /\ r.queues = p.queues /\ r.sinceBoost = p.sinceBoost
      /\ \A u \in Tasks : Allotted(p, u) => Allotted(r, u)
  BY <1>2, DemotedFacts
<1>4. MlfqReady(r) = MlfqReady(p) /\ \A m : KeepsTop(r, m) <=> KeepsTop(p, m)
  BY <1>3 DEF MlfqReady, KeepsTop
<1>5. CASE p.sinceBoost + d >= BoostInterval
  <2>1. n = Boosted(r)
    BY <1>1, <1>2, <1>5 DEF MlfqCpuUsed
  <2>2. /\ n \in MlfqObjects /\ MlfqReady(n) = MlfqReady(r) /\ n.sinceBoost = 0
        /\ KeepsTop(r, n) /\ ToSet(n.queues[0]) = MlfqReady(r)
        /\ \A u \in Tasks : Allotted(r, u) => Allotted(n, u)
    BY <1>3, <2>1, BoostedFacts
  <2>3. QED
    BY <1>1, <1>3, <1>4, <2>2
<1>6. CASE ~(p.sinceBoost + d >= BoostInterval)
  <2>1. PICK b : b = p.sinceBoost + d
    OBVIOUS
  <2>2. b \in Nat /\ b < BoostInterval
    BY <1>6, <2>1, MlfqFields, MLFQAssumption
  <2>3. n = [r EXCEPT !.sinceBoost = b]
    <3>1. n = [r EXCEPT !.sinceBoost = @ + d]
      BY <1>1, <1>2, <1>6 DEF MlfqCpuUsed
    <3>2. QED
      BY <1>3, <2>1, <3>1
  <2>4. n = [queues |-> r.queues, level |-> r.level, allotment |-> r.allotment,
             sinceBoost |-> b]
    <3>1. r = [queues |-> r.queues, level |-> r.level, allotment |-> r.allotment,
               sinceBoost |-> r.sinceBoost]
      BY <1>3, MlfqFields
    <3>2. QED
      BY <2>3, <3>1
  <2>5. n.queues = r.queues /\ n.level = r.level /\ n.allotment = r.allotment
        /\ n.sinceBoost = b
    BY <2>4
  <2>6. MlfqParts(n, r.queues, r.level, r.allotment, b)
    BY <1>3, <2>2, <2>4, MlfqFields DEF MlfqParts
  <2>7. Placed(n)
    <3>1. Placed(r)
      BY <1>3, MlfqFields
    <3>2. QED
      BY <2>5, <3>1 DEF Placed
  <2>8. n \in MlfqObjects
    BY <2>6, <2>7, MlfqObject
  <2>9. MlfqReady(n) = MlfqReady(p) /\ KeepsTop(p, n)
    BY <1>3, <2>5 DEF MlfqReady, KeepsTop
  <2>10. \A u \in Tasks : Allotted(r, u) => Allotted(n, u)
    BY <2>5 DEF Allotted
  <2>11. QED
    BY <1>1, <1>3, <2>1, <2>5, <2>8, <2>9, <2>10
<1>7. QED
  BY <1>5, <1>6

\* remove_task.
LEMMA MlfqRemovedFacts ==
  ASSUME NEW p \in MlfqObjects, NEW t
  PROVE  LET n == MlfqRemoved(p, t)
         IN  /\ n \in MlfqObjects /\ MlfqReady(n) = MlfqReady(p) \ {t}
             /\ n.level = p.level /\ n.allotment = p.allotment
             /\ n.sinceBoost = p.sinceBoost
             /\ n.queues[0] = Without(p.queues[0], t)
<1>1. /\ p = [queues |-> p.queues, level |-> p.level, allotment |-> p.allotment,
              sinceBoost |-> p.sinceBoost]
      /\ p.queues \in [Levels -> Seq(Tasks)] /\ p.level \in [Tasks -> Levels]
      /\ p.allotment \in [Tasks -> Nat] /\ p.sinceBoost \in Nat
      /\ Placed(p) /\ p.sinceBoost < BoostInterval /\ 0 \in Levels
  BY MlfqFields
<1>2. PICK n : n = MlfqRemoved(p, t)
  OBVIOUS
<1>3. PICK q : q = [l \in Levels |-> Without(p.queues[l], t)]
  OBVIOUS
<1>4. n = [queues |-> q, level |-> p.level, allotment |-> p.allotment,
           sinceBoost |-> p.sinceBoost]
  <2>1. n = [p EXCEPT !.queues = q]
    BY <1>2, <1>3 DEF MlfqRemoved
  <2>2. QED
    BY <1>1, <2>1
<1>5. ASSUME NEW l \in Levels
      PROVE  /\ q[l] \in Seq(Tasks) /\ Distinct(q[l])
             /\ ToSet(q[l]) = ToSet(p.queues[l]) \ {t}
  <2>1. PICK s : s = p.queues[l]
    OBVIOUS
  <2>2. s \in Seq(Tasks) /\ Distinct(s)
    BY <1>1, <2>1 DEF Placed
  <2>3. /\ Without(s, t) \in Seq(Tasks) /\ Distinct(Without(s, t))
        /\ ToSet(Without(s, t)) = ToSet(s) \ {t}
    BY <2>2, WithoutFacts
  <2>4. q[l] = Without(s, t)
    BY <1>3, <2>1
  <2>5. QED
    BY <2>1, <2>3, <2>4
<1>6. q \in [Levels -> Seq(Tasks)]
  BY <1>3, <1>5
<1>7. n.queues = q /\ n.level = p.level /\ n.allotment = p.allotment
      /\ n.sinceBoost = p.sinceBoost
  BY <1>4
<1>8. Placed(n)
  <2>1. ASSUME NEW l \in Levels
        PROVE  Distinct(q[l]) /\ \A u \in ToSet(q[l]) : p.level[u] = l
    <3>1. \A u \in ToSet(p.queues[l]) : p.level[u] = l
      BY <1>1 DEF Placed
    <3>2. QED
      BY <1>5, <3>1
  <2>2. QED
    BY <1>7, <2>1 DEF Placed
<1>9. n \in MlfqObjects
  <2>1. MlfqParts(n, q, p.level, p.allotment, p.sinceBoost)
    BY <1>1, <1>4, <1>6 DEF MlfqParts
  <2>2. QED
    BY <1>8, <2>1, MlfqObject
<1>10. MlfqReady(n) = MlfqReady(p) \ {t}
  <2>1. \A u : u \in MlfqReady(p) <=> \E l \in Levels : u \in ToSet(p.queues[l])
    BY DEF MlfqReady
  <2>2. \A u : u \in MlfqReady(n) <=> \E l \in Levels : u \in ToSet(q[l])
    BY <1>7 DEF MlfqReady
  <2>3. \A l \in Levels : \A u : u \in ToSet(q[l]) <=> u \in ToSet(p.queues[l]) /\ u # t
    BY <1>5
  <2>4. QED
    BY <2>1, <2>2, <2>3
<1>11. QED
  BY <1>1, <1>2, <1>3, <1>7, <1>9, <1>10

\* schedule: the head of the highest queue that is not empty.
LEMMA MlfqBestFacts ==
  ASSUME NEW p \in MlfqObjects, MlfqReady(p) # {}
  PROVE  LET b == MlfqBest(p)
         IN  /\ b \in MlfqReady(p) /\ \A u \in MlfqReady(p) : p.level[b] <= p.level[u]
             /\ p.queues[0] # << >> => b = p.queues[0][1]
<1> DEFINE First(l) == /\ p.queues[l] # << >>
                       /\ \A k \in 0 .. l - 1 : p.queues[k] = << >>
           B == {l \in Levels : p.queues[l] # << >>}
<1>1. p.queues \in [Levels -> Seq(Tasks)] /\ Placed(p) /\ 0 \in Levels
  BY MlfqFields
<1>2. \A l \in Levels : p.queues[l] # << >> <=> ToSet(p.queues[l]) # {}
  <2>1. ASSUME NEW s \in Seq(Tasks)
        PROVE  s # << >> <=> ToSet(s) # {}
    <3>1. s # << >> <=> Len(s) # 0
      OBVIOUS
    <3>2. DOMAIN s = 1 .. Len(s) /\ Len(s) \in Nat
      OBVIOUS
    <3>3. DOMAIN s # {} <=> Len(s) # 0
      <4>1. Len(s) # 0 => 1 \in DOMAIN s
        BY <3>2
      <4>2. Len(s) = 0 => DOMAIN s = {}
        BY <3>2
      <4>3. QED
        BY <4>1, <4>2
    <3>4. QED
      BY <3>1, <3>3 DEF ToSet
  <2>2. QED
    BY <1>1, <2>1
<1>3. B \in SUBSET Nat /\ B # {}
  <2>1. \E l \in Levels : ToSet(p.queues[l]) # {}
    BY DEF MlfqReady
  <2>2. Levels \subseteq Nat
    BY MLFQAssumption DEF Levels
  <2>3. QED
    BY <1>2, <2>1, <2>2
<1>4. PICK l0 \in B : \A k \in B : l0 <= k
  BY <1>3, LeastNatural
<1>5. l0 \in Levels /\ First(l0)
  <2>1. l0 \in Levels /\ p.queues[l0] # << >>
    OBVIOUS
  <2>2. ASSUME NEW k \in 0 .. l0 - 1
        PROVE  p.queues[k] = << >>
    <3>1. k \in Levels /\ ~(l0 <= k)
      BY <2>1, MLFQAssumption DEF Levels
    <3>2. QED
      BY <1>4, <3>1
  <2>3. QED
    BY <2>1, <2>2
<1> DEFINE l == CHOOSE l \in Levels : First(l)
<1>6. l \in Levels /\ First(l)
  BY <1>5, Zenon
<1>7. MlfqBest(p) = Head(p.queues[l])
  BY DEF MlfqBest
<1> HIDE DEF l, B
<1>8. PICK s \in Seq(Tasks) : s = p.queues[l]
  BY <1>1, <1>6
<1>9. s # << >> /\ Head(s) = s[1] /\ 1 \in DOMAIN s
  BY <1>6, <1>8
<1>10. Head(s) \in ToSet(s)
  BY <1>9 DEF ToSet
<1>11. Head(s) \in MlfqReady(p) /\ p.level[Head(s)] = l
  BY <1>1, <1>6, <1>8, <1>10 DEF MlfqReady, Placed
<1>12. ASSUME NEW u \in MlfqReady(p)
       PROVE  l <= p.level[u]
  <2>1. PICK k \in Levels : u \in ToSet(p.queues[k])
    BY DEF MlfqReady
  <2>2. p.level[u] = k
    BY <1>1, <2>1 DEF Placed
  <2>3. p.queues[k] # << >>
    BY <1>2, <2>1
  <2>4. k \notin 0 .. l - 1
    BY <1>6, <2>3
  <2>5. l <= k
    BY <1>6, <2>4, MLFQAssumption DEF Levels
  <2>6. QED
    BY <2>2, <2>5
<1>13. ASSUME p.queues[0] # << >>
       PROVE  l = 0
  <2>1. 0 \notin 0 .. l - 1
    BY <1>6, <1>13
  <2>2. QED
    BY <1>6, <2>1, MLFQAssumption DEF Levels
<1>14. QED
  BY <1>7, <1>8, <1>9, <1>11, <1>12, <1>13

\* schedule answers with its quantum.
LEMMA MlfqDecidedFacts ==
  ASSUME NEW p \in MlfqObjects, MlfqReady(p) # {}
  PROVE  /\ MlfqDecided(p) = [task |-> MlfqBest(p), slice |-> Quantum[p.level[MlfqBest(p)]]]
         /\ MlfqDecided(p).task = MlfqBest(p)
         /\ MlfqDecided(p).slice = Quantum[p.level[MlfqBest(p)]]
         /\ p.level[MlfqBest(p)] \in Levels
<1>1. MlfqBest(p) \in Tasks
  BY MlfqBestFacts, MlfqFields
<1>2. p.level[MlfqBest(p)] \in Levels
  BY <1>1, MlfqFields
<1>3. QED
  BY <1>2 DEF MlfqDecided

\* An MLFQScheduler keeps the contract, call by call.
LEMMA MlfqContract ==
  ASSUME DrivesMlfq
  PROVE  Contract(MlfqObjects)
<1>1. \A p \in MlfqInits : p \in MlfqObjects /\ MlfqReady(p) = {}
  <2> SUFFICES ASSUME NEW p \in MlfqInits
               PROVE  p \in MlfqObjects /\ MlfqReady(p) = {}
    OBVIOUS
  <2>1. PICK q : q = [l \in Levels |-> << >>]
    OBVIOUS
  <2>2. PICK zero : zero = [t \in Tasks |-> 0]
    OBVIOUS
  <2>3. p = [queues |-> q, level |-> zero, allotment |-> zero, sinceBoost |-> 0]
    BY <2>1, <2>2 DEF MlfqInits
  <2>4. << >> \in Seq(Tasks) /\ 0 \in Levels /\ 0 < BoostInterval
    BY MLFQAssumption DEF Levels
  <2>5. q \in [Levels -> Seq(Tasks)] /\ zero \in [Tasks -> Nat] /\ zero \in [Tasks -> Levels]
    BY <2>1, <2>2, <2>4
  <2>6. MlfqParts(p, q, zero, zero, 0)
    BY <2>3, <2>4, <2>5 DEF MlfqParts
  <2>7. p.queues = q
    BY <2>3
  <2>8. \A l \in Levels : p.queues[l] = << >>
    BY <2>1, <2>7
  <2>9. ToSet(<< >>) = {} /\ Distinct(<< >>)
    BY DEF ToSet, Distinct
  <2>10. Placed(p)
    BY <2>8, <2>9 DEF Placed
  <2>11. p \in MlfqObjects
    BY <2>6, <2>10, MlfqObject
  <2>12. MlfqReady(p) = {}
    BY <2>8, <2>9 DEF MlfqReady
  <2>13. QED
    BY <2>11, <2>12
<1>2. ASSUME NEW p \in MlfqObjects
      PROVE  MlfqDecided(p) \in Decisions(MlfqReady(p))
  <2>1. CASE MlfqReady(p) = {}
    BY <2>1 DEF MlfqDecided, Decisions
  <2>2. CASE MlfqReady(p) # {}
    <3>1. PICK b, x : b = MlfqBest(p) /\ x = Quantum[p.level[MlfqBest(p)]]
      OBVIOUS
    <3>2. MlfqDecided(p) = [task |-> b, slice |-> x]
      BY <2>2, <3>1, MlfqDecidedFacts
    <3>3. b \in MlfqReady(p)
      BY <2>2, <3>1, MlfqBestFacts
    <3>4. x \in Slices
      BY <2>2, <3>1, MlfqDecidedFacts DEF DrivesMlfq
    <3>5. [task |-> b, slice |-> x] \in [task : MlfqReady(p), slice : Slices]
      BY <3>3, <3>4
    <3>6. Decisions(MlfqReady(p)) = [task : MlfqReady(p), slice : Slices]
      BY <2>2 DEF Decisions
    <3>7. QED
      BY <3>2, <3>5, <3>6
  <2>3. QED
    BY <2>1, <2>2
<1>3. \A p \in MlfqObjects : MlfqReady(p) \subseteq Tasks
  BY MlfqFields
<1>4. \A p \in MlfqObjects : \A t \in Tasks \ MlfqReady(p) : \A new \in BOOLEAN :
        MlfqAdded(p, t, new) \in MlfqObjects
          /\ MlfqReady(MlfqAdded(p, t, new)) = MlfqReady(p) \cup {t}
  BY MlfqAddedFacts
<1>5. \A p \in MlfqObjects : \A t \in Tasks \ MlfqReady(p) : \A d \in Nat :
        MlfqCpuUsed(p, t, d) \in MlfqObjects
          /\ MlfqReady(MlfqCpuUsed(p, t, d)) = MlfqReady(p)
  BY MlfqCpuUsedFacts
<1>6. \A p \in MlfqObjects : \A t \in MlfqReady(p) :
        MlfqRemoved(p, t) \in MlfqObjects
          /\ MlfqReady(MlfqRemoved(p, t)) = MlfqReady(p) \ {t}
  BY MlfqRemovedFacts
<1>7. QED
  BY <1>1, <1>2, <1>3, <1>4, <1>5, <1>6 DEF Contract, DrivesMlfq

\* With MLFQScheduler the ready queues of the policy are the simulator's queue,
\* on any number of cores, through demotions and boosts, and schedule() always
\* has an answer among it.
THEOREM MlfqKeepsContract ==
  ASSUME DrivesMlfq
  PROVE  PolicySpec => []SchedulerContract
<1>1. PolicyInit => InContract(MlfqObjects)
  BY MlfqContract, PolicyInitFacts
<1>2. IInv /\ InContract(MlfqObjects) /\ [PolicyNext]_policyVars => InContract(MlfqObjects)'
  BY MlfqContract, PolicyStepFacts
<1>3. InContract(MlfqObjects) => SchedulerContract
  BY MlfqContract DEF InContract, Contract, SchedulerContract
<1>4. QED
  BY <1>1, <1>2, <1>3, PolicyInvariance, PTL DEF PolicySpec

\* A task keeps a proper allotment from its arrival on, whatever happens to the
\* others: the running one is charged, the queued ones are boosted.
LEMMA MlfqPreserves ==
  ASSUME DrivesMlfq, NEW F, F = {x \in MlfqObjects \X Tasks : Allotted(x[1], x[2])}
  PROVE  Preserves(MlfqObjects, F)
<1>1. ASSUME NEW p \in MlfqObjects, NEW t \in Tasks
      PROVE  <<p, t>> \in F <=> Allotted(p, t)
  OBVIOUS
<1>2. ASSUME NEW p \in MlfqObjects, NEW t \in Tasks \ Ready(p)
      PROVE  <<Added(p, t, TRUE), t>> \in F
  <2>1. PICK n : n = Added(p, t, TRUE)
    OBVIOUS
  <2>2. t \notin MlfqReady(p) /\ n = MlfqAdded(p, t, TRUE)
    BY <2>1 DEF DrivesMlfq
  <2>3. n \in MlfqObjects /\ Allotted(n, t)
    BY <2>2, MlfqAddedFacts
  <2>4. QED
    BY <1>1, <2>1, <2>3
<1>3. ASSUME NEW p \in MlfqObjects, NEW t \in Tasks \ Ready(p), NEW new \in BOOLEAN,
             NEW u \in Tasks, <<p, u>> \in F
      PROVE  <<Added(p, t, new), u>> \in F
  <2>1. PICK n : n = Added(p, t, new)
    OBVIOUS
  <2>2. t \notin MlfqReady(p) /\ n = MlfqAdded(p, t, new) /\ Allotted(p, u)
    BY <1>1, <1>3, <2>1 DEF DrivesMlfq
  <2>3. n \in MlfqObjects /\ Allotted(n, u)
    BY <2>2, MlfqAddedFacts
  <2>4. QED
    BY <1>1, <2>1, <2>3
<1>4. ASSUME NEW p \in MlfqObjects, NEW t \in Tasks \ Ready(p), NEW d \in Nat,
             NEW u \in Tasks, <<p, u>> \in F
      PROVE  <<CpuUsed(p, t, d), u>> \in F
  <2>1. PICK n : n = CpuUsed(p, t, d)
    OBVIOUS
  <2>2. t \notin MlfqReady(p) /\ n = MlfqCpuUsed(p, t, d) /\ Allotted(p, u)
    BY <1>1, <1>4, <2>1 DEF DrivesMlfq
  <2>3. n \in MlfqObjects /\ Allotted(n, u)
    BY <2>2, MlfqCpuUsedFacts
  <2>4. QED
    BY <1>1, <2>1, <2>3
<1>5. ASSUME NEW p \in MlfqObjects, NEW t \in Ready(p), NEW u \in Tasks, <<p, u>> \in F
      PROVE  <<Removed(p, t), u>> \in F
  <2>1. PICK n : n = Removed(p, t)
    OBVIOUS
  <2>2. n = MlfqRemoved(p, t) /\ Allotted(p, u)
    BY <1>1, <1>5, <2>1 DEF DrivesMlfq
  <2>3. n \in MlfqObjects /\ n.level = p.level /\ n.allotment = p.allotment
    BY <2>2, MlfqRemovedFacts
  <2>4. Allotted(n, u)
    BY <2>2, <2>3 DEF Allotted
  <2>5. QED
    BY <1>1, <2>1, <2>3, <2>4
<1>6. QED
  BY <1>2, <1>3, <1>4, <1>5 DEF Preserves

\* Every queued task is once in the queue of its level, and every task present
\* has an allotment that its level can have, on any number of cores.
THEOREM MlfqLevelsConsistent ==
  ASSUME DrivesMlfq
  PROVE  PolicySpec => []LevelsConsistent
<1> DEFINE F == {x \in MlfqObjects \X Tasks : Allotted(x[1], x[2])}
<1>1. Contract(MlfqObjects) /\ Preserves(MlfqObjects, F)
  BY MlfqContract, MlfqPreserves
<1>2. InContract(MlfqObjects) /\ Protected(F) => LevelsConsistent
  <2> SUFFICES ASSUME InContract(MlfqObjects), Protected(F)
               PROVE  LevelsConsistent
    OBVIOUS
  <2>1. policy \in MlfqObjects
    BY DEF InContract
  <2>2. \A t \in queue \cup Busy : Allotted(policy, t)
    BY DEF Protected
  <2>3. Placed(policy)
    BY <2>1, MlfqFields
  <2>4. ASSUME NEW l \in Levels, NEW i \in DOMAIN policy.queues[l],
               NEW j \in DOMAIN policy.queues[l]
        PROVE  /\ policy.level[policy.queues[l][i]] = l
               /\ policy.queues[l][i] = policy.queues[l][j] => i = j
    BY <2>3 DEF Placed, Distinct, ToSet
  <2>5. QED
    BY <2>2, <2>4 DEF LevelsConsistent, Allotted
<1> HIDE DEF F
<1>3. PolicyInit => InContract(MlfqObjects) /\ Protected(F) /\ Fresh
  BY <1>1, PolicyInitFacts, InitFresh
<1>4. IInv /\ InContract(MlfqObjects) /\ Protected(F) /\ Fresh /\ [PolicyNext]_policyVars
        => InContract(MlfqObjects)' /\ Protected(F)' /\ Fresh'
  BY <1>1, StepProtected
<1>5. QED
  BY <1>2, <1>3, <1>4, PolicyInvariance, PTL DEF PolicySpec

\* dispatch_next starts a task of the highest level, on the only core.
LEMMA DispatchRunsHighest ==
  ASSUME DrivesMlfq, NumCores = 1, NEW p \in MlfqObjects,
         NEW e, NEW c \in Cores, NEW tk, NEW q, NEW k, q = Ready(p),
         DispatchNext(e, c, tk, q, k, Decided(p)), policy' = Dispatched(p),
         running \in [Cores -> Tasks \cup {NoTask}]
  PROVE  HigherPriorityRuns'
<1>1. q = MlfqReady(p) /\ Decided(p) = MlfqDecided(p)
  BY DEF DrivesMlfq
<1>2. CASE q = {}
  <2>1. queue' = {}
    BY <1>2 DEF DispatchNext
  <2>2. QED
    BY <2>1 DEF HigherPriorityRuns
<1>3. CASE q # {}
  <2>1. PICK b : b = MlfqBest(p)
    OBVIOUS
  <2>2. Decided(p).task = b
    BY <1>1, <1>3, <2>1, MlfqDecidedFacts
  <2>3. queue' = q \ {b} /\ running' = [running EXCEPT ![c] = b]
    BY <1>3, <2>2 DEF DispatchNext
  <2>4. PICK n : n = MlfqRemoved(p, b)
    OBVIOUS
  <2>5. policy' = n
    BY <1>3, <2>2, <2>4 DEF Dispatched, DrivesMlfq
  <2>6. n.level = p.level
    BY <2>4, MlfqRemovedFacts
  <2>7. \A u \in q : p.level[b] <= p.level[u]
    BY <1>1, <1>3, <2>1, MlfqBestFacts
  <2>8. \A d \in Cores : running'[d] = b
    BY <2>3, OnlyCore
  <2>9. QED
    BY <2>3, <2>5, <2>6, <2>7, <2>8 DEF HigherPriorityRuns
<1>4. QED
  BY <1>2, <1>3

\* The handlers that end in dispatch_next.
LEMMA DispatchingRunsHighest ==
  ASSUME IInv, DrivesMlfq, NumCores = 1, InContract(MlfqObjects), NEW e,
         \/ \E c \in Cores : PolicyArrivalToIdleCore(e, c) \/ PolicyArrivalPreempts(e, c)
         \/ PolicySliceCompletes(e) \/ PolicySliceExpires(e)
  PROVE  HigherPriorityRuns'
<1>1. Contract(MlfqObjects)
  BY MlfqContract
<1>2. ASSUME NEW c \in Cores, PolicyArrivalToIdleCore(e, c)
      PROVE  HigherPriorityRuns'
  <2>1. PICK p : p = AfterArrival(e)
    OBVIOUS
  <2>2. /\ Pop(e) /\ e.type = "ARRIVAL"
        /\ DispatchNext(e, c, Arrived(e), queue \cup {e.task}, contextSwitches, Decided(p))
        /\ policy' = Dispatched(p)
    BY <1>2, <2>1 DEF PolicyArrivalToIdleCore, ArrivalToIdleCore
  <2>3. /\ p \in MlfqObjects /\ Ready(p) = queue \cup {e.task}
        /\ running \in [Cores -> Tasks \cup {NoTask}]
    BY <1>1, <2>1, <2>2, ArrivalAdds, PopFacts
  <2>4. QED
    BY <2>2, <2>3, DispatchRunsHighest
<1>3. ASSUME NEW c \in Cores, PolicyArrivalPreempts(e, c)
      PROVE  HigherPriorityRuns'
  <2>1. PICK p0 : p0 = AfterArrival(e)
    OBVIOUS
  <2>2. PICK t : t = running[c]
    OBVIOUS
  <2>3. PICK p1 : p1 = CpuUsed(p0, t, Elapsed(e, c))
    OBVIOUS
  <2>4. PICK p : p = AddedTo(p1, t)
    OBVIOUS
  <2>5. PICK tk : tk = Requeued(Charged(Arrived(e), c, e.time), c, e.time)
    OBVIOUS
  <2>6. p = AfterPreempt(e, c)
    BY <2>1, <2>2, <2>3, <2>4 DEF AfterPreempt
  <2>7. /\ Pop(e) /\ e.type = "ARRIVAL" /\ t # NoTask
        /\ DispatchNext(e, c, tk, queue \cup {e.task, t}, contextSwitches + 1, Decided(p))
        /\ policy' = Dispatched(p)
    BY <1>3, <2>2, <2>5, <2>6 DEF PolicyArrivalPreempts, ArrivalPreempts, Idle
  <2>8. /\ p0 \in MlfqObjects /\ Ready(p0) = queue \cup {e.task}
        /\ running \in [Cores -> Tasks \cup {NoTask}]
    BY <1>1, <2>1, <2>7, ArrivalAdds, PopFacts
  <2>9. t \in Tasks /\ t \notin queue /\ t # e.task /\ Elapsed(e, c) \in Nat
    BY <2>2, <2>7, RunningTask, ArrivingTask
  <2>10. p1 \in MlfqObjects /\ Ready(p1) = Ready(p0)
    BY <1>1, <2>3, <2>8, <2>9, CpuUsedFacts
  <2>11. p \in MlfqObjects /\ Ready(p) = Ready(p1) \cup {t}
    BY <1>1, <2>4, <2>8, <2>9, <2>10, AddedFacts
  <2>12. queue \cup {e.task, t} = Ready(p)
    BY <2>8, <2>10, <2>11
  <2>13. QED
    BY <2>7, <2>8, <2>11, <2>12, DispatchRunsHighest
<1>4. ASSUME PolicySliceCompletes(e)
      PROVE  HigherPriorityRuns'
  <2>1. PICK p : p = AfterSlice(e)
    OBVIOUS
  <2>2. PICK tk : tk = [Charged(task, e.core, e.time) EXCEPT ![e.task] = Complete(@, e.time)]
    OBVIOUS
  <2>3. /\ Pop(e) /\ Hits(e)
        /\ DispatchNext(e, e.core, tk, queue, contextSwitches, Decided(p))
        /\ policy' = Dispatched(p)
    BY <1>4, <2>1, <2>2 DEF PolicySliceCompletes, SliceCompletes
  <2>4. /\ p \in MlfqObjects /\ Ready(p) = queue /\ e.core \in Cores
        /\ running \in [Cores -> Tasks \cup {NoTask}]
    BY <1>1, <2>1, <2>3, SliceCharges, PopFacts
  <2>5. QED
    BY <2>3, <2>4, DispatchRunsHighest
<1>5. ASSUME PolicySliceExpires(e)
      PROVE  HigherPriorityRuns'
  <2>1. PICK p0 : p0 = AfterSlice(e)
    OBVIOUS
  <2>2. PICK p : p = AddedTo(p0, e.task)
    OBVIOUS
  <2>3. PICK tk : tk = Requeued(Charged(task, e.core, e.time), e.core, e.time)
    OBVIOUS
  <2>4. /\ Pop(e) /\ Hits(e)
        /\ DispatchNext(e, e.core, tk, queue \cup {e.task}, contextSwitches, Decided(p))
        /\ policy' = Dispatched(p)
    BY <1>5, <2>1, <2>2, <2>3 DEF PolicySliceExpires, SliceExpires
  <2>5. /\ p0 \in MlfqObjects /\ Ready(p0) = queue /\ e.core \in Cores
        /\ e.task \in Tasks /\ e.task \notin queue
        /\ running \in [Cores -> Tasks \cup {NoTask}]
    BY <1>1, <2>1, <2>4, SliceCharges, PopFacts
  <2>6. p \in MlfqObjects /\ Ready(p) = queue \cup {e.task}
    BY <1>1, <2>2, <2>5, AddedFacts
  <2>7. QED
    BY <2>4, <2>5, <2>6, DispatchRunsHighest
<1>6. QED
  BY <1>2, <1>3, <1>4, <1>5

\* add_task, in a handler, leaves the boost timer and the others' levels.
LEMMA MlfqAddedTo ==
  ASSUME DrivesMlfq, NEW p \in MlfqObjects, NEW t \in Tasks, t \notin MlfqReady(p),
         NEW n, n = AddedTo(p, t)
  PROVE  /\ n \in MlfqObjects /\ MlfqReady(n) = MlfqReady(p) \cup {t}
         /\ n.sinceBoost = p.sinceBoost /\ KeepsTop(p, n)
         /\ \A u \in Tasks \ {t} : n.level[u] = p.level[u]
<1>1. (task[t].start < 0) \in BOOLEAN
  OBVIOUS
<1>2. PICK new \in BOOLEAN : new = (task[t].start < 0)
  BY <1>1
<1>3. n = MlfqAdded(p, t, new)
  BY <1>2 DEF AddedTo, DrivesMlfq
<1>4. QED
  BY <1>3, MlfqAddedFacts

\* That of handle_arrival.
LEMMA MlfqArrival ==
  ASSUME IInv, DrivesMlfq, InContract(MlfqObjects), NEW e, Pop(e), e.type = "ARRIVAL",
         NEW n, n = AfterArrival(e)
  PROVE  /\ n \in MlfqObjects /\ MlfqReady(n) = queue \cup {e.task}
         /\ n.sinceBoost = policy.sinceBoost /\ KeepsTop(policy, n)
         /\ \A u \in Tasks \ {e.task} : n.level[u] = policy.level[u]
         /\ e.task \in Tasks /\ e.task \notin queue
<1>1. policy \in MlfqObjects /\ MlfqReady(policy) = queue
  BY DEF InContract, DrivesMlfq
<1>2. e.task \in Tasks /\ e.task \notin queue
  BY ArrivingTask
<1>3. n = AddedTo(policy, e.task)
  BY DEF AfterArrival
<1>4. QED
  BY <1>1, <1>2, <1>3, MlfqAddedTo

\* An arrival that does not preempt is not of a higher level.
LEMMA WaitingRunsHighest ==
  ASSUME IInv, DrivesMlfq, NumCores = 1, InContract(MlfqObjects), HigherPriorityRuns,
         NEW e, PolicyArrivalWaits(e)
  PROVE  HigherPriorityRuns'
<1>1. PICK n : n = AfterArrival(e)
  OBVIOUS
<1>2. /\ Pop(e) /\ e.type = "ARRIVAL" /\ \A b \in Cores : running[b] # NoTask
      /\ queue' = queue \cup {e.task} /\ running' = running /\ policy' = n
      /\ \A c \in Cores : ~Preempts(n, e.task, running[c])
  BY <1>1 DEF PolicyArrivalWaits, ArrivalWaits, Idle
<1>3. /\ n \in MlfqObjects /\ \A u \in Tasks \ {e.task} : n.level[u] = policy.level[u]
      /\ e.task \in Tasks /\ e.task \notin queue
  BY <1>1, <1>2, MlfqArrival
<1>4. ASSUME NEW c \in Cores
      PROVE  running[c] \in Tasks \ {e.task}
  BY <1>2, RunningTask, ArrivingTask
<1>5. ASSUME NEW c \in Cores
      PROVE  n.level[running[c]] <= n.level[e.task]
  <2>1. ~(n.level[e.task] < n.level[running[c]])
    BY <1>2 DEF DrivesMlfq, MlfqPreempts
  <2>2. n.level \in [Tasks -> Levels] /\ Levels \subseteq Nat
    BY <1>3, MlfqFields, MLFQAssumption DEF Levels
  <2>3. n.level[e.task] \in Nat /\ n.level[running[c]] \in Nat
    BY <1>3, <1>4, <2>2
  <2>4. QED
    BY <2>1, <2>3
<1>6. queue \subseteq Tasks
  BY DEF IInv, Sound, Good, TypesGood
<1>7. ASSUME NEW t \in queue, NEW c \in Cores
      PROVE  n.level[running[c]] <= n.level[t]
  <2>1. policy.level[running[c]] <= policy.level[t]
    BY <1>2 DEF HigherPriorityRuns, Idle
  <2>2. QED
    BY <1>3, <1>4, <1>6, <2>1
<1>8. QED
  BY <1>2, <1>5, <1>7 DEF HigherPriorityRuns

\* No step breaks it.
LEMMA StepRunsHighest ==
  ASSUME IInv, DrivesMlfq, NumCores = 1, InContract(MlfqObjects), HigherPriorityRuns,
         [PolicyNext]_policyVars
  PROVE  HigherPriorityRuns'
<1>1. CASE \/ \E e \in events, c \in Cores : PolicyArrivalToIdleCore(e, c)
           \/ \E e \in events, c \in Cores : PolicyArrivalPreempts(e, c)
           \/ \E e \in events : PolicySliceCompletes(e) \/ PolicySliceExpires(e)
  BY <1>1, DispatchingRunsHighest
<1>2. CASE \E e \in events : PolicyArrivalWaits(e)
  BY <1>2, WaitingRunsHighest
<1>3. CASE policy' = policy /\ queue' = queue /\ running' = running
  BY <1>3 DEF HigherPriorityRuns, Idle
<1>4. CASE \E t \in Tasks : AddTask(t) /\ UNCHANGED policy
  BY <1>3, <1>4 DEF AddTask
<1>5. CASE \E stop \in StopTimes : Run(stop) /\ UNCHANGED policy
  BY <1>3, <1>5 DEF Run
<1>6. CASE \E e \in events : SliceIgnored(e) /\ UNCHANGED policy
  BY <1>3, <1>6 DEF SliceIgnored
<1>7. CASE \E e \in events : StopAtLimit(e) /\ UNCHANGED policy
  BY <1>3, <1>7 DEF StopAtLimit
<1>8. CASE (Drain \/ Returned) /\ UNCHANGED policy
  BY <1>3, <1>8 DEF Drain, Returned, vars
<1>9. CASE UNCHANGED policyVars
  BY <1>3, <1>9 DEF policyVars, vars
<1>10. QED
  BY <1>1, <1>2, <1>4, <1>5, <1>6, <1>7, <1>8, <1>9 DEF PolicyNext

\* On one core no task waits while one of a lower level runs.  (On two, a boost
\* raises the queued tasks above a task that is running on the other core.)
THEOREM MlfqRunsHighest ==
  ASSUME DrivesMlfq, NumCores = 1
  PROVE  PolicySpec => []HigherPriorityRuns
<1>1. PolicyInit => InContract(MlfqObjects) /\ HigherPriorityRuns
  <2>1. PolicyInit => HigherPriorityRuns
    BY DEF PolicyInit, Init, HigherPriorityRuns
  <2>2. QED
    BY <2>1, MlfqContract, PolicyInitFacts
<1>2. IInv /\ InContract(MlfqObjects) /\ HigherPriorityRuns /\ [PolicyNext]_policyVars
        => InContract(MlfqObjects)' /\ HigherPriorityRuns'
  BY MlfqContract, PolicyStepFacts, StepRunsHighest
<1>3. QED
  BY <1>1, <1>2, PolicyInvariance, PTL DEF PolicySpec

-----------------------------------------------------------------------------
\* Starvation.

\* There is a longest quantum.
LEMMA QuantumFacts ==
  /\ LongestQuantum \in Nat /\ 0 \in Levels
  /\ \A l \in Levels : Quantum[l] \in Nat /\ Quantum[l] > 0 /\ Quantum[l] <= LongestQuantum
<1> DEFINE Longest(m, k) == m \in Levels /\ \A l \in 0 .. k : Quantum[l] <= Quantum[m]
           S == {k \in Levels : \E m \in Levels : Longest(m, k)}
           Q == {Quantum[l] : l \in Levels}
<1>1. /\ 0 \in Levels /\ NumLevels - 1 \in Nat /\ Levels \subseteq Nat
      /\ \A l \in Levels : Quantum[l] \in Nat /\ Quantum[l] > 0
      /\ Levels = 0 .. NumLevels - 1
  BY MLFQAssumption DEF Levels
<1>2. 0 \in S
  <2>1. Longest(0, 0)
    <3>1. Quantum[0] <= Quantum[0] /\ 0 .. 0 = {0}
      BY <1>1
    <3>2. QED
      BY <1>1, <3>1
  <2>2. QED
    BY <1>1, <2>1
<1>3. ASSUME NEW k \in 1 .. NumLevels - 1, k - 1 \in S
      PROVE  k \in S
  <2>1. PICK m \in Levels : Longest(m, k - 1)
    BY <1>3
  <2>2. k \in Levels /\ \A l \in 0 .. k : l = k \/ l \in 0 .. k - 1
    BY <1>1
  <2>3. Quantum[k] \in Nat /\ Quantum[m] \in Nat /\ \A l \in 0 .. k - 1 : Quantum[l] \in Nat
    BY <1>1, <2>2
  <2>4. CASE Quantum[k] <= Quantum[m]
    <3>1. Longest(m, k)
      BY <2>1, <2>2, <2>4
    <3>2. QED
      BY <2>2, <3>1
  <2>5. CASE Quantum[m] <= Quantum[k]
    <3>1. \A l \in 0 .. k - 1 : Quantum[l] <= Quantum[k]
      BY <2>1, <2>3, <2>5
    <3>2. Longest(k, k)
      BY <2>2, <2>3, <3>1
    <3>3. QED
      BY <2>2, <3>2
  <2>6. QED
    BY <2>3, <2>4, <2>5
<1>4. 0 .. NumLevels - 1 \subseteq S
  <2> HIDE DEF S
  <2>1. QED
    BY <1>1, <1>2, <1>3, UpTo
<1>5. PICK m \in Levels : \A l \in Levels : Quantum[l] <= Quantum[m]
  BY <1>1, <1>4
<1>6. \E q \in Q : \A l \in Levels : Quantum[l] <= q
  BY <1>5
<1>7. LongestQuantum \in Q /\ \A l \in Levels : Quantum[l] <= LongestQuantum
  <2>1. LongestQuantum = CHOOSE q \in Q : \A l \in Levels : Quantum[l] <= q
    BY DEF LongestQuantum
  <2> HIDE DEF Q
  <2>2. QED
    BY <1>6, <2>1, Zenon
<1>8. QED
  BY <1>1, <1>7

\* A queue without r is shorter than there are tasks.
LEMMA QueueLength ==
  ASSUME IsFiniteSet(Tasks), NEW s \in Seq(Tasks), Distinct(s),
         NEW r \in Tasks, r \notin ToSet(s)
  PROVE  Cardinality(Tasks) \in Nat /\ Len(s) <= Cardinality(Tasks) - 1
<1> DEFINE T == Tasks \ {r}
           f == [i \in 1 .. Len(s) |-> s[i]]
<1>1. DOMAIN s = 1 .. Len(s) /\ Len(s) \in Nat /\ \A i \in 1 .. Len(s) : s[i] \in Tasks
  OBVIOUS
<1>2. \A i \in 1 .. Len(s) : s[i] # r
  BY <1>1 DEF ToSet
<1>3. \A i, j \in 1 .. Len(s) : s[i] = s[j] => i = j
  BY <1>1 DEF Distinct
<1>4. f \in Injection(1 .. Len(s), T)
  <2>1. \A i \in 1 .. Len(s) : s[i] \in T
    BY <1>1, <1>2
  <2>2. f \in [1 .. Len(s) -> T]
    BY <2>1
  <2>3. \A i, j \in 1 .. Len(s) : f[i] = f[j] => i = j
    BY <1>3
  <2> HIDE DEF f, T
  <2>4. QED
    BY <2>2, <2>3 DEF Injection, IsInjective
<1>5. /\ Cardinality(Tasks) \in Nat /\ IsFiniteSet(T)
      /\ Cardinality(T) = Cardinality(Tasks) - 1
  BY FS_CardinalityType, FS_RemoveElement
<1>6. Cardinality(1 .. Len(s)) <= Cardinality(T)
  <2> HIDE DEF f, T
  <2>1. QED
    BY <1>4, <1>5, FS_Injection
<1>7. Cardinality(1 .. Len(s)) = Len(s)
  <2>1. PICK m \in Nat : m = Len(s)
    BY <1>1
  <2>2. 1 \in Int /\ m \in Int
    OBVIOUS
  <2>3. Cardinality(1 .. m) = IF 1 > m THEN 0 ELSE m - 1 + 1
    BY <2>2, FS_Interval
  <2>4. (IF 1 > m THEN 0 ELSE m - 1 + 1) = m
    OBVIOUS
  <2>5. QED
    BY <2>1, <2>3, <2>4
<1>8. QED
  BY <1>5, <1>6, <1>7

\* The quanta that have gone before a task at i in the top queue, when k are left.
Turns(k, i) == (k - i) * Quantum[0]

\* One turn more or less, and none.
LEMMA TurnsFacts ==
  ASSUME NEW k \in Int, NEW i \in Int
  PROVE  /\ Turns(k, i) \in Int /\ Turns(k + 1, i) = Turns(k, i) + Quantum[0]
         /\ Turns(k + 1, i + 1) = Turns(k, i)
         /\ i <= k => Turns(k, i) >= 0
         /\ Turns(k, 0) = Turns(k, 1) + Quantum[0]
<1>1. PICK m \in Int : m = Quantum[0]
  BY QuantumFacts
<1>2. m > 0
  BY <1>1, QuantumFacts
<1>3. (k - i) * m \in Int /\ (k + 1 - i) * m = (k - i) * m + m
      /\ (k + 1 - (i + 1)) * m = (k - i) * m /\ (k - 0) * m = (k - 1) * m + m
  OBVIOUS
<1>4. i <= k => (k - i) * m >= 0
  <2>1. i <= k => k - i \in Nat
    OBVIOUS
  <2>2. \A x \in Nat : x * m >= 0
    BY <1>2
  <2>3. QED
    BY <2>1, <2>2
<1>5. QED
  BY <1>1, <1>3, <1>4 DEF Turns

\* At the last dispatch task u had been ready for late, and either the boost
\* timer has run as long, or u has been boosted and at most k dispatches come
\* before its own.
InTime(p, u, late, k) ==
  \/ late <= p.sinceBoost
  \/ \E i \in DOMAIN p.queues[0] :
       /\ p.queues[0][i] = u /\ i <= k
       /\ late <= BoostInterval + LongestQuantum - 1 + Turns(k, i)

\* A call that keeps the timer and the top queue keeps the tasks in time.
LEMMA KeptInTime ==
  ASSUME NEW p, NEW n, n.sinceBoost = p.sinceBoost, KeepsTop(p, n),
         NEW u, NEW late, NEW k, InTime(p, u, late, k)
  PROVE  InTime(n, u, late, k)
BY DEF InTime, KeepsTop

\* The task that has just run is charged: the others have waited as much longer.
LEMMA ChargedInTime ==
  ASSUME NEW p \in MlfqObjects, NEW t \in Tasks, t \notin MlfqReady(p), NEW d \in Nat,
         NEW n, n = MlfqCpuUsed(p, t, d), d <= LongestQuantum,
         NEW u \in MlfqReady(p), NEW late \in Int, NEW k \in Int, InTime(p, u, late, k),
         late <= p.sinceBoost \/ d <= Quantum[0],
         Len(n.queues[0]) <= k + 1
  PROVE  InTime(n, u, late + d, k + 1)
<1>1. /\ n \in MlfqObjects /\ KeepsTop(p, n)
      /\ \/ n.sinceBoost = p.sinceBoost + d
         \/ n.sinceBoost = 0 /\ ToSet(n.queues[0]) = MlfqReady(p)
  BY MlfqCpuUsedFacts
<1>2. /\ p.sinceBoost \in Nat /\ p.sinceBoost < BoostInterval
      /\ BoostInterval \in Nat /\ LongestQuantum \in Nat
      /\ n.queues[0] \in Seq(Tasks) /\ p.queues[0] \in Seq(Tasks) /\ Quantum[0] \in Nat
  <2>1. n.queues \in [Levels -> Seq(Tasks)] /\ p.queues \in [Levels -> Seq(Tasks)]
    BY <1>1, MlfqFields
  <2>2. 0 \in Levels /\ LongestQuantum \in Nat /\ Quantum[0] \in Nat
    BY QuantumFacts
  <2>3. p.sinceBoost \in Nat /\ p.sinceBoost < BoostInterval
    BY MlfqFields
  <2>4. QED
    BY <2>1, <2>2, <2>3, MLFQAssumption
<1>3. CASE late <= p.sinceBoost
  <2>1. CASE n.sinceBoost = p.sinceBoost + d
    BY <1>2, <1>3, <2>1 DEF InTime
  <2>2. CASE n.sinceBoost = 0 /\ ToSet(n.queues[0]) = MlfqReady(p)
    <3>1. PICK i \in DOMAIN n.queues[0] : n.queues[0][i] = u
      BY <2>2 DEF ToSet
    <3>2. i \in Nat /\ i <= Len(n.queues[0]) /\ Len(n.queues[0]) \in Nat
      BY <1>2
    <3>3. i <= k + 1
      BY <3>2
    <3>4. Turns(k + 1, i) \in Int /\ Turns(k + 1, i) >= 0
      <4>1. PICK j \in Int : j = k + 1
        OBVIOUS
      <4>2. i \in Int /\ i <= j
        BY <3>2, <3>3, <4>1
      <4>3. QED
        BY <4>1, <4>2, TurnsFacts
    <3>5. late + d <= BoostInterval + LongestQuantum - 1 + Turns(k + 1, i)
      BY <1>2, <1>3, <3>4
    <3>6. QED
      BY <3>1, <3>3, <3>5 DEF InTime
  <2>3. QED
    BY <1>1, <2>1, <2>2
<1>4. CASE ~(late <= p.sinceBoost)
  <2>1. PICK i \in DOMAIN p.queues[0] :
          /\ p.queues[0][i] = u /\ i <= k
          /\ late <= BoostInterval + LongestQuantum - 1 + Turns(k, i)
    BY <1>4 DEF InTime
  <2>2. d <= Quantum[0] /\ i \in Int
    BY <1>2, <1>4
  <2>3. Turns(k, i) \in Int /\ Turns(k + 1, i) = Turns(k, i) + Quantum[0]
    BY <2>2, TurnsFacts
  <2>4. late + d <= BoostInterval + LongestQuantum - 1 + Turns(k + 1, i)
    BY <1>2, <2>1, <2>2, <2>3
  <2>5. i \in DOMAIN n.queues[0] /\ n.queues[0][i] = u
    BY <1>1, <2>1 DEF KeepsTop
  <2>6. i <= k + 1
    BY <2>1, <2>2
  <2>7. QED
    BY <2>4, <2>5, <2>6 DEF InTime
<1>5. QED
  BY <1>3, <1>4

\* The first of the top queue is dispatched: the others move up.
LEMMA DispatchedInTime ==
  ASSUME NEW p \in MlfqObjects, NEW b, b = MlfqBest(p), NEW n, n = MlfqRemoved(p, b),
         NEW u \in MlfqReady(p), u # b, NEW late, NEW k \in Int, InTime(p, u, late, k + 1)
  PROVE  InTime(n, u, late, k)
<1>1. n.sinceBoost = p.sinceBoost /\ n.queues[0] = Without(p.queues[0], b)
  BY MlfqRemovedFacts
<1>2. CASE late <= p.sinceBoost
  BY <1>1, <1>2 DEF InTime
<1>3. CASE ~(late <= p.sinceBoost)
  <2>1. PICK s : s = p.queues[0]
    OBVIOUS
  <2>2. s \in Seq(Tasks) /\ Distinct(s)
    <3>1. p.queues \in [Levels -> Seq(Tasks)] /\ Placed(p) /\ 0 \in Levels
      BY MlfqFields
    <3>2. QED
      BY <2>1, <3>1 DEF Placed
  <2>3. PICK i \in DOMAIN s :
          s[i] = u /\ i <= k + 1 /\ late <= BoostInterval + LongestQuantum - 1 + Turns(k + 1, i)
    BY <1>3, <2>1 DEF InTime
  <2>4. DOMAIN s = 1 .. Len(s) /\ Len(s) \in Nat
    BY <2>2
  <2>5. 1 \in DOMAIN s /\ s # << >>
    BY <2>3, <2>4
  <2>6. b = s[1]
    BY <2>1, <2>5, MlfqBestFacts
  <2>7. i > 1 /\ i \in Int /\ i - 1 \in Int
    BY <2>3, <2>4, <2>6
  <2>8. i - 1 \in DOMAIN Without(s, b) /\ Without(s, b)[i - 1] = u
    BY <2>2, <2>3, <2>5, <2>6, <2>7, WithoutFacts
  <2>9. Turns(k + 1, i) = Turns(k, i - 1)
    <3>1. PICK j \in Int : j = i - 1
      BY <2>7
    <3>2. i = j + 1
      BY <2>7, <3>1
    <3>3. Turns(k + 1, j + 1) = Turns(k, j)
      BY TurnsFacts
    <3>4. QED
      BY <3>1, <3>2, <3>3
  <2>10. i - 1 <= k
    BY <2>3, <2>7
  <2>11. QED
    BY <1>1, <2>1, <2>3, <2>8, <2>9, <2>10 DEF InTime
<1>4. QED
  BY <1>2, <1>3

Others == Cardinality(Tasks) - 1

\* The ready tasks of object p, with task records tk, at a dispatch at time.
AllInTime(p, tk, time, k) ==
  \A u \in MlfqReady(p) : InTime(p, u, time - tk[u].readyEnter, k)

\* When the slice of the task on the only core has run out.
SliceBound == lastEvent[0] + Quantum[policy.level[running[0]]]

\* While a task runs, the slice in effect ends in time and is noticed, and the
\* others were in time at its beginning.
Timely ==
  ~Idle(0) =>
    /\ phase # "setup" /\ now <= SliceBound
    /\ phase = "running" =>
         \E e \in events :
           e.type = "TIME_SLICE" /\ e.task = running[0] /\ e.time <= SliceBound
    /\ AllInTime(policy, task, lastEvent[0], Others - 1)

\* Until run() stops, the next event comes within the slice.
LEMMA NextEventInSlice ==
  ASSUME Timely, ~Idle(0), phase = "running", NEW e \in Earliest(events)
  PROVE  \E s \in events :
           s.type = "TIME_SLICE" /\ s.task = running[0] /\ s.time <= SliceBound
             /\ e.time <= s.time
BY DEF Timely, Earliest

\* dispatch_next begins a slice, with the others in time.
LEMMA DispatchTimely ==
  ASSUME DrivesMlfq, NumCores = 1, NEW p \in MlfqObjects,
         NEW e, Pop(e), e.time \in Nat,
         NEW c \in Cores, NEW tk \in [Tasks -> TaskState], NEW q, NEW k, q = Ready(p),
         DispatchNext(e, c, tk, q, k, Decided(p)), policy' = Dispatched(p),
         running \in [Cores -> Tasks \cup {NoTask}], lastEvent \in [Cores -> Nat],
         AllInTime(p, tk, e.time, Others), Others \in Int
  PROVE  Timely'
<1>1. q = MlfqReady(p) /\ Decided(p) = MlfqDecided(p)
  BY DEF DrivesMlfq
<1>2. 0 \in Cores /\ c = 0
  BY OnlyCore, CoresAssumption DEF Cores
<1>3. phase' = "running" /\ now' = e.time
  BY DEF Pop
<1>4. CASE q = {}
  <2>1. running' = [running EXCEPT ![c] = NoTask]
    BY <1>4 DEF DispatchNext
  <2>2. running'[0] = NoTask
    BY <1>2, <2>1
  <2>3. QED
    BY <2>2 DEF Timely, Idle
<1>5. CASE q # {}
  <2>1. PICK b : b = MlfqBest(p)
    OBVIOUS
  <2>2. PICK s : s = Quantum[p.level[b]]
    OBVIOUS
  <2>3. /\ Decided(p).task = b /\ Decided(p).slice = s /\ b \in q /\ q \subseteq Tasks
        /\ s \in Nat /\ s > 0
    <3>1. Decided(p).task = b /\ Decided(p).slice = s /\ p.level[b] \in Levels
      BY <1>1, <1>5, <2>1, <2>2, MlfqDecidedFacts
    <3>2. b \in q /\ q \subseteq Tasks
      BY <1>1, <1>5, <2>1, MlfqBestFacts, MlfqFields
    <3>3. s \in Nat /\ s > 0
      BY <2>2, <3>1, QuantumFacts
    <3>4. QED
      BY <3>1, <3>2, <3>3
  <2>4. PICK end : end = SliceEnd(tk[b], s, e.time)
    OBVIOUS
  <2>5. PICK ev : ev = SliceEvent(b, end, c, tk[b].preemptions)
    OBVIOUS
  <2>6. /\ task' = [tk EXCEPT ![b] = Start(MarkDispatched(@, e.time), e.time)]
        /\ running' = [running EXCEPT ![c] = b]
        /\ lastEvent' = [lastEvent EXCEPT ![c] = e.time]
        /\ ev \in events'
    BY <1>5, <2>3, <2>4, <2>5 DEF DispatchNext
  <2>7. running'[0] = b /\ lastEvent'[0] = e.time /\ \A u \in Tasks \ {b} : task'[u] = tk[u]
    BY <1>2, <2>3, <2>6
  <2>8. PICK n : n = MlfqRemoved(p, b)
    OBVIOUS
  <2>9. policy' = n
    BY <1>5, <2>3, <2>8 DEF Dispatched, DrivesMlfq
  <2>10. n.level = p.level /\ MlfqReady(n) = MlfqReady(p) \ {b}
    BY <2>8, MlfqRemovedFacts
  <2>11. SliceBound' = e.time + s
    BY <2>2, <2>7, <2>9, <2>10 DEF SliceBound
  <2>12. now' <= SliceBound'
    BY <1>3, <2>3, <2>11
  <2>13. ev.type = "TIME_SLICE" /\ ev.task = running'[0] /\ ev.time <= SliceBound'
    <3>1. ev.type = "TIME_SLICE" /\ ev.task = b /\ ev.time = end
      BY <2>5 DEF SliceEvent
    <3>2. PICK r \in Nat : r = tk[b].remaining
      BY <2>3 DEF TaskState
    <3>3. SliceLength(s) = s
      BY <2>3 DEF SliceLength
    <3>4. end = e.time + (IF r < s THEN r ELSE s)
      BY <2>4, <3>2, <3>3 DEF SliceEnd
    <3>5. end <= e.time + s
      BY <2>3, <3>2, <3>4
    <3>6. QED
      BY <2>7, <2>11, <3>1, <3>5
  <2>14. ASSUME NEW u \in MlfqReady(n)
         PROVE  InTime(n, u, e.time - task'[u].readyEnter, Others - 1)
    <3>1. u \in MlfqReady(p) /\ u # b /\ u \in Tasks
      BY <1>1, <2>3, <2>10
    <3>2. PICK late : late = e.time - tk[u].readyEnter
      OBVIOUS
    <3>3. PICK j \in Int : j = Others - 1
      OBVIOUS
    <3>4. Others = j + 1
      BY <3>3
    <3>5. InTime(p, u, late, j + 1)
      BY <3>1, <3>2, <3>4 DEF AllInTime
    <3>6. InTime(n, u, late, j)
      BY <2>1, <2>8, <3>1, <3>5, DispatchedInTime
    <3>7. QED
      BY <2>7, <3>1, <3>2, <3>3, <3>6
  <2>15. AllInTime(policy', task', lastEvent'[0], (Others - 1)')
    BY <2>7, <2>9, <2>14 DEF AllInTime, Others
  <2>16. QED
    BY <1>3, <2>6, <2>12, <2>13, <2>15 DEF Timely
<1>6. QED
  BY <1>4, <1>5

\* The task on the only core is charged, in a handler that may have queued an
\* arrival before: object p is the policy, or the policy with the arrival.
LEMMA RunningCharged ==
  ASSUME IInv, DrivesMlfq, NumCores = 1, IsFiniteSet(Tasks),
         InContract(MlfqObjects), HigherPriorityRuns, Timely,
         NEW e, Pop(e), NEW c \in Cores, running[c] # NoTask,
         NEW p \in MlfqObjects, KeepsTop(policy, p), p.sinceBoost = policy.sinceBoost,
         queue \subseteq MlfqReady(p), running[c] \notin MlfqReady(p),
         NEW n, n = MlfqCpuUsed(p, running[c], Elapsed(e, c))
  PROVE  \A u \in queue : InTime(n, u, e.time - task[u].readyEnter, Others)
<1>1. 0 \in Cores /\ c = 0 /\ phase = "running" /\ e \in Earliest(events)
  BY OnlyCore, CoresAssumption DEF Cores, Pop
<1>2. PICK r : r = running[0]
  OBVIOUS
<1>3. PICK d : d = Elapsed(e, c)
  OBVIOUS
<1>4. r \in Tasks /\ d \in Nat /\ ~Idle(0)
  BY <1>1, <1>2, <1>3, RunningTask DEF Idle
<1>5. /\ policy \in MlfqObjects /\ MlfqReady(policy) = queue /\ queue \subseteq Tasks
  BY MlfqFields DEF InContract, DrivesMlfq
<1>6. policy.level \in [Tasks -> Levels] /\ Placed(policy) /\ 0 \in Levels
  BY <1>5, MlfqFields
<1>7. PICK l \in Levels : l = policy.level[r]
  BY <1>4, <1>6
<1>8. PICK start \in Nat : start = lastEvent[0]
  BY <1>1 DEF IInv, Sound, Good, TypesGood
<1>9. e.time \in Nat /\ d = e.time - start /\ task \in [Tasks -> TaskState]
  <2>1. e.time \in Nat
    BY PopFacts, EarliestFacts DEF Consistent
  <2>2. QED
    BY <1>1, <1>3, <1>8, <2>1, PopFacts DEF Elapsed
<1>10. d <= Quantum[l] /\ Quantum[l] \in Nat /\ Quantum[l] <= LongestQuantum
       /\ LongestQuantum \in Nat
  <2>1. PICK s \in events : s.time <= SliceBound /\ e.time <= s.time
    BY <1>1, <1>4, NextEventInSlice
  <2>2. s.time \in Nat
    BY DEF IInv, Sound, Good, TypesGood, Event
  <2>3. SliceBound = start + Quantum[l]
    BY <1>2, <1>7, <1>8 DEF SliceBound
  <2>4. Quantum[l] \in Nat /\ Quantum[l] <= LongestQuantum /\ LongestQuantum \in Nat
    BY QuantumFacts
  <2>5. QED
    BY <1>9, <2>1, <2>2, <2>3, <2>4
<1>11. n \in MlfqObjects /\ MlfqReady(n) = MlfqReady(p)
  BY <1>1, <1>2, <1>3, <1>4, MlfqCpuUsedFacts
<1>12. Others \in Int /\ Len(n.queues[0]) <= Others
  <2>1. n.queues \in [Levels -> Seq(Tasks)] /\ Placed(n) /\ 0 \in Levels
    BY <1>11, MlfqFields
  <2>2. PICK s : s = n.queues[0]
    OBVIOUS
  <2>3. s \in Seq(Tasks) /\ Distinct(s)
    BY <2>1, <2>2 DEF Placed
  <2>4. r \notin ToSet(s)
    BY <1>1, <1>2, <1>11, <2>1, <2>2 DEF MlfqReady
  <2>5. QED
    BY <1>4, <2>2, <2>3, <2>4, QueueLength DEF Others
<1>13. ASSUME NEW u \in queue
       PROVE  InTime(n, u, e.time - task[u].readyEnter, Others)
  <2>1. PICK late \in Int : late = start - task[u].readyEnter
    BY <1>5, <1>9 DEF TaskState
  <2>2. PICK k \in Int : k = Others - 1
    BY <1>12
  <2>3. InTime(policy, u, late, k)
    BY <1>4, <1>5, <1>8, <2>1, <2>2 DEF Timely, AllInTime
  <2>4. late <= p.sinceBoost \/ d <= Quantum[0]
    <3>1. CASE late <= policy.sinceBoost
      BY <3>1
    <3>2. CASE \E i \in DOMAIN policy.queues[0] : policy.queues[0][i] = u
      <4>1. u \in ToSet(policy.queues[0])
        BY <3>2 DEF ToSet
      <4>2. policy.level[u] = 0
        BY <1>6, <4>1 DEF Placed
      <4>3. policy.level[r] <= policy.level[u]
        BY <1>1, <1>2, <1>4 DEF HigherPriorityRuns
      <4>4. l = 0
        BY <1>7, <4>2, <4>3, MLFQAssumption DEF Levels
      <4>5. QED
        BY <1>10, <4>4
    <3>3. QED
      BY <2>3, <3>1, <3>2 DEF InTime
  <2>5. InTime(p, u, late, k)
    BY <2>3, KeptInTime
  <2>6. Len(n.queues[0]) <= k + 1
    BY <1>12, <2>2
  <2>7. d <= LongestQuantum
    BY <1>4, <1>10
  <2>8. u \in MlfqReady(p) /\ r \notin MlfqReady(p) /\ n = MlfqCpuUsed(p, r, d)
    BY <1>1, <1>2, <1>3
  <2>9. InTime(n, u, late + d, k + 1)
    BY <1>4, <2>4, <2>5, <2>6, <2>7, <2>8, ChargedInTime
  <2>10. late + d = e.time - task[u].readyEnter /\ k + 1 = Others
    <3>1. task[u].readyEnter \in Int
      BY <1>5, <1>9 DEF TaskState
    <3>2. QED
      BY <1>9, <1>12, <2>1, <2>2, <3>1
  <2>11. QED
    BY <2>9, <2>10
<1>14. QED
  BY <1>13

\* Whoever enters the ready queue in a handler is in time at its dispatch, if
\* the others are.
LEMMA EndInTime ==
  ASSUME NEW p \in MlfqObjects, NEW S, MlfqReady(p) \subseteq queue \cup S,
         NEW time \in Int, NEW tk, Entered(S, task, tk, time),
         \A u \in queue : InTime(p, u, time - task[u].readyEnter, Others)
  PROVE  AllInTime(p, tk, time, Others)
<1>1. MlfqReady(p) \subseteq Tasks /\ p.sinceBoost \in Nat
  BY MlfqFields
<1>2. ASSUME NEW u \in MlfqReady(p)
      PROVE  InTime(p, u, time - tk[u].readyEnter, Others)
  <2>1. CASE u \in S
    <3>1. tk[u].readyEnter = time
      BY <1>1, <2>1 DEF Entered
    <3>2. time - time = 0 /\ 0 <= p.sinceBoost
      BY <1>1
    <3>3. QED
      BY <3>1, <3>2 DEF InTime
  <2>2. CASE u \notin S
    <3>1. tk[u].readyEnter = task[u].readyEnter /\ u \in queue
      BY <1>1, <2>2 DEF Entered
    <3>2. QED
      BY <3>1
  <2>3. QED
    BY <2>1, <2>2
<1>3. QED
  BY <1>2 DEF AllInTime

\* What the handlers know.
LEMMA HandlerFacts ==
  ASSUME IInv, DrivesMlfq, NumCores = 1, IsFiniteSet(Tasks), InContract(MlfqObjects),
         NEW e, Pop(e)
  PROVE  /\ e.time \in Nat /\ Others \in Int /\ Contract(MlfqObjects)
         /\ running \in [Cores -> Tasks \cup {NoTask}] /\ lastEvent \in [Cores -> Nat]
         /\ policy \in MlfqObjects /\ MlfqReady(policy) = queue
         /\ \A p : Ready(p) = MlfqReady(p)
<1>1. e.time \in Nat
  BY PopFacts, EarliestFacts DEF Consistent
<1>2. Others \in Int
  BY FS_CardinalityType DEF Others
<1>3. running \in [Cores -> Tasks \cup {NoTask}] /\ lastEvent \in [Cores -> Nat]
  BY DEF IInv, Sound, Good, TypesGood
<1>4. policy \in MlfqObjects /\ MlfqReady(policy) = queue /\ \A p : Ready(p) = MlfqReady(p)
  BY DEF InContract, DrivesMlfq
<1>5. QED
  BY <1>1, <1>2, <1>3, <1>4, MlfqContract

\* handle_arrival, the core idle: nobody else is ready.
LEMMA ArrivalToIdleCoreTimely ==
  ASSUME IInv, DrivesMlfq, NumCores = 1, IsFiniteSet(Tasks), InContract(MlfqObjects),
         NEW e, NEW c \in Cores, PolicyArrivalToIdleCore(e, c)
  PROVE  Timely'
<1>1. PICK p : p = AfterArrival(e)
  OBVIOUS
<1>2. PICK tk : tk = Arrived(e)
  OBVIOUS
<1>3. /\ Pop(e) /\ e.type = "ARRIVAL" /\ Idle(c)
      /\ DispatchNext(e, c, tk, queue \cup {e.task}, contextSwitches, Decided(p))
      /\ policy' = Dispatched(p)
  BY <1>1, <1>2 DEF PolicyArrivalToIdleCore, ArrivalToIdleCore
<1>4. /\ e.time \in Nat /\ Others \in Int
      /\ running \in [Cores -> Tasks \cup {NoTask}] /\ lastEvent \in [Cores -> Nat]
      /\ \A x : Ready(x) = MlfqReady(x)
  BY <1>3, HandlerFacts
<1>5. p \in MlfqObjects /\ MlfqReady(p) = queue \cup {e.task}
  BY <1>1, <1>3, MlfqArrival
<1>6. Entered({e.task}, task, tk, e.time) /\ tk \in [Tasks -> TaskState]
  BY <1>2, <1>3, ArrivedTimes
<1>7. queue = {}
  BY <1>3 DEF IInv, WorkConserving
<1>8. AllInTime(p, tk, e.time, Others)
  <2>1. \A u \in queue : InTime(p, u, e.time - task[u].readyEnter, Others)
    BY <1>7
  <2>2. e.time \in Int /\ MlfqReady(p) \subseteq queue \cup {e.task}
    BY <1>4, <1>5
  <2>3. QED
    BY <1>5, <1>6, <2>1, <2>2, EndInTime
<1>9. queue \cup {e.task} = Ready(p)
  BY <1>4, <1>5
<1>10. QED
  BY <1>3, <1>4, <1>5, <1>6, <1>8, <1>9, DispatchTimely

\* handle_arrival, the running task preempted.
LEMMA ArrivalPreemptsTimely ==
  ASSUME IInv, DrivesMlfq, NumCores = 1, IsFiniteSet(Tasks), InContract(MlfqObjects),
         HigherPriorityRuns, Timely,
         NEW e, NEW c \in Cores, PolicyArrivalPreempts(e, c)
  PROVE  Timely'
<1>1. PICK p0 : p0 = AfterArrival(e)
  OBVIOUS
<1>2. PICK t : t = running[c]
  OBVIOUS
<1>3. PICK p1 : p1 = MlfqCpuUsed(p0, t, Elapsed(e, c))
  OBVIOUS
<1>4. PICK p : p = AddedTo(p1, t)
  OBVIOUS
<1>5. PICK tk : tk = Requeued(Charged(Arrived(e), c, e.time), c, e.time)
  OBVIOUS
<1>6. p = AfterPreempt(e, c)
  BY <1>1, <1>2, <1>3, <1>4 DEF AfterPreempt, DrivesMlfq
<1>7. /\ Pop(e) /\ e.type = "ARRIVAL" /\ t # NoTask
      /\ DispatchNext(e, c, tk, queue \cup {e.task, t}, contextSwitches + 1, Decided(p))
      /\ policy' = Dispatched(p)
  BY <1>2, <1>5, <1>6 DEF PolicyArrivalPreempts, ArrivalPreempts, Idle
<1>8. /\ e.time \in Nat /\ Others \in Int
      /\ running \in [Cores -> Tasks \cup {NoTask}] /\ lastEvent \in [Cores -> Nat]
      /\ \A x : Ready(x) = MlfqReady(x)
  BY <1>7, HandlerFacts
<1>9. /\ p0 \in MlfqObjects /\ MlfqReady(p0) = queue \cup {e.task}
      /\ p0.sinceBoost = policy.sinceBoost /\ KeepsTop(policy, p0)
  BY <1>1, <1>7, MlfqArrival
<1>10. t \in Tasks /\ t \notin MlfqReady(p0) /\ Elapsed(e, c) \in Nat
  BY <1>2, <1>7, <1>9, RunningTask, ArrivingTask
<1>11. p1 \in MlfqObjects /\ MlfqReady(p1) = MlfqReady(p0)
  BY <1>3, <1>9, <1>10, MlfqCpuUsedFacts
<1>12. \A u \in queue : InTime(p1, u, e.time - task[u].readyEnter, Others)
  <2>1. queue \subseteq MlfqReady(p0)
    BY <1>9
  <2>2. QED
    BY <1>2, <1>3, <1>7, <1>9, <1>10, <2>1, RunningCharged
<1>13. /\ p \in MlfqObjects /\ MlfqReady(p) = MlfqReady(p1) \cup {t}
       /\ p.sinceBoost = p1.sinceBoost /\ KeepsTop(p1, p)
  BY <1>4, <1>10, <1>11, MlfqAddedTo
<1>14. \A u \in queue : InTime(p, u, e.time - task[u].readyEnter, Others)
  BY <1>12, <1>13, KeptInTime
<1>15. Entered({e.task, t}, task, tk, e.time) /\ tk \in [Tasks -> TaskState]
  BY <1>2, <1>5, <1>7, PreemptTimes
<1>16. AllInTime(p, tk, e.time, Others)
  <2>1. e.time \in Int /\ MlfqReady(p) \subseteq queue \cup {e.task, t}
    BY <1>8, <1>9, <1>11, <1>13
  <2>2. QED
    BY <1>13, <1>14, <1>15, <2>1, EndInTime
<1>17. queue \cup {e.task, t} = Ready(p)
  BY <1>8, <1>9, <1>11, <1>13
<1>18. QED
  BY <1>7, <1>8, <1>13, <1>15, <1>16, <1>17, DispatchTimely

\* The on_cpu_used of handle_time_slice.
LEMMA SliceTimely ==
  ASSUME IInv, DrivesMlfq, NumCores = 1, IsFiniteSet(Tasks), InContract(MlfqObjects),
         HigherPriorityRuns, Timely, NEW e, Pop(e), Hits(e), NEW p, p = AfterSlice(e)
  PROVE  /\ p \in MlfqObjects /\ MlfqReady(p) = queue
         /\ e.core \in Cores /\ e.task \in Tasks /\ e.task \notin queue
         /\ \A u \in queue : InTime(p, u, e.time - task[u].readyEnter, Others)
<1>1. policy \in MlfqObjects /\ MlfqReady(policy) = queue
  BY HandlerFacts
<1>2. e.core \in Cores /\ e.task \in Tasks /\ running[e.core] = e.task
  BY PopFacts DEF Hits
<1>3. running[e.core] # NoTask
  BY <1>2, NoTaskAssumption
<1>4. e.task \notin queue /\ Elapsed(e, e.core) \in Nat
  BY <1>2, <1>3, RunningTask
<1>5. p = MlfqCpuUsed(policy, e.task, Elapsed(e, e.core))
  BY DEF AfterSlice, DrivesMlfq
<1>6. p \in MlfqObjects /\ MlfqReady(p) = MlfqReady(policy)
  BY <1>1, <1>2, <1>4, <1>5, MlfqCpuUsedFacts
<1>7. KeepsTop(policy, policy)
  BY DEF KeepsTop
<1>8. \A u \in queue : InTime(p, u, e.time - task[u].readyEnter, Others)
  <2>1. queue \subseteq MlfqReady(policy) /\ running[e.core] \notin MlfqReady(policy)
    BY <1>1, <1>2, <1>4
  <2>2. p = MlfqCpuUsed(policy, running[e.core], Elapsed(e, e.core))
    BY <1>2, <1>5
  <2>3. QED
    BY <1>1, <1>2, <1>3, <1>7, <2>1, <2>2, RunningCharged
<1>9. QED
  BY <1>1, <1>2, <1>4, <1>6, <1>8

\* handle_time_slice, the task done.
LEMMA SliceCompletesTimely ==
  ASSUME IInv, DrivesMlfq, NumCores = 1, IsFiniteSet(Tasks), InContract(MlfqObjects),
         HigherPriorityRuns, Timely, NEW e, PolicySliceCompletes(e)
  PROVE  Timely'
<1>1. PICK p : p = AfterSlice(e)
  OBVIOUS
<1>2. PICK tk : tk = [Charged(task, e.core, e.time) EXCEPT ![e.task] = Complete(@, e.time)]
  OBVIOUS
<1>3. /\ Pop(e) /\ Hits(e)
      /\ IsCompleted(Charged(task, e.core, e.time)[e.task])
      /\ DispatchNext(e, e.core, tk, queue, contextSwitches, Decided(p))
      /\ policy' = Dispatched(p)
  BY <1>1, <1>2 DEF PolicySliceCompletes, SliceCompletes
<1>4. /\ e.time \in Nat /\ Others \in Int
      /\ running \in [Cores -> Tasks \cup {NoTask}] /\ lastEvent \in [Cores -> Nat]
      /\ \A x : Ready(x) = MlfqReady(x)
  BY <1>3, HandlerFacts
<1>5. /\ p \in MlfqObjects /\ MlfqReady(p) = queue /\ e.core \in Cores
      /\ \A u \in queue : InTime(p, u, e.time - task[u].readyEnter, Others)
  BY <1>1, <1>3, SliceTimely
<1>6. Entered({}, task, tk, e.time) /\ tk \in [Tasks -> TaskState]
  BY <1>2, <1>3, CompleteTimes
<1>7. AllInTime(p, tk, e.time, Others)
  <2>1. e.time \in Int /\ MlfqReady(p) \subseteq queue \cup {}
    BY <1>4, <1>5
  <2>2. QED
    BY <1>5, <1>6, <2>1, EndInTime
<1>8. queue = Ready(p)
  BY <1>4, <1>5
<1>9. QED
  BY <1>3, <1>4, <1>5, <1>6, <1>7, <1>8, DispatchTimely

\* handle_time_slice, the task to go on.
LEMMA SliceExpiresTimely ==
  ASSUME IInv, DrivesMlfq, NumCores = 1, IsFiniteSet(Tasks), InContract(MlfqObjects),
         HigherPriorityRuns, Timely, NEW e, PolicySliceExpires(e)
  PROVE  Timely'
<1>1. PICK p0 : p0 = AfterSlice(e)
  OBVIOUS
<1>2. PICK p : p = AddedTo(p0, e.task)
  OBVIOUS
<1>3. PICK tk : tk = Requeued(Charged(task, e.core, e.time), e.core, e.time)
  OBVIOUS
<1>4. /\ Pop(e) /\ Hits(e)
      /\ DispatchNext(e, e.core, tk, queue \cup {e.task}, contextSwitches, Decided(p))
      /\ policy' = Dispatched(p)
  BY <1>1, <1>2, <1>3 DEF PolicySliceExpires, SliceExpires
<1>5. /\ e.time \in Nat /\ Others \in Int
      /\ running \in [Cores -> Tasks \cup {NoTask}] /\ lastEvent \in [Cores -> Nat]
      /\ \A x : Ready(x) = MlfqReady(x)
  BY <1>4, HandlerFacts
<1>6. /\ p0 \in MlfqObjects /\ MlfqReady(p0) = queue /\ e.core \in Cores
      /\ e.task \in Tasks /\ e.task \notin queue
      /\ \A u \in queue : InTime(p0, u, e.time - task[u].readyEnter, Others)
  BY <1>1, <1>4, SliceTimely
<1>7. /\ p \in MlfqObjects /\ MlfqReady(p) = queue \cup {e.task}
      /\ p.sinceBoost = p0.sinceBoost /\ KeepsTop(p0, p)
  BY <1>2, <1>6, MlfqAddedTo
<1>8. \A u \in queue : InTime(p, u, e.time - task[u].readyEnter, Others)
  BY <1>6, <1>7, KeptInTime
<1>9. Entered({e.task}, task, tk, e.time) /\ tk \in [Tasks -> TaskState]
  BY <1>3, <1>4, ExpireTimes
<1>10. AllInTime(p, tk, e.time, Others)
  <2>1. e.time \in Int /\ MlfqReady(p) \subseteq queue \cup {e.task}
    BY <1>5, <1>7
  <2>2. QED
    BY <1>7, <1>8, <1>9, <2>1, EndInTime
<1>11. queue \cup {e.task} = Ready(p)
  BY <1>5, <1>7
<1>12. QED
  BY <1>4, <1>5, <1>6, <1>7, <1>9, <1>10, <1>11, DispatchTimely

\* The end of a slice is a time.
LEMMA SliceBoundInt ==
  ASSUME IInv, DrivesMlfq, InContract(MlfqObjects), ~Idle(0)
  PROVE  SliceBound \in Nat /\ lastEvent[0] \in Nat /\ running[0] \in Tasks
<1>1. 0 \in Cores
  BY CoresAssumption DEF Cores
<1>2. running \in [Cores -> Tasks \cup {NoTask}] /\ lastEvent \in [Cores -> Nat]
  BY DEF IInv, Sound, Good, TypesGood
<1>3. running[0] \in Tasks /\ lastEvent[0] \in Nat
  BY <1>1, <1>2 DEF Idle
<1>4. policy.level[running[0]] \in Levels
  BY <1>3, MlfqFields DEF InContract
<1>5. Quantum[policy.level[running[0]]] \in Nat
  BY <1>4, QuantumFacts
<1>6. QED
  BY <1>3, <1>5 DEF SliceBound

\* Until run() stops, the next event comes within the slice, by its own time.
LEMMA NextEventTime ==
  ASSUME IInv, DrivesMlfq, InContract(MlfqObjects), Timely, ~Idle(0), phase = "running",
         NEW e \in Earliest(events)
  PROVE  e.time \in Nat /\ e.time <= SliceBound
<1>1. PICK s \in events : s.time <= SliceBound /\ e.time <= s.time
  BY NextEventInSlice
<1>2. e \in events
  BY DEF Earliest
<1>3. s.time \in Nat /\ e.time \in Nat
  BY <1>2 DEF IInv, Sound, Good, TypesGood, Event
<1>4. SliceBound \in Nat
  BY SliceBoundInt
<1>5. QED
  BY <1>1, <1>3, <1>4

\* handle_arrival, no preemption: the newcomer has not waited yet.
LEMMA ArrivalWaitsTimely ==
  ASSUME IInv, DrivesMlfq, NumCores = 1, IsFiniteSet(Tasks), InContract(MlfqObjects),
         Timely, NEW e, PolicyArrivalWaits(e)
  PROVE  Timely'
<1>1. PICK p : p = AfterArrival(e)
  OBVIOUS
<1>2. /\ Pop(e) /\ e.type = "ARRIVAL" /\ \A b \in Cores : running[b] # NoTask
      /\ task' = Arrived(e) /\ events' = events \ {e} /\ running' = running
      /\ lastEvent' = lastEvent /\ policy' = p
      /\ phase = "running" /\ phase' = phase /\ now' = e.time /\ e \in Earliest(events)
  BY <1>1 DEF PolicyArrivalWaits, ArrivalWaits, Idle, Pop
<1>3. 0 \in Cores /\ ~Idle(0)
  BY <1>2, CoresAssumption DEF Cores, Idle
<1>4. PICK r : r = running[0]
  OBVIOUS
<1>5. r \in Tasks /\ r # e.task
  BY <1>2, <1>3, <1>4, RunningTask, ArrivingTask
<1>6. /\ p \in MlfqObjects /\ MlfqReady(p) = queue \cup {e.task}
      /\ p.sinceBoost = policy.sinceBoost /\ KeepsTop(policy, p)
      /\ p.level[r] = policy.level[r]
  BY <1>1, <1>2, <1>5, MlfqArrival
<1>7. SliceBound' = SliceBound
  BY <1>2, <1>4, <1>6 DEF SliceBound
<1>8. PICK s \in events :
        s.type = "TIME_SLICE" /\ s.task = r /\ s.time <= SliceBound /\ e.time <= s.time
  BY <1>2, <1>3, <1>4, NextEventInSlice
<1>9. e.time <= SliceBound /\ e.time \in Nat /\ lastEvent[0] \in Nat
      /\ lastEvent[0] <= e.time
  <2>1. e.time \in Nat /\ e.time <= SliceBound /\ lastEvent[0] \in Nat
    BY <1>2, <1>3, NextEventTime, SliceBoundInt
  <2>2. e.time - lastEvent[0] \in Nat
    BY <1>2, <1>3, RunningTask DEF Elapsed
  <2>3. QED
    BY <2>1, <2>2
<1>10. now' <= SliceBound'
  BY <1>2, <1>7, <1>9
<1>11. s \in events' /\ s.task = running'[0]
  BY <1>2, <1>4, <1>8
<1>12. Entered({e.task}, task, task', e.time)
  BY <1>2, ArrivedTimes
<1>13. ASSUME NEW u \in MlfqReady(p)
       PROVE  InTime(p, u, lastEvent[0] - task'[u].readyEnter, Others - 1)
  <2>1. MlfqReady(p) \subseteq Tasks /\ p.sinceBoost \in Nat
    BY <1>6, MlfqFields
  <2>2. CASE u = e.task
    <3>1. task'[u].readyEnter = e.time
      BY <1>12, <2>1, <2>2 DEF Entered
    <3>2. lastEvent[0] - e.time <= p.sinceBoost
      BY <1>9, <2>1
    <3>3. QED
      BY <3>1, <3>2 DEF InTime
  <2>3. CASE u # e.task
    <3>1. u \in queue /\ task'[u].readyEnter = task[u].readyEnter
      BY <1>6, <1>12, <2>1, <2>3 DEF Entered
    <3>2. u \in MlfqReady(policy)
      BY <3>1 DEF InContract, DrivesMlfq
    <3>3. InTime(policy, u, lastEvent[0] - task[u].readyEnter, Others - 1)
      BY <1>3, <3>2 DEF Timely, AllInTime
    <3>4. QED
      BY <1>6, <3>1, <3>3, KeptInTime
  <2>4. QED
    BY <2>2, <2>3
<1>14. AllInTime(policy', task', lastEvent'[0], (Others - 1)')
  BY <1>2, <1>13 DEF AllInTime, Others
<1>15. QED
  BY <1>2, <1>7, <1>8, <1>10, <1>11, <1>14 DEF Timely

\* A step that changes neither the tasks nor the policy.
LEMMA QuietTimely ==
  ASSUME Timely, policy' = policy, task' = task, running' = running,
         lastEvent' = lastEvent,
         phase # "setup" /\ ~Idle(0) =>
           /\ phase' # "setup" /\ now' <= SliceBound
           /\ phase' = "running" =>
                /\ phase = "running"
                /\ \A s \in events :
                     s.type = "TIME_SLICE" /\ s.task = running[0] => s \in events'
  PROVE  Timely'
<1>1. SliceBound' = SliceBound /\ Idle(0)' = Idle(0) /\ running'[0] = running[0]
  BY DEF SliceBound, Idle
<1>2. AllInTime(policy', task', lastEvent'[0], (Others - 1)')
        = AllInTime(policy, task, lastEvent[0], Others - 1)
  BY DEF AllInTime, Others
<1>3. QED
  BY <1>1, <1>2 DEF Timely

\* An event that is not the running task's.
LEMMA SliceIgnoredTimely ==
  ASSUME IInv, DrivesMlfq, NumCores = 1, InContract(MlfqObjects),
         Timely, NEW e, SliceIgnored(e), policy' = policy
  PROVE  Timely'
<1>1. /\ Pop(e) /\ e.type = "TIME_SLICE" /\ running[e.core] # e.task
      /\ task' = task /\ running' = running /\ lastEvent' = lastEvent
      /\ events' = events \ {e}
      /\ phase = "running" /\ phase' = phase /\ now' = e.time /\ e \in Earliest(events)
  BY DEF SliceIgnored, Hits, Pop
<1>2. running[0] # e.task
  <2>1. e.core \in Cores /\ 0 \in Cores
    BY <1>1, PopFacts, CoresAssumption DEF Cores
  <2>2. e.core = 0
    BY <2>1, OnlyCore
  <2>3. QED
    BY <1>1, <2>2
<1>3. ~Idle(0) => e.time <= SliceBound
  BY <1>1, NextEventTime
<1>4. QED
  BY <1>1, <1>2, <1>3, QuietTimely

\* run returns at the stop time, before the end of the slice.
LEMMA StopAtLimitTimely ==
  ASSUME IInv, DrivesMlfq, InContract(MlfqObjects), Timely,
         NEW e, StopAtLimit(e), policy' = policy
  PROVE  Timely'
<1>1. /\ phase = "running" /\ phase' = "stopped" /\ e \in Earliest(events)
      /\ e.time > stopTime /\ now' = stopTime
      /\ task' = task /\ running' = running /\ lastEvent' = lastEvent
  BY DEF StopAtLimit
<1>2. ~Idle(0) => now' <= SliceBound
  <2> SUFFICES ASSUME ~Idle(0)
               PROVE  now' <= SliceBound
    OBVIOUS
  <2>1. e.time \in Nat /\ e.time <= SliceBound /\ SliceBound \in Nat
    BY <1>1, NextEventTime, SliceBoundInt
  <2>2. stopTime \in Nat
    BY <1>1 DEF IInv, Sound
  <2>3. QED
    BY <1>1, <2>1, <2>2
<1>3. QED
  BY <1>1, <1>2, QuietTimely

\* No step takes a task out of time.
LEMMA StepTimely ==
  ASSUME IInv, DrivesMlfq, NumCores = 1, IsFiniteSet(Tasks), InContract(MlfqObjects),
         HigherPriorityRuns, Timely, [PolicyNext]_policyVars
  PROVE  Timely'
<1>1. CASE \E e \in events, c \in Cores : PolicyArrivalToIdleCore(e, c)
  BY <1>1, ArrivalToIdleCoreTimely
<1>2. CASE \E e \in events, c \in Cores : PolicyArrivalPreempts(e, c)
  BY <1>2, ArrivalPreemptsTimely
<1>3. CASE \E e \in events : PolicyArrivalWaits(e)
  BY <1>3, ArrivalWaitsTimely
<1>4. CASE \E e \in events : PolicySliceCompletes(e)
  BY <1>4, SliceCompletesTimely
<1>5. CASE \E e \in events : PolicySliceExpires(e)
  BY <1>5, SliceExpiresTimely
<1>6. CASE \E e \in events : SliceIgnored(e) /\ UNCHANGED policy
  BY <1>6, SliceIgnoredTimely
<1>7. CASE \E e \in events : StopAtLimit(e) /\ UNCHANGED policy
  BY <1>7, StopAtLimitTimely
<1>8. CASE \E t \in Tasks : AddTask(t) /\ UNCHANGED policy
  BY <1>8, QuietTimely DEF AddTask
<1>9. CASE \E stop \in StopTimes : Run(stop) /\ UNCHANGED policy
  BY <1>9, QuietTimely DEF Run
<1>10. CASE Drain /\ UNCHANGED policy
  <2>1. ~Idle(0) => now <= SliceBound
    BY DEF Timely
  <2>2. QED
    BY <1>10, <2>1, QuietTimely DEF Drain
<1>11. CASE (Returned /\ UNCHANGED policy) \/ UNCHANGED policyVars
  <2>1. ~Idle(0) => now <= SliceBound
    BY DEF Timely
  <2>2. /\ policy' = policy /\ task' = task /\ running' = running
        /\ lastEvent' = lastEvent /\ now' = now /\ phase' = phase /\ events' = events
    BY <1>11 DEF Returned, policyVars, vars
  <2>3. QED
    BY <2>1, <2>2, QuietTimely
<1>12. QED
  BY <1>1, <1>2, <1>3, <1>4, <1>5, <1>6, <1>7, <1>8, <1>9, <1>10, <1>11 DEF PolicyNext

\* A later position is reached at least one turn earlier.
LEMMA TurnsOrder ==
  ASSUME NEW k \in Int, NEW i \in Nat, i >= 1
  PROVE  Turns(k, i) \in Int /\ Turns(k, i) + Quantum[0] <= Turns(k, 0)
<1>1. PICK m \in Nat : m = Quantum[0]
  BY QuantumFacts
<1>2. (k - i) * m \in Int
  OBVIOUS
<1>3. (k - 0) * m = (k - i) * m + m + (i - 1) * m
  OBVIOUS
<1>4. (i - 1) * m >= 0
  <2>1. i - 1 \in Nat
    OBVIOUS
  <2>2. \A x \in Nat : x * m \in Nat
    OBVIOUS
  <2>3. QED
    BY <2>1, <2>2
<1>5. (i - 1) * m \in Int /\ (k - 0) * m \in Int
  OBVIOUS
<1>6. QED
  BY <1>1, <1>2, <1>3, <1>4, <1>5 DEF Turns

\* A task that is in time waits no longer than the bound.
LEMMA TimelyBound ==
  ASSUME IInv, DrivesMlfq, NumCores = 1, IsFiniteSet(Tasks), InContract(MlfqObjects),
         HigherPriorityRuns, Timely, NEW t \in queue
  PROVE  now - task[t].readyEnter
           <= BoostInterval + LongestQuantum + (Cardinality(Tasks) - 2) * Quantum[0]
<1>1. 0 \in Cores /\ ~Idle(0)
  BY CoresAssumption DEF Cores, IInv, WorkConserving
<1>2. /\ policy \in MlfqObjects /\ MlfqReady(policy) = queue /\ queue \subseteq Tasks
      /\ policy.level \in [Tasks -> Levels] /\ Placed(policy)
      /\ policy.sinceBoost \in Nat /\ policy.sinceBoost < BoostInterval
      /\ policy.queues \in [Levels -> Seq(Tasks)]
  BY MlfqFields DEF InContract, DrivesMlfq
<1>3. PICK r \in Tasks : r = running[0]
  BY <1>1, SliceBoundInt
<1>4. PICK start \in Nat : start = lastEvent[0]
  BY <1>1, SliceBoundInt
<1>5. PICK l \in Levels : l = policy.level[r]
  BY <1>2
<1>6. PICK q \in Nat : q = Quantum[l]
  BY QuantumFacts
<1>7. PICK enter \in Nat : enter = task[t].readyEnter
  <2>1. task \in [Tasks -> TaskState]
    BY DEF IInv, Sound, Good, TypesGood
  <2>2. QED
    BY <1>2, <2>1 DEF TaskState
<1>8. PICK time \in Nat : time = now
  BY DEF IInv, Sound, Good, TypesGood
<1>9. time <= start + q
  BY <1>1, <1>3, <1>4, <1>5, <1>6, <1>8 DEF Timely, SliceBound
<1>10. PICK n \in Nat : n = Cardinality(Tasks)
  BY FS_CardinalityType
<1>11. n >= 2
  <2>1. r # t
    <3>1. r \notin queue
      BY <1>1, <1>3 DEF IInv, Sound, Good, PlacesGood
    <3>2. QED
      BY <3>1
  <2>2. PICK s : s = <<t>>
    OBVIOUS
  <2>3. s \in Seq(Tasks) /\ Len(s) = 1 /\ DOMAIN s = {1} /\ s[1] = t
    BY <1>2, <2>2
  <2>4. Distinct(s) /\ r \notin ToSet(s)
    BY <2>1, <2>3 DEF Distinct, ToSet
  <2>5. Len(s) <= Cardinality(Tasks) - 1
    BY <2>3, <2>4, QueueLength
  <2>6. QED
    BY <1>10, <2>3, <2>5
<1>12. PICK k \in Int : k = n - 2
  OBVIOUS
<1>13. PICK b \in Nat : b = BoostInterval
  BY MLFQAssumption
<1>14. PICK longest \in Nat : longest = LongestQuantum
  BY QuantumFacts
<1>15. q <= longest /\ Quantum[0] \in Nat
  BY <1>6, <1>14, QuantumFacts
<1>16. Turns(k, 0) \in Int /\ Turns(k, 0) >= 0 /\ Turns(k, 0) = (n - 2) * Quantum[0]
  <2>1. Turns(k, 0) \in Int /\ (0 <= k => Turns(k, 0) >= 0)
    BY TurnsFacts
  <2>2. k - 0 = n - 2
    BY <1>12
  <2>3. QED
    BY <1>11, <1>12, <2>1, <2>2 DEF Turns
<1>17. InTime(policy, t, start - enter, k)
  <2>1. Others - 1 = k
    BY <1>10, <1>12 DEF Others
  <2>2. QED
    BY <1>1, <1>2, <1>4, <1>7, <2>1 DEF Timely, AllInTime
<1>18. CASE start - enter <= policy.sinceBoost
  <2>1. time - enter <= b + longest + Turns(k, 0)
    BY <1>2, <1>9, <1>13, <1>15, <1>16, <1>18
  <2>2. QED
    BY <1>7, <1>8, <1>10, <1>13, <1>14, <1>16, <2>1
<1>19. ASSUME NEW i \in DOMAIN policy.queues[0], policy.queues[0][i] = t, i <= k,
              start - enter <= BoostInterval + LongestQuantum - 1 + Turns(k, i)
       PROVE  time - enter <= b + longest + Turns(k, 0)
  <2>1. i \in Nat /\ i >= 1
    <3>1. PICK s \in Seq(Tasks) : s = policy.queues[0]
      BY <1>2, QuantumFacts
    <3>2. QED
      BY <3>1
  <2>2. policy.level[t] = 0
    <3>1. t \in ToSet(policy.queues[0])
      BY <1>19 DEF ToSet
    <3>2. QED
      BY <1>2, <3>1, QuantumFacts DEF Placed
  <2>3. policy.level[r] <= policy.level[t]
    BY <1>1, <1>3 DEF HigherPriorityRuns
  <2>4. l = 0
    BY <1>5, <2>2, <2>3, MLFQAssumption DEF Levels
  <2>5. Turns(k, i) \in Int /\ Turns(k, i) + Quantum[0] <= Turns(k, 0)
    BY <1>15, <2>1, TurnsOrder
  <2>6. q = Quantum[0]
    BY <1>6, <2>4
  <2>7. start - enter <= b + longest - 1 + Turns(k, i)
    BY <1>13, <1>14, <1>19
  <2>8. QED
    BY <1>9, <1>16, <2>5, <2>6, <2>7
<1>20. CASE ~(start - enter <= policy.sinceBoost)
  <2>1. time - enter <= b + longest + Turns(k, 0)
    BY <1>17, <1>19, <1>20 DEF InTime
  <2>2. QED
    BY <1>7, <1>8, <1>10, <1>13, <1>14, <1>16, <2>1
<1>21. QED
  BY <1>18, <1>20

\* On one core no task waits longer than the boost interval, a quantum of any
\* level, and a quantum of the top level for each task but itself and the
\* running one, whatever arrives and however tasks are demoted meanwhile.
THEOREM MlfqStarvationBounded ==
  ASSUME DrivesMlfq, NumCores = 1, IsFiniteSet(Tasks)
  PROVE  PolicySpec => []StarvationBounded
<1>1. PolicyInit => InContract(MlfqObjects) /\ HigherPriorityRuns /\ Timely
  <2>1. PolicyInit => HigherPriorityRuns
    BY DEF PolicyInit, Init, HigherPriorityRuns
  <2>2. PolicyInit => Timely
    <3>1. 0 \in Cores
      BY CoresAssumption DEF Cores
    <3>2. QED
      BY <3>1 DEF PolicyInit, Init, Timely, Idle
  <2>3. QED
    BY <2>1, <2>2, MlfqContract, PolicyInitFacts
<1>2. IInv /\ InContract(MlfqObjects) /\ HigherPriorityRuns /\ Timely
        /\ [PolicyNext]_policyVars
        => InContract(MlfqObjects)' /\ HigherPriorityRuns' /\ Timely'
  BY MlfqContract, PolicyStepFacts, StepRunsHighest, StepTimely
<1>3. IInv /\ InContract(MlfqObjects) /\ HigherPriorityRuns /\ Timely => StarvationBounded
  BY TimelyBound DEF StarvationBounded
<1>4. QED
  BY <1>1, <1>2, <1>3, PolicyInvariance, PTL DEF PolicySpec

-----------------------------------------------------------------------------
(* EEVDF *)

\* The element of s that MapThenSumSet takes first.
Some(s) == CHOOSE x \in s : TRUE

\* One step of the computation of a sum of f, with g for the smaller sets.
SumStep(f, s, g) == IF s = {} THEN 0 ELSE f[Some(s)] + g[s \ {Some(s)}]

Sums(S, f, g) == g = [s \in SUBSET S |-> SumStep(f, s, g)]

\* The same for sets of at most n elements.
SumsUpTo(S, f, n, g) ==
  /\ g \in [SUBSET S -> Nat]
  /\ \A s \in SUBSET S : Cardinality(s) <= n => g[s] = SumStep(f, s, g)

\* An element less.
LEMMA SomeFacts ==
  ASSUME NEW S, IsFiniteSet(S), NEW s \in SUBSET S, s # {}
  PROVE  /\ Some(s) \in S /\ Some(s) \in s /\ s \ {Some(s)} \in SUBSET S
         /\ Cardinality(s) \in Nat /\ Cardinality(s \ {Some(s)}) = Cardinality(s) - 1
         /\ Cardinality(s \ {Some(s)}) \in Nat
<1>1. Some(s) \in s
  BY Zenon DEF Some
<1>2. IsFiniteSet(s)
  BY FS_Subset
<1>3. Cardinality(s) \in Nat
  BY <1>2, FS_CardinalityType
<1>4. IsFiniteSet(s \ {Some(s)}) /\ Cardinality(s \ {Some(s)}) = Cardinality(s) - 1
  BY <1>1, <1>2, FS_RemoveElement
<1>5. Cardinality(s \ {Some(s)}) \in Nat
  BY <1>4, FS_CardinalityType
<1>6. QED
  BY <1>1, <1>3, <1>4, <1>5

\* One element more.
LEMMA SumsExtend ==
  ASSUME NEW S, IsFiniteSet(S), NEW f \in [S -> Nat], NEW n \in Nat, NEW g, SumsUpTo(S, f, n, g)
  PROVE  \E h : SumsUpTo(S, f, n + 1, h)
<1>1. PICK h : h = [s \in SUBSET S |-> SumStep(f, s, g)]
  OBVIOUS
<1>2. ASSUME NEW s \in SUBSET S
      PROVE  SumStep(f, s, g) \in Nat
  <2>1. CASE s = {}
    BY <2>1 DEF SumStep
  <2>2. CASE s # {}
    <3>1. f[Some(s)] \in Nat /\ g[s \ {Some(s)}] \in Nat
      BY <2>2, SomeFacts DEF SumsUpTo
    <3>2. QED
      BY <2>2, <3>1 DEF SumStep
  <2>3. QED
    BY <2>1, <2>2
<1>3. h \in [SUBSET S -> Nat]
  BY <1>1, <1>2
<1>4. ASSUME NEW s \in SUBSET S, Cardinality(s) <= n + 1
      PROVE  h[s] = SumStep(f, s, h)
  <2>1. CASE s = {}
    BY <1>1, <2>1 DEF SumStep
  <2>2. CASE s # {}
    <3>1. PICK r : r = s \ {Some(s)}
      OBVIOUS
    <3>2. r \in SUBSET S /\ Cardinality(r) <= n
      BY <1>4, <2>2, <3>1, SomeFacts
    <3>3. g[r] = SumStep(f, r, g)
      BY <3>2 DEF SumsUpTo
    <3>4. h[r] = g[r]
      BY <1>1, <3>2, <3>3
    <3>5. h[s] = f[Some(s)] + g[r]
      BY <1>1, <2>2, <3>1 DEF SumStep
    <3>6. QED
      BY <2>2, <3>1, <3>4, <3>5 DEF SumStep
  <2>3. QED
    BY <2>1, <2>2
<1>5. QED
  BY <1>3, <1>4 DEF SumsUpTo

\* There is a function that sums.
LEMMA SumsExist ==
  ASSUME NEW S, IsFiniteSet(S), NEW f \in [S -> Nat]
  PROVE  \E g : Sums(S, f, g)
<1>1. PICK n \in Nat : n = Cardinality(S)
  BY FS_CardinalityType
<1> DEFINE A == {i \in 0 .. n : \E g : SumsUpTo(S, f, i, g)}
<1>2. 0 \in A
  <2>1. PICK g : g = [s \in SUBSET S |-> 0]
    OBVIOUS
  <2>2. g \in [SUBSET S -> Nat]
    BY <2>1
  <2>3. ASSUME NEW s \in SUBSET S, Cardinality(s) <= 0
        PROVE  g[s] = SumStep(f, s, g)
    <3>1. s = {}
      <4>1. IsFiniteSet(s)
        BY FS_Subset
      <4>2. Cardinality(s) \in Nat
        BY <4>1, FS_CardinalityType
      <4>3. Cardinality(s) = 0
        BY <2>3, <4>2
      <4>4. QED
        BY <4>1, <4>3, FS_EmptySet
    <3>2. QED
      BY <2>1, <3>1 DEF SumStep
  <2>4. SumsUpTo(S, f, 0, g)
    BY <2>2, <2>3 DEF SumsUpTo
  <2>5. QED
    BY <2>4
<1>3. ASSUME NEW i \in 1 .. n, i - 1 \in A
      PROVE  i \in A
  <2>1. PICK j \in Nat : j = i - 1
    OBVIOUS
  <2>2. PICK g : SumsUpTo(S, f, j, g)
    BY <1>3, <2>1
  <2>3. \E h : SumsUpTo(S, f, j + 1, h)
    BY <2>2, SumsExtend
  <2>4. j + 1 = i /\ i \in 0 .. n
    BY <2>1
  <2>5. QED
    BY <2>3, <2>4
<1> HIDE DEF A
<1>4. n \in A
  <2>1. 0 .. n \subseteq A
    BY <1>2, <1>3, UpTo
  <2>2. QED
    BY <2>1
<1>5. PICK g : SumsUpTo(S, f, n, g)
  BY <1>4 DEF A
<1>6. \A s \in SUBSET S : Cardinality(s) <= n
  BY <1>1, FS_Subset
<1>7. Sums(S, f, g)
  BY <1>5, <1>6 DEF SumsUpTo, Sums
<1>8. QED
  BY <1>7

\* What sums is a natural number, and no less than any summand.
LEMMA SumsNatural ==
  ASSUME NEW S, IsFiniteSet(S), NEW f \in [S -> Nat], NEW g, Sums(S, f, g)
  PROVE  \A s \in SUBSET S : g[s] \in Nat /\ \A x \in s : f[x] <= g[s]
<1>1. PICK n \in Nat : n = Cardinality(S)
  BY FS_CardinalityType
<1>2. \A s \in SUBSET S : Cardinality(s) \in 0 .. n
  BY <1>1, FS_Subset, FS_CardinalityType
<1>3. \A s \in SUBSET S : g[s] = SumStep(f, s, g)
  BY DEF Sums
<1> DEFINE Adds(s) == g[s] \in Nat /\ \A x \in s : f[x] <= g[s]
           A == {i \in 0 .. n : \A s \in SUBSET S : Cardinality(s) = i => Adds(s)}
<1>4. 0 \in A
  <2>1. ASSUME NEW s \in SUBSET S, Cardinality(s) = 0
        PROVE  Adds(s)
    <3>1. s = {}
      BY <2>1, FS_Subset, FS_EmptySet
    <3>2. g[s] = SumStep(f, s, g)
      BY <1>3
    <3>3. SumStep(f, s, g) = 0
      BY <3>1 DEF SumStep
    <3>4. QED
      BY <3>1, <3>2, <3>3
  <2>2. QED
    BY <2>1
<1>5. ASSUME NEW i \in 1 .. n, i - 1 \in A
      PROVE  i \in A
  <2>1. ASSUME NEW s \in SUBSET S, Cardinality(s) = i
        PROVE  Adds(s)
    <3>1. s # {}
      BY <2>1, FS_EmptySet
    <3>2. PICK x, r : x = Some(s) /\ r = s \ {x}
      OBVIOUS
    <3>3. x \in S /\ r \in SUBSET S /\ Cardinality(r) = i - 1
      BY <2>1, <3>1, <3>2, SomeFacts
    <3>4. Adds(r)
      BY <1>5, <3>3
    <3>5. f[x] \in Nat
      BY <3>3
    <3>6. g[s] = f[x] + g[r]
      BY <1>3, <3>1, <3>2 DEF SumStep
    <3>7. g[s] \in Nat /\ f[x] <= g[s] /\ g[r] <= g[s]
      BY <3>4, <3>5, <3>6
    <3>8. ASSUME NEW y \in s
          PROVE  f[y] <= g[s]
      <4>1. CASE y = x
        BY <3>7, <4>1
      <4>2. CASE y # x
        <5>1. f[y] <= g[r] /\ f[y] \in Nat
          BY <3>2, <3>4, <4>2
        <5>2. QED
          BY <3>4, <3>7, <5>1
      <4>3. QED
        BY <4>1, <4>2
    <3>9. QED
      BY <3>7, <3>8
  <2>2. QED
    BY <2>1
<1> HIDE DEF A, Adds
<1>6. 0 .. n \subseteq A
  BY <1>4, <1>5, UpTo
<1>7. ASSUME NEW s \in SUBSET S
      PROVE  Adds(s)
  <2>1. Cardinality(s) \in A
    BY <1>2, <1>6
  <2>2. QED
    BY <2>1 DEF A
<1>8. QED
  BY <1>7 DEF Adds

\* A function on a finite set has a greatest value.
LEMMA GreatestValue ==
  ASSUME NEW S, IsFiniteSet(S), S # {}, NEW f \in [S -> Nat]
  PROVE  \E x \in S : \A y \in S : f[y] <= f[x]
<1>1. PICK g : Sums(S, f, g)
  BY SumsExist
<1> DEFINE Bounds == {u \in Nat : \A y \in S : f[y] <= u}
<1>2. g[S] \in Bounds
  <2>1. g[S] \in Nat /\ \A y \in S : f[y] <= g[S]
    BY <1>1, SumsNatural
  <2>2. QED
    BY <2>1
<1>3. \A u \in Nat : u \in Bounds <=> \A y \in S : f[y] <= u
  OBVIOUS
<1>4. Bounds \in SUBSET Nat /\ Bounds # {}
  BY <1>2
<1> HIDE DEF Bounds
<1>5. PICK u \in Bounds : \A v \in Bounds : u <= v
  BY <1>4, LeastNatural
<1>6. u \in Nat /\ \A y \in S : f[y] <= u /\ f[y] \in Nat
  BY <1>3, <1>4
<1>7. SUFFICES ASSUME \A x \in S : f[x] # u
               PROVE  FALSE
  BY <1>6
<1>8. \A y \in S : f[y] <= u - 1
  BY <1>6, <1>7
<1>9. u - 1 \in Nat
  <2>1. PICK y \in S : TRUE
    OBVIOUS
  <2>2. f[y] \in Nat /\ f[y] <= u - 1
    BY <1>8
  <2>3. QED
    BY <1>6, <2>2
<1>10. PICK v \in Nat : v = u - 1
  BY <1>9
<1>11. v \in Bounds
  BY <1>3, <1>8, <1>10
<1>12. u <= v
  BY <1>5, <1>11
<1>13. QED
  BY <1>6, <1>10, <1>12

\* The weights w of the tasks at S in s.
TotalWeight(S, s, w) == MapThenSumSet(LAMBDA i : w[s[i]], S)

\* They add up to a natural number, no less than any of them.
LEMMA SumOfWeights ==
  ASSUME NEW S, IsFiniteSet(S), NEW s, NEW w, \A i \in S : w[s[i]] \in Nat \ {0}
  PROVE  TotalWeight(S, s, w) \in Nat /\ \A i \in S : w[s[i]] <= TotalWeight(S, s, w)
<1>1. PICK f : f = [i \in S |-> w[s[i]]]
  OBVIOUS
<1>2. f \in [S -> Nat] /\ \A x \in S : f[x] = w[s[x]]
  BY <1>1
<1> DEFINE I(g) == g = [r \in SUBSET S |-> IF r = {} THEN 0
                          ELSE LET x == CHOOSE x \in r : TRUE
                               IN  w[s[x]] + g[r \ {x}]]
           g == CHOOSE g : I(g)
<1>3. \A h : I(h) <=> Sums(S, f, h)
  <2> SUFFICES ASSUME NEW h
               PROVE  I(h) <=> Sums(S, f, h)
    OBVIOUS
  <2>1. ASSUME NEW r \in SUBSET S
        PROVE  SumStep(f, r, h) = IF r = {} THEN 0
                          ELSE LET x == CHOOSE x \in r : TRUE
                               IN  w[s[x]] + h[r \ {x}]
    <3>1. CASE r = {}
      BY <3>1 DEF SumStep
    <3>2. CASE r # {}
      <4>1. Some(r) \in S
        BY <3>2, SomeFacts
      <4>2. f[Some(r)] = w[s[Some(r)]]
        BY <1>1, <4>1
      <4>3. QED
        BY <3>2, <4>2 DEF SumStep, Some
    <3>3. QED
      BY <3>1, <3>2
  <2>2. QED
    BY <2>1 DEF Sums
<1>4. PICK h : Sums(S, f, h)
  BY <1>2, SumsExist
<1>5. TotalWeight(S, s, w) = g[S]
  BY DEF TotalWeight, MapThenSumSet, MapThenFoldSet
<1> HIDE DEF I
<1>6. I(g)
  <2>1. I(h)
    BY <1>3, <1>4
  <2>2. QED
    BY <2>1, Zenon
<1> HIDE DEF g
<1>7. Sums(S, f, g)
  BY <1>3, <1>6
<1>8. QED
  BY <1>2, <1>5, <1>7, SumsNatural

\* PolicySimulator drives an EEVDFScheduler; Slices holds the slices
\* calc_time_slice can return.
DrivesEevdf ==
  /\ \A w \in [Tasks -> Weights] : \A t \in Tasks :
       Later((BaseSlice * w[t]) \div Nice0Load, MinSlice) \in Slices
  /\ PolicyInits = EevdfInits
  /\ \A p : Ready(p) = EevdfReady(p) /\ Decided(p) = EevdfDecided(p)
  /\ \A p, t, x : /\ Added(p, t, x) = EevdfAdded(p, t, x)
                  /\ CpuUsed(p, t, x) = EevdfCpuUsed(p, t, x)
                  /\ Preempts(p, t, x) = EevdfPreempts(p, t, x)
  /\ \A p, t : Removed(p, t) = EevdfRemoved(p, t)

\* The states of an EEVDFScheduler and of the fields it keeps in the tasks: a task
\* is eligible by its deadline.
EevdfObjects ==
  {p \in [ready : Seq(Tasks), eligible : [Tasks -> Nat], vruntime : [Tasks -> Nat],
          deadline : [Tasks -> Nat], virtualTime : Nat, weight : [Tasks -> Weights]] :
     Distinct(p.ready) /\ \A t \in Tasks : p.eligible[t] <= p.deadline[t]}

\* An object of these parts.
EevdfParts(p, q, e, v, d, x, w) ==
  /\ p = [ready |-> q, eligible |-> e, vruntime |-> v, deadline |-> d,
          virtualTime |-> x, weight |-> w]
  /\ q \in Seq(Tasks) /\ Distinct(q) /\ e \in [Tasks -> Nat] /\ v \in [Tasks -> Nat]
  /\ d \in [Tasks -> Nat] /\ x \in Nat /\ w \in [Tasks -> Weights]
  /\ \A t \in Tasks : e[t] <= d[t]

\* The parts of an object.
LEMMA EevdfFields ==
  ASSUME NEW p \in EevdfObjects
  PROVE  EevdfParts(p, p.ready, p.eligible, p.vruntime, p.deadline, p.virtualTime, p.weight)
BY DEF EevdfObjects, EevdfParts

\* What is made of such parts is an object.
LEMMA EevdfObject ==
  ASSUME NEW p, NEW q, NEW e, NEW v, NEW d, NEW x, NEW w, EevdfParts(p, q, e, v, d, x, w)
  PROVE  p \in EevdfObjects /\ p.ready = q
BY DEF EevdfObjects, EevdfParts

\* FirstLeast finds a least.
LEMMA FirstLeastFacts ==
  ASSUME NEW s, NEW S, S \in SUBSET Nat, S # {}, NEW f, \A i \in S : f[s[i]] \in Nat
  PROVE  \E i \in S : FirstLeast(s, S, f) = s[i] /\ \A j \in S : f[s[i]] <= f[s[j]]
<1> DEFINE A == {f[s[i]] : i \in S}
<1>1. A \in SUBSET Nat /\ A # {}
  OBVIOUS
<1>2. \A i \in S : f[s[i]] \in A
  OBVIOUS
<1>3. \A x \in A : \E i \in S : f[s[i]] = x
  OBVIOUS
<1> HIDE DEF A
<1>4. PICK a \in A : \A y \in A : a <= y
  BY <1>1, LeastNatural
<1> DEFINE B == {i \in S : f[s[i]] = a}
<1>5. B \in SUBSET Nat /\ B # {}
  BY <1>3
<1>6. \A i \in S : f[s[i]] = a <=> i \in B
  OBVIOUS
<1>7. B \subseteq S
  OBVIOUS
<1> HIDE DEF B
<1>8. PICK b \in B : \A y \in B : b <= y
  BY <1>5, LeastNatural
<1> DEFINE First(i) == \A j \in S : f[s[i]] < f[s[j]] \/ (f[s[i]] = f[s[j]] /\ i <= j)
<1>9. b \in S /\ First(b)
  <2>1. b \in S /\ f[s[b]] = a
    BY <1>6, <1>7
  <2>2. ASSUME NEW j \in S
        PROVE  f[s[b]] < f[s[j]] \/ (f[s[b]] = f[s[j]] /\ b <= j)
    <3>1. a <= f[s[j]] /\ f[s[j]] \in Nat /\ a \in Nat
      BY <1>1, <1>2, <1>4
    <3>2. f[s[j]] = a => b <= j
      BY <1>6, <1>8
    <3>3. QED
      BY <2>1, <3>1, <3>2
  <2>3. QED
    BY <2>1, <2>2
<1>10. FirstLeast(s, S, f) = s[CHOOSE i \in S : First(i)]
  BY DEF FirstLeast
<1> HIDE DEF First
<1>11. PICK c \in S : c = (CHOOSE i \in S : First(i)) /\ First(c)
  BY <1>9, Zenon
<1>12. ASSUME NEW j \in S
       PROVE  f[s[c]] <= f[s[j]]
  <2>1. f[s[c]] < f[s[j]] \/ f[s[c]] = f[s[j]]
    BY <1>11 DEF First
  <2>2. f[s[c]] \in Nat /\ f[s[j]] \in Nat
    OBVIOUS
  <2>3. QED
    BY <2>1, <2>2
<1>13. QED
  BY <1>10, <1>11, <1>12

\* schedule() finds a task, an eligible one with the earliest deadline if any is.
LEMMA EevdfBestFacts ==
  ASSUME NEW p \in EevdfObjects, p.ready # << >>
  PROVE  /\ EevdfBest(p) \in ToSet(p.ready) /\ EevdfBest(p) \in Tasks
         /\ \A t \in ToSet(p.ready) : IsEligible(p, t) => p.deadline[EevdfBest(p)] <= p.deadline[t]
<1>1. PICK s : s = p.ready
  OBVIOUS
<1>2. s \in Seq(Tasks) /\ s # << >> /\ p.deadline \in [Tasks -> Nat] /\ p.eligible \in [Tasks -> Nat]
  BY <1>1, EevdfFields DEF EevdfParts
<1>3. DOMAIN s = 1 .. Len(s) /\ Len(s) \in Nat /\ Len(s) > 0 /\ \A i \in DOMAIN s : s[i] \in Tasks
  BY <1>2
<1>4. DOMAIN s \in SUBSET Nat /\ DOMAIN s # {}
  <2>1. 1 \in DOMAIN s
    BY <1>3
  <2>2. QED
    BY <1>3, <2>1
<1>5. PICK S : S = {i \in DOMAIN s : IsEligible(p, s[i])}
  OBVIOUS
<1>6. S \in SUBSET Nat /\ S \subseteq DOMAIN s
  BY <1>4, <1>5
<1>7. EevdfBest(p) = IF S # {} THEN FirstLeast(s, S, p.deadline)
                     ELSE FirstLeast(s, DOMAIN s, p.eligible)
  BY <1>1, <1>5 DEF EevdfBest
<1>8. \E i \in DOMAIN s : /\ EevdfBest(p) = s[i]
                          /\ \A j \in S : p.deadline[s[i]] <= p.deadline[s[j]]
  <2>1. CASE S # {}
    <3>1. \A i \in S : p.deadline[s[i]] \in Nat
      BY <1>2, <1>3, <1>6
    <3>2. \E i \in S : /\ FirstLeast(s, S, p.deadline) = s[i]
                       /\ \A j \in S : p.deadline[s[i]] <= p.deadline[s[j]]
      BY <1>6, <2>1, <3>1, FirstLeastFacts
    <3>3. QED
      BY <1>6, <1>7, <2>1, <3>2
  <2>2. CASE S = {}
    <3>1. \A i \in DOMAIN s : p.eligible[s[i]] \in Nat
      BY <1>2, <1>3
    <3>2. \E i \in DOMAIN s : FirstLeast(s, DOMAIN s, p.eligible) = s[i]
      BY <1>4, <3>1, FirstLeastFacts
    <3>3. QED
      BY <1>7, <2>2, <3>2
  <2>3. QED
    BY <2>1, <2>2
<1>9. \A j \in DOMAIN s : IsEligible(p, s[j]) => j \in S
  BY <1>5
<1>10. \A t \in ToSet(s) : \E j \in DOMAIN s : t = s[j]
  BY DEF ToSet
<1>11. \A i \in DOMAIN s : s[i] \in ToSet(s)
  BY DEF ToSet
<1>12. QED
  BY <1>1, <1>3, <1>8, <1>9, <1>10, <1>11

\* add_task: the newcomer's deadline lies in the future.
LEMMA EevdfAddedFacts ==
  ASSUME NEW p \in EevdfObjects, NEW t \in Tasks, t \notin EevdfReady(p), NEW new \in BOOLEAN
  PROVE  LET n == EevdfAdded(p, t, new)
         IN  /\ n \in EevdfObjects /\ EevdfReady(n) = EevdfReady(p) \cup {t}
             /\ n.weight = p.weight /\ n.virtualTime = p.virtualTime
             /\ \A u \in Tasks : u # t => n.deadline[u] = p.deadline[u]
             /\ p.virtualTime <= n.deadline[t]
<1>1. PICK s, el, vr, dl, x, w :
        /\ s = p.ready /\ el = p.eligible /\ vr = p.vruntime /\ dl = p.deadline
        /\ x = p.virtualTime /\ w = p.weight
  OBVIOUS
<1>2. EevdfParts(p, s, el, vr, dl, x, w)
  BY <1>1, EevdfFields
<1>3. PICK e : e = IF new THEN x ELSE Later(el[t], x)
  OBVIOUS
<1>4. PICK v : v = IF new THEN x ELSE Later(vr[t], x)
  OBVIOUS
<1>5. e \in Nat /\ v \in Nat
  BY <1>2, <1>3, <1>4 DEF EevdfParts, Later
<1>6. PICK d : d = e + Request(p, t)
  OBVIOUS
<1>7. d \in Nat /\ e <= d
  <2>1. w[t] \in Nat \ {0}
    BY <1>2, WeightsAssumption DEF EevdfParts
  <2>2. BaseSlice \in Nat
    BY EEVDFAssumption
  <2>3. Virtual(BaseSlice, w[t]) \in Nat
    BY <2>1, <2>2, VirtualNat
  <2>4. QED
    BY <1>1, <1>5, <1>6, <2>3 DEF Request
<1>8. PICK n : n = EevdfAdded(p, t, new)
  OBVIOUS
<1>9. n = [p EXCEPT !.eligible[t] = e, !.vruntime[t] = v, !.deadline[t] = d,
                    !.ready = Append(@, t)]
  BY <1>1, <1>3, <1>4, <1>6, <1>8 DEF EevdfAdded
<1>10. n = [ready |-> Append(s, t), eligible |-> [el EXCEPT ![t] = e],
            vruntime |-> [vr EXCEPT ![t] = v], deadline |-> [dl EXCEPT ![t] = d],
            virtualTime |-> x, weight |-> w]
  BY <1>2, <1>9 DEF EevdfParts
<1>11. /\ [el EXCEPT ![t] = e] \in [Tasks -> Nat] /\ [vr EXCEPT ![t] = v] \in [Tasks -> Nat]
       /\ [dl EXCEPT ![t] = d] \in [Tasks -> Nat] /\ s \in Seq(Tasks) /\ Distinct(s)
       /\ x \in Nat /\ w \in [Tasks -> Weights]
       /\ \A u \in Tasks : [el EXCEPT ![t] = e][u] <= [dl EXCEPT ![t] = d][u]
  BY <1>2, <1>5, <1>7 DEF EevdfParts
<1>12. t \notin ToSet(s)
  BY <1>1 DEF EevdfReady
<1>13. Append(s, t) \in Seq(Tasks) /\ Distinct(Append(s, t)) /\ ToSet(Append(s, t)) = ToSet(s) \cup {t}
  BY <1>11, <1>12, AppendFacts
<1>14. EevdfParts(n, Append(s, t), [el EXCEPT ![t] = e], [vr EXCEPT ![t] = v],
                  [dl EXCEPT ![t] = d], x, w)
  BY <1>10, <1>11, <1>13 DEF EevdfParts
<1>15. n \in EevdfObjects /\ n.ready = Append(s, t)
  BY <1>14, EevdfObject
<1>16. x <= d
  <2>1. x <= e
    BY <1>2, <1>3 DEF EevdfParts, Later
  <2>2. x \in Nat
    BY <1>2 DEF EevdfParts
  <2>3. QED
    BY <1>5, <1>7, <2>1, <2>2
<1>17. /\ n.weight = w /\ n.virtualTime = x /\ n.deadline[t] = d
       /\ \A u \in Tasks : u # t => n.deadline[u] = dl[u]
  BY <1>2, <1>10 DEF EevdfParts
<1>18. QED
  BY <1>1, <1>8, <1>13, <1>15, <1>16, <1>17 DEF EevdfReady

\* The ready queue weighs something, and no less than any task in it.
LEMMA ReadyWeightNatural ==
  ASSUME NEW p \in EevdfObjects
  PROVE  /\ ReadyWeight(p) \in Nat \ {0}
         /\ \A t \in EevdfReady(p) : p.weight[t] <= ReadyWeight(p)
<1>1. PICK s, w : s = p.ready /\ w = p.weight
  OBVIOUS
<1>2. s \in Seq(Tasks) /\ w \in [Tasks -> Weights]
  BY <1>1, EevdfFields DEF EevdfParts
<1>3. CASE s = << >>
  BY <1>1, <1>3, WeightsAssumption DEF ReadyWeight, EevdfReady, ToSet
<1>4. CASE s # << >>
  <2>1. DOMAIN s = 1 .. Len(s) /\ Len(s) \in Nat /\ Len(s) > 0 /\ \A i \in DOMAIN s : s[i] \in Tasks
    BY <1>2, <1>4
  <2>2. PICK n : n = Len(s)
    OBVIOUS
  <2>3. DOMAIN s # {}
    <3>1. 1 \in DOMAIN s
      BY <2>1
    <3>2. QED
      BY <3>1
  <2>4. IsFiniteSet(DOMAIN s)
    <3>1. n \in Int
      BY <2>1, <2>2
    <3>2. IsFiniteSet(1 .. n)
      BY <3>1, FS_Interval, 1 \in Int
    <3>3. QED
      BY <2>1, <2>2, <3>2
  <2>5. \A i \in DOMAIN s : w[s[i]] \in Nat \ {0}
    BY <1>2, <2>1, WeightsAssumption
  <2>6. TotalWeight(DOMAIN s, s, w) \in Nat
        /\ \A i \in DOMAIN s : w[s[i]] <= TotalWeight(DOMAIN s, s, w)
    BY <2>4, <2>5, SumOfWeights
  <2>7. ReadyWeight(p) = TotalWeight(DOMAIN s, s, w)
    BY <1>1, <1>4 DEF ReadyWeight, TotalWeight
  <2>8. ReadyWeight(p) \in Nat /\ \A i \in DOMAIN s : w[s[i]] <= ReadyWeight(p)
    BY <2>6, <2>7
  <2>9. ReadyWeight(p) > 0
    <3>1. PICK i \in DOMAIN s : TRUE
      BY <2>3
    <3>2. PICK a, b : a = w[s[i]] /\ b = ReadyWeight(p)
      OBVIOUS
    <3>3. a \in Nat /\ a > 0 /\ b \in Nat /\ a <= b
      BY <2>5, <2>8, <3>2
    <3>4. b > 0
      BY <3>3
    <3>5. QED
      BY <3>2, <3>4
  <2>10. ASSUME NEW t \in EevdfReady(p)
         PROVE  w[t] <= ReadyWeight(p)
    <3>1. PICK i \in DOMAIN s : t = s[i]
      BY <1>1 DEF EevdfReady, ToSet
    <3>2. QED
      BY <2>8, <3>1
  <2>11. QED
    BY <1>1, <2>8, <2>9, <2>10
<1>5. QED
  BY <1>3, <1>4

\* on_cpu_used moves virtual time on and defers the task's deadline.
LEMMA EevdfCpuUsedFacts ==
  ASSUME NEW p \in EevdfObjects, NEW t \in Tasks, NEW d \in Nat
  PROVE  LET n == EevdfCpuUsed(p, t, d)
         IN  /\ n \in EevdfObjects /\ EevdfReady(n) = EevdfReady(p)
             /\ n.weight = p.weight
             /\ n.virtualTime = p.virtualTime + Virtual(d, ReadyWeight(p))
             /\ \A u \in Tasks : u # t => n.deadline[u] = p.deadline[u]
<1>1. PICK s, el, vr, dl, x, w :
        /\ s = p.ready /\ el = p.eligible /\ vr = p.vruntime /\ dl = p.deadline
        /\ x = p.virtualTime /\ w = p.weight
  OBVIOUS
<1>2. EevdfParts(p, s, el, vr, dl, x, w)
  BY <1>1, EevdfFields
<1>3. w[t] \in Nat \ {0}
  BY <1>2, WeightsAssumption DEF EevdfParts
<1>4. Virtual(d, w[t]) \in Nat /\ Virtual(d, ReadyWeight(p)) \in Nat
      /\ Virtual(BaseSlice, w[t]) \in Nat
  BY <1>3, ReadyWeightNatural, VirtualNat, EEVDFAssumption
<1>5. PICK v, y, r :
        /\ v = vr[t] + Virtual(d, w[t]) /\ y = x + Virtual(d, ReadyWeight(p))
        /\ r = v + Request(p, t)
  OBVIOUS
<1>6. v \in Nat /\ y \in Nat /\ r \in Nat /\ v <= r
  <2>1. v \in Nat /\ y \in Nat
    BY <1>2, <1>4, <1>5 DEF EevdfParts
  <2>2. Request(p, t) \in Nat
    BY <1>1, <1>4 DEF Request
  <2>3. QED
    BY <1>5, <2>1, <2>2
<1>7. PICK n : n = EevdfCpuUsed(p, t, d)
  OBVIOUS
<1>8. n = [p EXCEPT !.vruntime[t] = v, !.virtualTime = y, !.eligible[t] = v,
                    !.deadline[t] = r]
  <2>1. EevdfCpuUsed(p, t, d)
          = [p EXCEPT !.vruntime[t] = v, !.virtualTime = @ + Virtual(d, ReadyWeight(p)),
                      !.eligible[t] = v, !.deadline[t] = r]
    BY <1>1, <1>5 DEF EevdfCpuUsed
  <2>2. p.virtualTime + Virtual(d, ReadyWeight(p)) = y
    BY <1>1, <1>5
  <2>3. QED
    BY <1>7, <2>1, <2>2
<1>9. n = [ready |-> s, eligible |-> [el EXCEPT ![t] = v],
           vruntime |-> [vr EXCEPT ![t] = v], deadline |-> [dl EXCEPT ![t] = r],
           virtualTime |-> y, weight |-> w]
  BY <1>2, <1>8 DEF EevdfParts
<1>10. EevdfParts(n, s, [el EXCEPT ![t] = v], [vr EXCEPT ![t] = v],
                  [dl EXCEPT ![t] = r], y, w)
  BY <1>2, <1>6, <1>9 DEF EevdfParts
<1>11. n \in EevdfObjects /\ n.ready = s
  BY <1>10, EevdfObject
<1>12. /\ n.weight = w /\ n.virtualTime = y
       /\ \A u \in Tasks : u # t => n.deadline[u] = dl[u]
  BY <1>2, <1>9 DEF EevdfParts
<1>13. QED
  BY <1>1, <1>5, <1>7, <1>11, <1>12 DEF EevdfReady

\* remove_task changes the ready queue alone.
LEMMA EevdfRemovedFacts ==
  ASSUME NEW p \in EevdfObjects, NEW t
  PROVE  LET n == EevdfRemoved(p, t)
         IN  /\ n \in EevdfObjects /\ EevdfReady(n) = EevdfReady(p) \ {t}
             /\ n.weight = p.weight /\ n.virtualTime = p.virtualTime
             /\ n.deadline = p.deadline
<1>1. EevdfParts(p, p.ready, p.eligible, p.vruntime, p.deadline, p.virtualTime, p.weight)
  BY EevdfFields
<1>2. PICK n, q : n = EevdfRemoved(p, t) /\ q = Without(p.ready, t)
  OBVIOUS
<1>3. n = [ready |-> q, eligible |-> p.eligible, vruntime |-> p.vruntime,
           deadline |-> p.deadline, virtualTime |-> p.virtualTime, weight |-> p.weight]
  BY <1>1, <1>2 DEF EevdfRemoved, EevdfParts
<1>4. q \in Seq(Tasks) /\ Distinct(q) /\ ToSet(q) = ToSet(p.ready) \ {t}
  BY <1>1, <1>2, WithoutFacts DEF EevdfParts
<1>5. EevdfParts(n, q, p.eligible, p.vruntime, p.deadline, p.virtualTime, p.weight)
  BY <1>1, <1>3, <1>4 DEF EevdfParts
<1>6. n \in EevdfObjects /\ n.ready = q
  BY <1>5, EevdfObject
<1>7. n.weight = p.weight /\ n.virtualTime = p.virtualTime /\ n.deadline = p.deadline
  BY <1>3
<1>8. QED
  BY <1>2, <1>4, <1>6, <1>7 DEF EevdfReady

\* An EEVDFScheduler keeps the contract, call by call.
LEMMA EevdfContract ==
  ASSUME DrivesEevdf
  PROVE  Contract(EevdfObjects)
<1>1. \A p \in EevdfInits : p \in EevdfObjects /\ EevdfReady(p) = {}
  <2> SUFFICES ASSUME NEW p \in EevdfInits
               PROVE  p \in EevdfObjects /\ EevdfReady(p) = {}
    OBVIOUS
  <2>1. PICK zero : zero = [t \in Tasks |-> 0]
    OBVIOUS
  <2>2. PICK w \in [Tasks -> Weights] :
          p = [ready |-> << >>, eligible |-> zero, vruntime |-> zero, deadline |-> zero,
               virtualTime |-> 0, weight |-> w]
    BY <2>1 DEF EevdfInits
  <2>3. zero \in [Tasks -> Nat] /\ << >> \in Seq(Tasks) /\ \A t \in Tasks : zero[t] <= zero[t]
    BY <2>1
  <2>4. ToSet(<< >>) = {} /\ Distinct(<< >>)
    BY DEF ToSet, Distinct
  <2>5. EevdfParts(p, << >>, zero, zero, zero, 0, w)
    BY <2>2, <2>3, <2>4 DEF EevdfParts
  <2>6. QED
    BY <2>4, <2>5, EevdfObject DEF EevdfReady
<1>2. ASSUME NEW p \in EevdfObjects
      PROVE  EevdfDecided(p) \in Decisions(EevdfReady(p)) /\ EevdfReady(p) \subseteq Tasks
  <2>1. p.ready \in Seq(Tasks) /\ p.weight \in [Tasks -> Weights]
    BY EevdfFields DEF EevdfParts
  <2>2. EevdfReady(p) \subseteq Tasks
    BY <2>1 DEF EevdfReady, ToSet
  <2>3. CASE p.ready = << >>
    <3>1. EevdfReady(p) = {}
      BY <2>3 DEF EevdfReady, ToSet
    <3>2. QED
      BY <2>2, <2>3, <3>1 DEF EevdfDecided, Decisions
  <2>4. CASE p.ready # << >>
    <3>1. PICK b, x : b = EevdfBest(p) /\ x = EevdfSlice(p, EevdfBest(p))
      OBVIOUS
    <3>2. b \in EevdfReady(p) /\ b \in Tasks
      BY <2>4, <3>1, EevdfBestFacts DEF EevdfReady
    <3>3. x \in Slices
      BY <2>1, <3>1, <3>2 DEF DrivesEevdf, EevdfSlice
    <3>4. EevdfDecided(p) = [task |-> b, slice |-> x]
      BY <2>4, <3>1 DEF EevdfDecided
    <3>5. [task |-> b, slice |-> x] \in [task : EevdfReady(p), slice : Slices]
      BY <3>2, <3>3
    <3>6. Decisions(EevdfReady(p)) = [task : EevdfReady(p), slice : Slices]
      BY <3>2 DEF Decisions
    <3>7. QED
      BY <2>2, <3>4, <3>5, <3>6
  <2>5. QED
    BY <2>3, <2>4
<1>3. \A p \in EevdfObjects : \A t \in Tasks \ EevdfReady(p) : \A new \in BOOLEAN :
        EevdfAdded(p, t, new) \in EevdfObjects
          /\ EevdfReady(EevdfAdded(p, t, new)) = EevdfReady(p) \cup {t}
  BY EevdfAddedFacts
<1>4. \A p \in EevdfObjects : \A t \in Tasks \ EevdfReady(p) : \A d \in Nat :
        EevdfCpuUsed(p, t, d) \in EevdfObjects
          /\ EevdfReady(EevdfCpuUsed(p, t, d)) = EevdfReady(p)
  BY EevdfCpuUsedFacts
<1>5. \A p \in EevdfObjects : \A t \in EevdfReady(p) :
        EevdfRemoved(p, t) \in EevdfObjects
          /\ EevdfReady(EevdfRemoved(p, t)) = EevdfReady(p) \ {t}
  BY EevdfRemovedFacts
<1>6. QED
  BY <1>1, <1>2, <1>3, <1>4, <1>5 DEF Contract, DrivesEevdf

\* With EEVDFScheduler the ready queue of the policy is the simulator's, on any
\* number of cores, and schedule() always has an answer among it, whether some
\* ready task is eligible or none is.
THEOREM EevdfKeepsContract ==
  ASSUME DrivesEevdf
  PROVE  PolicySpec => []SchedulerContract
<1>1. PolicyInit => InContract(EevdfObjects)
  BY EevdfContract, PolicyInitFacts
<1>2. IInv /\ InContract(EevdfObjects) /\ [PolicyNext]_policyVars => InContract(EevdfObjects)'
  BY EevdfContract, PolicyStepFacts
<1>3. InContract(EevdfObjects) => SchedulerContract
  BY EevdfContract DEF InContract, Contract, SchedulerContract
<1>4. QED
  BY <1>1, <1>2, <1>3, PolicyInvariance, PTL DEF PolicySpec

-----------------------------------------------------------------------------
\* Latency.

\* More time on less weight is no less virtual time.
LEMMA VirtualMonotone ==
  ASSUME NEW d \in Nat, NEW l \in Nat, d <= l,
         NEW w \in Nat \ {0}, NEW x \in Nat \ {0}, w <= x
  PROVE  Virtual(d, x) <= Virtual(l, w)
<1>1. PICK a, b, q, r :
        a = d * Nice0Load /\ b = l * Nice0Load /\ q = Virtual(d, x) /\ r = Virtual(l, w)
  OBVIOUS
<1>2. a \in Nat /\ b \in Nat /\ q \in Nat /\ r \in Nat
  BY <1>1, VirtualNat, WeightsAssumption
<1>3. a <= b
  <2>1. PICK m \in Nat : m = Nice0Load
    BY WeightsAssumption
  <2>2. PICK e \in Nat : l = d + e
    <3>1. l - d \in Nat /\ l = d + (l - d)
      OBVIOUS
    <3>2. QED
      BY <3>1
  <2>3. (d + e) * m = d * m + e * m /\ e * m \in Nat /\ d * m \in Nat
    OBVIOUS
  <2>4. QED
    BY <1>1, <2>1, <2>2, <2>3
<1>4. q = a \div x /\ r = b \div w
  BY <1>1 DEF Virtual
<1>5. q * x <= a
  BY <1>2, <1>4
<1>6. b < (r + 1) * w
  BY <1>2, <1>4
<1>7. q * w <= q * x
  <2>1. PICK e \in Nat : x = w + e
    <3>1. x - w \in Nat /\ x = w + (x - w)
      OBVIOUS
    <3>2. QED
      BY <3>1
  <2>2. q * (w + e) = q * w + q * e /\ q * w \in Nat /\ q * e \in Nat
    BY <1>2
  <2>3. QED
    BY <2>1, <2>2
<1>8. q * w \in Nat /\ q * x \in Nat /\ (r + 1) * w \in Nat
  BY <1>2
<1>9. q * w < (r + 1) * w
  BY <1>2, <1>3, <1>5, <1>6, <1>7, <1>8
<1>10. SUFFICES ASSUME ~ (q <= r)
                PROVE  FALSE
  BY <1>1
<1>11. PICK e \in Nat : q = (r + 1) + e
  <2>1. q - (r + 1) \in Nat /\ q = (r + 1) + (q - (r + 1))
    BY <1>2, <1>10
  <2>2. QED
    BY <2>1
<1>12. ((r + 1) + e) * w = (r + 1) * w + e * w /\ e * w \in Nat
  BY <1>2
<1>13. QED
  BY <1>8, <1>9, <1>11, <1>12

\* The longest slice the weights w allow.
Longest(w) ==
  LET slices == {Later((BaseSlice * w[t]) \div Nice0Load, MinSlice) : t \in Tasks}
  IN  CHOOSE s \in slices : \A r \in slices : r <= s

\* It is no shorter than any.
LEMMA LongestFacts ==
  ASSUME IsFiniteSet(Tasks), Tasks # {}, NEW p \in EevdfObjects
  PROVE  Longest(p.weight) \in Nat
         /\ \A t \in Tasks : EevdfSlice(p, t) \in Nat /\ EevdfSlice(p, t) <= Longest(p.weight)
<1>1. PICK w, f : w = p.weight /\ f = [t \in Tasks |-> EevdfSlice(p, t)]
  OBVIOUS
<1>2. w \in [Tasks -> Weights]
  BY <1>1, EevdfFields DEF EevdfParts
<1>3. ASSUME NEW t \in Tasks
      PROVE  EevdfSlice(p, t) \in Nat
  <2>1. PICK k \in Nat : k = BaseSlice * w[t]
    <3>1. PICK x \in Nat : x = w[t]
      BY <1>2, WeightsAssumption
    <3>2. BaseSlice \in Nat
      BY EEVDFAssumption
    <3>3. BaseSlice * x \in Nat
      BY <3>2
    <3>4. QED
      BY <3>1, <3>3
  <2>2. k \div Nice0Load \in Nat
    BY WeightsAssumption
  <2>3. QED
    BY <1>1, <2>1, <2>2, EEVDFAssumption DEF EevdfSlice, Later
<1>4. f \in [Tasks -> Nat]
  BY <1>1, <1>3
<1>5. PICK u \in Tasks : \A t \in Tasks : f[t] <= f[u]
  BY <1>4, GreatestValue
<1> DEFINE slices == {Later((BaseSlice * w[t]) \div Nice0Load, MinSlice) : t \in Tasks}
           Greatest(s) == \A r \in slices : r <= s
<1>6. \A t \in Tasks : f[t] \in slices
  BY <1>1 DEF EevdfSlice
<1>7. \A r \in slices : \E t \in Tasks : r = f[t]
  BY <1>1 DEF EevdfSlice
<1>8. Longest(w) = CHOOSE s \in slices : Greatest(s)
  BY DEF Longest
<1> HIDE DEF slices
<1>9. f[u] \in slices /\ Greatest(f[u])
  BY <1>5, <1>6, <1>7
<1> HIDE DEF Greatest
<1>10. Longest(w) \in slices /\ Greatest(Longest(w))
  BY <1>8, <1>9, Zenon
<1>11. \A t \in Tasks : f[t] <= Longest(w)
  BY <1>6, <1>10 DEF Greatest
<1>12. Longest(w) \in Nat
  BY <1>4, <1>7, <1>10
<1>13. QED
  BY <1>1, <1>3, <1>11, <1>12

\* n times v of k are left.
Allowance(k, n, v) == (k - n) * v

\* One more, one less, and none.
LEMMA AllowanceFacts ==
  ASSUME NEW k \in Int, NEW n \in Int, NEW v \in Nat
  PROVE  /\ Allowance(k, n, v) \in Int /\ Allowance(k + 1, n, v) = Allowance(k, n, v) + v
         /\ Allowance(k + 1, n, v) = Allowance(k, n - 1, v)
         /\ n <= k => Allowance(k, n, v) >= 0
<1>1. (k - n) * v \in Int /\ (k + 1 - n) * v = (k - n) * v + v
      /\ (k + 1 - n) * v = (k - (n - 1)) * v
  OBVIOUS
<1>2. n <= k => (k - n) * v >= 0
  <2>1. n <= k => k - n \in Nat
    OBVIOUS
  <2>2. \A x \in Nat : x * v >= 0
    OBVIOUS
  <2>3. QED
    BY <2>1, <2>2
<1>3. QED
  BY <1>1, <1>2 DEF Allowance

\* The ready tasks queued with a deadline no later than that of t.
Before(p, t) == {u \in EevdfReady(p) \ {t} : p.deadline[u] <= p.deadline[t]}

\* The longest slice, in the virtual time of t.
LongestTurn(p, t) == Virtual(Longest(p.weight), p.weight[t])

\* Virtual time has not passed the deadline of t, or by no more than a turn for
\* each of k tasks, those yet to come before t not counted.
InLatency(p, t, k) ==
  \/ p.virtualTime <= p.deadline[t]
  \/ p.virtualTime <= p.deadline[t] + Allowance(k, Cardinality(Before(p, t)), LongestTurn(p, t))

AllInLatency(k) == {p \in EevdfObjects : \A t \in EevdfReady(p) : InLatency(p, t, k)}

\* Those before t are other tasks, and none is one that is not ready.
LEMMA BeforeFacts ==
  ASSUME IsFiniteSet(Tasks), NEW p \in EevdfObjects, NEW t \in EevdfReady(p)
  PROVE  /\ IsFiniteSet(Before(p, t)) /\ Cardinality(Before(p, t)) \in Nat
         /\ t \in Tasks /\ Others \in Int
         /\ \A r \in Tasks \ EevdfReady(p) : Cardinality(Before(p, t)) <= Others - 1
<1>1. p.ready \in Seq(Tasks)
  BY EevdfFields DEF EevdfParts
<1>2. EevdfReady(p) \subseteq Tasks
  BY <1>1 DEF EevdfReady, ToSet
<1>3. PICK b : b = Before(p, t)
  OBVIOUS
<1>4. b \in SUBSET Tasks /\ t \in Tasks /\ b \subseteq EevdfReady(p) \ {t}
  BY <1>2, <1>3 DEF Before
<1>5. IsFiniteSet(b)
  BY <1>4, FS_Subset
<1>6. Cardinality(b) \in Nat
  BY <1>5, FS_CardinalityType
<1>7. Cardinality(Tasks) \in Nat
  BY FS_CardinalityType
<1>8. ASSUME NEW r \in Tasks \ EevdfReady(p)
      PROVE  Cardinality(b) <= Others - 1
  <2>1. PICK a, c : a = Tasks \ {r} /\ c = a \ {t}
    OBVIOUS
  <2>2. IsFiniteSet(a) /\ Cardinality(a) = Cardinality(Tasks) - 1
    BY <2>1, FS_RemoveElement
  <2>3. t \in a
    BY <1>4, <2>1
  <2>4. IsFiniteSet(c) /\ Cardinality(c) = Cardinality(a) - 1
    BY <2>1, <2>2, <2>3, FS_RemoveElement
  <2>5. b \in SUBSET c
    BY <1>4, <2>1
  <2>6. Cardinality(b) <= Cardinality(c)
    BY <2>4, <2>5, FS_Subset
  <2>7. QED
    BY <1>6, <1>7, <2>2, <2>4, <2>6 DEF Others
<1>9. Others \in Int
  BY <1>7 DEF Others
<1>10. QED
  BY <1>3, <1>4, <1>5, <1>6, <1>8, <1>9

\* What the arithmetic is about.
LEMMA LatencyTypes ==
  ASSUME IsFiniteSet(Tasks), NEW p \in EevdfObjects, NEW t \in EevdfReady(p)
  PROVE  /\ p.virtualTime \in Nat /\ p.deadline[t] \in Nat /\ p.eligible[t] \in Nat
         /\ p.eligible[t] <= p.deadline[t]
         /\ LongestTurn(p, t) \in Nat /\ Longest(p.weight) \in Nat
         /\ p.weight[t] \in Nat \ {0}
<1>1. t \in Tasks
  BY BeforeFacts
<1>2. /\ p.virtualTime \in Nat /\ p.deadline[t] \in Nat /\ p.eligible[t] \in Nat
      /\ p.eligible[t] <= p.deadline[t] /\ p.weight[t] \in Nat \ {0}
  BY <1>1, EevdfFields, WeightsAssumption DEF EevdfParts
<1>3. Longest(p.weight) \in Nat
  BY <1>1, LongestFacts
<1>4. LongestTurn(p, t) \in Nat
  BY <1>2, <1>3, VirtualNat DEF LongestTurn
<1>5. QED
  BY <1>2, <1>3, <1>4

\* add_task: a newcomer comes after those whose deadline has passed.
LEMMA AddedInLatency ==
  ASSUME IsFiniteSet(Tasks), NEW k \in Int, NEW p \in AllInLatency(k),
         NEW t \in Tasks \ EevdfReady(p), NEW new \in BOOLEAN
  PROVE  EevdfAdded(p, t, new) \in AllInLatency(k)
<1>1. PICK n : n = EevdfAdded(p, t, new)
  OBVIOUS
<1>2. p \in EevdfObjects /\ \A u \in EevdfReady(p) : InLatency(p, u, k)
  BY DEF AllInLatency
<1>3. /\ n \in EevdfObjects /\ EevdfReady(n) = EevdfReady(p) \cup {t}
      /\ n.weight = p.weight /\ n.virtualTime = p.virtualTime
      /\ \A u \in Tasks : u # t => n.deadline[u] = p.deadline[u]
      /\ p.virtualTime <= n.deadline[t]
  BY <1>1, <1>2, EevdfAddedFacts
<1>4. ASSUME NEW u \in EevdfReady(n)
      PROVE  InLatency(n, u, k)
  <2>1. CASE u = t
    BY <1>3, <2>1 DEF InLatency
  <2>2. CASE u # t /\ p.virtualTime <= p.deadline[u]
    <3>1. u \in Tasks
      BY <1>3, BeforeFacts
    <3>2. QED
      BY <1>3, <2>2, <3>1 DEF InLatency
  <2>3. CASE u # t /\ ~ (p.virtualTime <= p.deadline[u])
    <3>1. u \in EevdfReady(p)
      BY <1>3, <2>3
    <3>2. u \in Tasks /\ n.deadline[u] = p.deadline[u]
      BY <1>2, <1>3, <2>3, <3>1, BeforeFacts
    <3>3. Before(n, u) = Before(p, u)
      <4>1. ~ (n.deadline[t] <= n.deadline[u])
        <5>1. n.deadline[t] \in Nat /\ p.deadline[u] \in Nat /\ p.virtualTime \in Nat
          BY <1>2, <1>3, <3>1, LatencyTypes
        <5>2. QED
          BY <1>3, <2>3, <3>2, <5>1
      <4>2. EevdfReady(p) \subseteq Tasks
        BY <1>2, BeforeFacts
      <4>3. ASSUME NEW x
            PROVE  x \in Before(n, u) <=> x \in Before(p, u)
        BY <1>3, <3>2, <4>1, <4>2 DEF Before
      <4>4. QED
        BY <4>3
    <3>4. LongestTurn(n, u) = LongestTurn(p, u)
      BY <1>3 DEF LongestTurn
    <3>5. QED
      BY <1>2, <1>3, <2>3, <3>1, <3>2, <3>3, <3>4 DEF InLatency
  <2>4. QED
    BY <2>1, <2>2, <2>3
<1>5. QED
  BY <1>1, <1>3, <1>4 DEF AllInLatency

\* on_cpu_used: virtual time advances by no more than a turn, and the task charged
\* is one that does not come before.
LEMMA ChargedInLatency ==
  ASSUME IsFiniteSet(Tasks), NEW p \in AllInLatency(Others - 1),
         NEW t \in Tasks \ EevdfReady(p), NEW d \in Nat, d <= Longest(p.weight)
  PROVE  EevdfCpuUsed(p, t, d) \in AllInLatency(Others)
<1>1. PICK n : n = EevdfCpuUsed(p, t, d)
  OBVIOUS
<1>2. p \in EevdfObjects /\ \A u \in EevdfReady(p) : InLatency(p, u, Others - 1)
  BY DEF AllInLatency
<1>3. /\ n \in EevdfObjects /\ EevdfReady(n) = EevdfReady(p) /\ n.weight = p.weight
      /\ n.virtualTime = p.virtualTime + Virtual(d, ReadyWeight(p))
      /\ \A u \in Tasks : u # t => n.deadline[u] = p.deadline[u]
  BY <1>1, <1>2, EevdfCpuUsedFacts
<1>4. EevdfReady(p) \subseteq Tasks
  BY <1>2, BeforeFacts
<1>5. ASSUME NEW u \in EevdfReady(p)
      PROVE  InLatency(n, u, Others)
  <2>1. Before(n, u) = Before(p, u)
    <3>1. ASSUME NEW x
          PROVE  x \in Before(n, u) <=> x \in Before(p, u)
      BY <1>3, <1>4 DEF Before
    <3>2. QED
      BY <3>1
  <2>2. PICK c, v, x, w, y :
          /\ c = Cardinality(Before(p, u)) /\ v = LongestTurn(p, u) /\ x = p.virtualTime
          /\ w = p.deadline[u] /\ y = Virtual(d, ReadyWeight(p))
    OBVIOUS
  <2>3. v \in Nat /\ x \in Nat /\ w \in Nat /\ c \in Nat
    BY <1>2, <2>2, BeforeFacts, LatencyTypes
  <2>4. c <= Others - 1 /\ Others \in Int
    BY <1>2, <2>2, BeforeFacts
  <2>5. y \in Nat /\ y <= v
    <3>1. PICK a, b, l : a = ReadyWeight(p) /\ b = p.weight[u] /\ l = Longest(p.weight)
      OBVIOUS
    <3>2. a \in Nat \ {0} /\ b \in Nat \ {0} /\ b <= a /\ l \in Nat /\ d <= l
      BY <1>2, <3>1, ReadyWeightNatural, LatencyTypes
    <3>3. y = Virtual(d, a) /\ v = Virtual(l, b)
      BY <2>2, <3>1 DEF LongestTurn
    <3>4. QED
      BY <3>2, <3>3, VirtualMonotone, VirtualNat
  <2>6. PICK j \in Int : j = Others - 1
    BY <2>4
  <2>7. Others = j + 1
    BY <2>4, <2>6
  <2>8. /\ Allowance(j, c, v) \in Int /\ Allowance(j + 1, c, v) = Allowance(j, c, v) + v
        /\ Allowance(j, c, v) >= 0
    <3>1. c \in Int /\ c <= j
      BY <2>3, <2>4, <2>6
    <3>2. QED
      BY <2>3, <3>1, AllowanceFacts
  <2>9. x <= w \/ x <= w + Allowance(j, c, v)
    BY <1>2, <2>2, <2>6 DEF InLatency
  <2>10. x + y <= w + Allowance(j + 1, c, v)
    BY <2>3, <2>5, <2>8, <2>9
  <2>11. n.virtualTime = x + y /\ n.deadline[u] = w /\ LongestTurn(n, u) = v
    BY <1>3, <1>4, <2>2 DEF LongestTurn
  <2>12. QED
    BY <2>1, <2>2, <2>7, <2>10, <2>11 DEF InLatency
<1>6. QED
  BY <1>1, <1>3, <1>5 DEF AllInLatency

\* remove_task of the best task: it came before those whose deadline has passed,
\* since these are eligible.
LEMMA DispatchedInLatency ==
  ASSUME IsFiniteSet(Tasks), NEW p \in AllInLatency(Others), p.ready # << >>
  PROVE  EevdfRemoved(p, EevdfBest(p)) \in AllInLatency(Others - 1)
<1>1. PICK r, n : r = EevdfBest(p) /\ n = EevdfRemoved(p, r)
  OBVIOUS
<1>2. p \in EevdfObjects /\ \A u \in EevdfReady(p) : InLatency(p, u, Others)
  BY DEF AllInLatency
<1>3. /\ n \in EevdfObjects /\ EevdfReady(n) = EevdfReady(p) \ {r} /\ n.weight = p.weight
      /\ n.virtualTime = p.virtualTime /\ n.deadline = p.deadline
  BY <1>1, <1>2, EevdfRemovedFacts
<1>4. r \in EevdfReady(p)
      /\ \A t \in EevdfReady(p) : IsEligible(p, t) => p.deadline[r] <= p.deadline[t]
  BY <1>1, <1>2, EevdfBestFacts DEF EevdfReady
<1>5. ASSUME NEW u \in EevdfReady(n)
      PROVE  InLatency(n, u, Others - 1)
  <2>1. u \in EevdfReady(p) /\ u # r
    BY <1>3
  <2>2. CASE p.virtualTime <= p.deadline[u]
    BY <1>3, <2>2 DEF InLatency
  <2>3. CASE ~ (p.virtualTime <= p.deadline[u])
    <3>1. PICK c, v : c = Cardinality(Before(p, u)) /\ v = LongestTurn(p, u)
      OBVIOUS
    <3>2. v \in Nat /\ c \in Nat /\ Others \in Int /\ IsFiniteSet(Before(p, u))
      BY <1>2, <2>1, <3>1, BeforeFacts, LatencyTypes
    <3>3. p.deadline[r] <= p.deadline[u]
      <4>1. /\ p.virtualTime \in Nat /\ p.deadline[u] \in Nat /\ p.eligible[u] \in Nat
            /\ p.eligible[u] <= p.deadline[u]
        BY <1>2, <2>1, LatencyTypes
      <4>2. IsEligible(p, u)
        BY <2>3, <4>1 DEF IsEligible
      <4>3. QED
        BY <1>4, <2>1, <4>2
    <3>4. r \in Before(p, u)
      BY <1>4, <2>1, <3>3 DEF Before
    <3>5. Before(n, u) = Before(p, u) \ {r}
      <4>1. ASSUME NEW x
            PROVE  x \in Before(n, u) <=> x \in Before(p, u) \ {r}
        BY <1>3 DEF Before
      <4>2. QED
        BY <4>1
    <3>6. Cardinality(Before(n, u)) = c - 1
      BY <3>1, <3>2, <3>4, <3>5, FS_RemoveElement
    <3>7. PICK j \in Int : j = Others - 1
      BY <3>2
    <3>8. Others = j + 1
      BY <3>2, <3>7
    <3>9. Allowance(j + 1, c, v) = Allowance(j, c - 1, v)
      BY <3>2, AllowanceFacts
    <3>10. p.virtualTime <= p.deadline[u] + Allowance(Others, c, v)
      BY <1>2, <2>1, <2>3, <3>1 DEF InLatency
    <3>11. LongestTurn(n, u) = v
      BY <1>3, <3>1 DEF LongestTurn
    <3>12. QED
      BY <1>3, <3>6, <3>7, <3>8, <3>9, <3>10, <3>11 DEF InLatency
  <2>4. QED
    BY <2>2, <2>3
<1>6. QED
  BY <1>1, <1>3, <1>5 DEF AllInLatency

\* No charge exceeds it.
ChargeBound ==
  [p \in EevdfObjects |-> IF Tasks = {} THEN 0 ELSE Longest(p.weight)]

\* The charge and the dispatch alternate.
LEMMA EevdfAlternates ==
  ASSUME DrivesEevdf, IsFiniteSet(Tasks)
  PROVE  Alternates(EevdfObjects, ChargeBound, AllInLatency(Others - 1), AllInLatency(Others))
<1>1. PICK b, F, G : b = ChargeBound /\ F = AllInLatency(Others - 1) /\ G = AllInLatency(Others)
  OBVIOUS
<1>2. b \in [EevdfObjects -> Nat]
  <2>1. ASSUME NEW p \in EevdfObjects, Tasks # {}
        PROVE  Longest(p.weight) \in Nat
    BY <2>1, LongestFacts
  <2>2. QED
    BY <1>1, <2>1 DEF ChargeBound
<1>3. \A p \in EevdfObjects : Tasks # {} => b[p] = Longest(p.weight)
  BY <1>1 DEF ChargeBound
<1>4. \A p \in EevdfObjects : EevdfReady(p) = {} => p \in F /\ p \in G
  BY <1>1 DEF AllInLatency
<1>5. Others \in Int
  BY FS_CardinalityType DEF Others
<1>6. ASSUME NEW p \in EevdfObjects, NEW t \in Tasks \ EevdfReady(p), NEW new \in BOOLEAN
      PROVE  LET n == EevdfAdded(p, t, new)
             IN  b[n] = b[p] /\ (p \in F => n \in F) /\ (p \in G => n \in G)
  <2>1. PICK n : n = EevdfAdded(p, t, new)
    OBVIOUS
  <2>2. n \in EevdfObjects /\ n.weight = p.weight
    BY <2>1, EevdfAddedFacts
  <2>3. b[n] = b[p]
    BY <1>3, <2>2
  <2>4. (p \in F => n \in F) /\ (p \in G => n \in G)
    BY <1>1, <1>5, <2>1, AddedInLatency
  <2>5. QED
    BY <2>1, <2>3, <2>4
<1>7. ASSUME NEW p \in EevdfObjects, NEW t \in Tasks \ EevdfReady(p), NEW d \in Nat
      PROVE  LET n == EevdfCpuUsed(p, t, d)
             IN  b[n] = b[p] /\ (p \in F /\ d <= b[p] => n \in G)
  <2>1. PICK n : n = EevdfCpuUsed(p, t, d)
    OBVIOUS
  <2>2. n \in EevdfObjects /\ n.weight = p.weight
    BY <2>1, EevdfCpuUsedFacts
  <2>3. b[n] = b[p] /\ b[p] = Longest(p.weight)
    BY <1>3, <2>2
  <2>4. p \in F /\ d <= b[p] => n \in G
    BY <1>1, <2>1, <2>3, ChargedInLatency
  <2>5. QED
    BY <2>1, <2>3, <2>4
<1>8. ASSUME NEW p \in EevdfObjects, EevdfReady(p) # {}
      PROVE  /\ SliceLength(EevdfDecided(p).slice) <= b[p]
             /\ b[EevdfRemoved(p, EevdfDecided(p).task)] = b[p]
             /\ p \in G => EevdfRemoved(p, EevdfDecided(p).task) \in F
  <2>1. p.ready # << >>
    BY <1>8 DEF EevdfReady, ToSet
  <2>2. PICK r, s : r = EevdfBest(p) /\ s = EevdfSlice(p, r)
    OBVIOUS
  <2>3. EevdfDecided(p).task = r /\ EevdfDecided(p).slice = s
    BY <2>1, <2>2 DEF EevdfDecided
  <2>4. r \in Tasks
    BY <2>1, <2>2, EevdfBestFacts
  <2>5. s \in Nat /\ s <= b[p] /\ b[p] = Longest(p.weight)
    BY <1>3, <2>2, <2>4, LongestFacts
  <2>6. s > 0
    <3>1. PICK x : x = (BaseSlice * p.weight[r]) \div Nice0Load
      OBVIOUS
    <3>2. s = IF x < MinSlice THEN MinSlice ELSE x
      BY <2>2, <3>1 DEF EevdfSlice, Later
    <3>3. MinSlice \in Nat /\ MinSlice > 0
      BY EEVDFAssumption
    <3>4. CASE x < MinSlice
      BY <3>2, <3>3, <3>4
    <3>5. CASE ~ (x < MinSlice)
      <4>1. s = x
        BY <3>2, <3>5
      <4>2. ~ (s < MinSlice)
        BY <3>5, <4>1
      <4>3. QED
        BY <2>5, <3>3, <4>2
    <3>6. QED
      BY <3>4, <3>5
  <2>7. SliceLength(s) = s
    BY <2>6 DEF SliceLength
  <2>8. PICK n : n = EevdfRemoved(p, r)
    OBVIOUS
  <2>9. n \in EevdfObjects /\ n.weight = p.weight
    BY <2>8, EevdfRemovedFacts
  <2>10. b[n] = b[p]
    BY <1>3, <2>4, <2>9
  <2>11. p \in G => n \in F
    BY <1>1, <2>1, <2>2, <2>8, DispatchedInLatency
  <2>12. QED
    BY <2>3, <2>5, <2>7, <2>8, <2>10, <2>11
<1>9. Alternates(EevdfObjects, b, F, G)
  BY <1>2, <1>4, <1>6, <1>7, <1>8 DEF Alternates, DrivesEevdf
<1>10. QED
  BY <1>1, <1>9

\* What all are granted is no more than the documented bound.
LEMMA InLatencyBounds ==
  ASSUME IsFiniteSet(Tasks), NEW p \in EevdfObjects, NEW t \in EevdfReady(p),
         InLatency(p, t, Others - 1)
  PROVE  p.virtualTime
           <= p.deadline[t] + (Cardinality(Tasks) - 1) * LongestTurn(p, t)
<1>1. PICK c, v, x, w :
        /\ c = Cardinality(Before(p, t)) /\ v = LongestTurn(p, t)
        /\ x = p.virtualTime /\ w = p.deadline[t]
  OBVIOUS
<1>2. v \in Nat /\ x \in Nat /\ w \in Nat /\ c \in Nat /\ t \in Tasks
  BY <1>1, BeforeFacts, LatencyTypes
<1>3. PICK m \in Nat : m = Cardinality(Tasks) - 1
  <2>1. Cardinality(Tasks) \in Nat /\ Cardinality(Tasks) # 0
    BY <1>2, FS_CardinalityType, FS_EmptySet
  <2>2. Cardinality(Tasks) - 1 \in Nat
    BY <2>1
  <2>3. QED
    BY <2>2
<1>4. m * v \in Nat
  BY <1>2
<1>5. Allowance(m - 1, c, v) <= m * v
  <2>1. PICK e \in Nat : e = c + 1
    BY <1>2
  <2>2. m - 1 - c = m - e
    BY <1>2, <2>1
  <2>3. (m - e) * v = m * v - e * v /\ e * v \in Nat /\ m * v \in Nat
    BY <1>2
  <2>4. Allowance(m - 1, c, v) = (m - e) * v
    BY <2>2 DEF Allowance
  <2>5. QED
    BY <2>3, <2>4
<1>6. Allowance(m - 1, c, v) \in Int
  BY <1>2, AllowanceFacts
<1>7. x <= w \/ x <= w + Allowance(m - 1, c, v)
  BY <1>1, <1>3 DEF InLatency, Others
<1>8. x <= w + m * v
  BY <1>2, <1>4, <1>5, <1>6, <1>7
<1>9. QED
  BY <1>1, <1>3, <1>8

\* On one core virtual time passes the deadline of no waiting task by more than a
\* longest slice of each other task.
THEOREM EevdfLatencyGuaranteed ==
  ASSUME DrivesEevdf, NumCores = 1, IsFiniteSet(Tasks)
  PROVE  PolicySpec => []LatencyGuaranteed
<1> DEFINE F == AllInLatency(Others - 1)
           G == AllInLatency(Others)
           Inv == InContract(EevdfObjects) /\ InTurn(ChargeBound, F)
<1>1. Contract(EevdfObjects) /\ Alternates(EevdfObjects, ChargeBound, F, G)
  BY EevdfContract, EevdfAlternates
<1> HIDE DEF F, G
<1>2. PolicyInit => Inv
  BY <1>1, InitInTurn
<1>3. IInv /\ Inv /\ [PolicyNext]_policyVars => Inv'
  BY <1>1, PolicyStepFacts, StepInTurn
<1>4. ASSUME Inv
      PROVE  LatencyGuaranteed
  <2>1. queue = EevdfReady(policy)
    BY <1>4 DEF InContract, DrivesEevdf
  <2>2. policy \in EevdfObjects /\ \A t \in EevdfReady(policy) : InLatency(policy, t, Others - 1)
    BY <1>4 DEF InTurn, F, AllInLatency
  <2>3. LongestSlice = Longest(policy.weight)
    BY DEF LongestSlice, Longest, EevdfSlice
  <2>4. QED
    BY <2>1, <2>2, <2>3, InLatencyBounds DEF LatencyGuaranteed, LongestTurn
<1>5. QED
  BY <1>2, <1>3, <1>4, PolicyInvariance, PTL DEF PolicySpec

=============================================================================
