------------------------- MODULE BenchmarkSuite_proofs -------------------------
(***************************************************************************)
(* Proofs about the suite runner, the attribution of runs and the reuse of *)
(* experiments, for every set of documents.                                *)
(***************************************************************************)
EXTENDS BenchmarkSuite, SequenceLemmas, FiniteSetTheorems, SequenceTheorems

-----------------------------------------------------------------------------
\* A plan of the first k of the runs D.

Lists(pl) == [c \in DOMAIN pl |-> pl[c].experiments]

Case(D) == [index : Nat, key : {RunKey(d[2]) : d \in ToSet(D)},
            experiments : Seq({d[1] : d \in ToSet(D)})]

\* The first k runs are in the plan, under their configuration.
Kept(pl, D, k) ==
  \A i \in 1 .. k : \E c \in DOMAIN pl :
    pl[c].key = RunKey(D[i][2]) /\ D[i][1] \in ToSet(pl[c].experiments)

\* Whatever the plan lists is one of them.
Declared(pl, D, k) ==
  \A c \in DOMAIN pl : \A e \in ToSet(pl[c].experiments) :
    \E i \in 1 .. k : D[i][1] = e /\ RunKey(D[i][2]) = pl[c].key

Numbered(pl) == \A c \in DOMAIN pl : pl[c].index = c

KeysOnce(pl) == \A c, d \in DOMAIN pl : pl[c].key = pl[d].key => c = d

PlanOf(pl, D, k, once) ==
  /\ pl \in Seq(Case(D))
  /\ Kept(pl, D, k)
  /\ Declared(pl, D, k)
  /\ Len(FlattenSeq(Lists(pl))) = k
  /\ Numbered(pl)
  /\ once => KeysOnce(pl)

\* The lists of a plan, one for each case.
LEMMA ListsType ==
  ASSUME NEW D, NEW pl \in Seq(Case(D))
  PROVE  /\ Lists(pl) \in Seq(Seq({d[1] : d \in ToSet(D)}))
         /\ Len(Lists(pl)) = Len(pl)
         /\ \A c \in 1 .. Len(pl) : Lists(pl)[c] = pl[c].experiments
<1>1. PICK E, K : E = {d[1] : d \in ToSet(D)} /\ K = {RunKey(d[2]) : d \in ToSet(D)}
  OBVIOUS
<1>2. Case(D) = [index : Nat, key : K, experiments : Seq(E)]
  BY <1>1 DEF Case
<1>3. DOMAIN pl = 1 .. Len(pl) /\ Len(pl) \in Nat
  OBVIOUS
<1>4. ASSUME NEW c \in 1 .. Len(pl)
      PROVE  pl[c].experiments \in Seq(E)
  <2>1. pl[c] \in [index : Nat, key : K, experiments : Seq(E)]
    <3>1. pl[c] \in Case(D)
      OBVIOUS
    <3>2. QED
      BY <1>2, <3>1, Zenon
  <2>2. PICK x : x = pl[c]
    OBVIOUS
  <2>3. x \in [index : Nat, key : K, experiments : Seq(E)]
    BY <2>1, <2>2
  <2>4. x.experiments \in Seq(E)
    BY <2>3
  <2>5. QED
    BY <2>2, <2>4
<1>5. Lists(pl) = [c \in 1 .. Len(pl) |-> pl[c].experiments]
  BY <1>3 DEF Lists
<1>6. Lists(pl) \in Seq(Seq(E)) /\ Len(Lists(pl)) = Len(pl)
  BY <1>3, <1>4, <1>5
<1>7. QED
  BY <1>1, <1>5, <1>6

\* A run of a configuration not planned yet, or any without deduplication.
LEMMA PlanNewCase ==
  ASSUME NEW R, NEW D \in Seq(R), NEW k \in 0 .. Len(D) - 1, NEW once, NEW pl,
         PlanOf(pl, D, k, once),
         NEW case, case = [index |-> Len(pl) + 1, key |-> RunKey(D[k + 1][2]),
                           experiments |-> <<D[k + 1][1]>>],
         once => \A c \in DOMAIN pl : pl[c].key # RunKey(D[k + 1][2])
  PROVE  PlanOf(Append(pl, case), D, k + 1, once)
<1> DEFINE E == {d[1] : d \in ToSet(D)}
           K == {RunKey(d[2]) : d \in ToSet(D)}
<1>1. PICK id, key : id = D[k + 1][1] /\ key = RunKey(D[k + 1][2])
  OBVIOUS
<1>2. D[k + 1] \in ToSet(D)
  <2>1. k + 1 \in DOMAIN D
    OBVIOUS
  <2>2. QED
    BY <2>1 DEF ToSet
<1>3. id \in E /\ key \in K
  BY <1>1, <1>2
<1>4. pl \in Seq(Case(D)) /\ Len(pl) \in Nat /\ k \in Nat
  BY DEF PlanOf
<1> HIDE DEF E, K
<1>5. case = [index |-> Len(pl) + 1, key |-> key, experiments |-> <<id>>]
  BY <1>1
<1>6. case \in [index : Nat, key : K, experiments : Seq(E)]
  <2>1. <<id>> \in Seq(E)
    BY <1>3
  <2>2. Len(pl) + 1 \in Nat
    BY <1>4
  <2>3. QED
    BY <1>3, <1>5, <2>1, <2>2
<1>7. case \in Case(D)
  BY <1>6 DEF Case, E, K
<1>8. PICK q : q = Append(pl, case)
  OBVIOUS
<1>9. /\ q \in Seq(Case(D))
      /\ Len(q) = Len(pl) + 1
      /\ \A c \in DOMAIN pl : c \in DOMAIN q /\ q[c] = pl[c]
      /\ Len(pl) + 1 \in DOMAIN q
      /\ q[Len(pl) + 1] = case
      /\ \A c \in DOMAIN q : c \in DOMAIN pl \/ c = Len(pl) + 1
  BY <1>4, <1>7, <1>8
<1>10. case.key = key /\ case.experiments = <<id>> /\ case.index = Len(pl) + 1
  BY <1>5
<1>11. ToSet(case.experiments) = {id}
  <2>1. DOMAIN <<id>> = {1} /\ <<id>>[1] = id
    OBVIOUS
  <2>2. QED
    BY <1>10, <2>1 DEF ToSet
<1>12. Kept(q, D, k + 1)
  <2>1. ASSUME NEW i \in 1 .. k + 1
        PROVE  \E c \in DOMAIN q :
                 q[c].key = RunKey(D[i][2]) /\ D[i][1] \in ToSet(q[c].experiments)
    <3>1. CASE i = k + 1
      <4>1. D[i][1] = id /\ RunKey(D[i][2]) = key
        BY <1>1, <3>1
      <4>2. D[i][1] \in ToSet(case.experiments) /\ case.key = RunKey(D[i][2])
        BY <1>10, <1>11, <4>1
      <4>3. QED
        BY <1>9, <4>2
    <3>2. CASE i # k + 1
      <4>1. i \in 1 .. k
        BY <1>4, <3>2
      <4>2. PICK c \in DOMAIN pl :
               pl[c].key = RunKey(D[i][2]) /\ D[i][1] \in ToSet(pl[c].experiments)
        BY <4>1 DEF PlanOf, Kept
      <4>3. c \in DOMAIN q /\ q[c] = pl[c]
        BY <1>9
      <4>4. QED
        BY <4>2, <4>3
    <3>3. QED
      BY <3>1, <3>2
  <2>2. QED
    BY <2>1 DEF Kept
<1>13. Declared(q, D, k + 1)
  <2>1. ASSUME NEW c \in DOMAIN q, NEW e \in ToSet(q[c].experiments)
        PROVE  \E i \in 1 .. k + 1 : D[i][1] = e /\ RunKey(D[i][2]) = q[c].key
    <3>1. CASE c = Len(pl) + 1
      <4>1. e = id /\ q[c].key = key
        BY <1>9, <1>10, <1>11, <3>1
      <4>2. D[k + 1][1] = e /\ RunKey(D[k + 1][2]) = q[c].key
        BY <1>1, <4>1
      <4>3. k + 1 \in 1 .. k + 1
        BY <1>4
      <4>4. QED
        BY <4>2, <4>3
    <3>2. CASE c # Len(pl) + 1
      <4>1. c \in DOMAIN pl /\ q[c] = pl[c]
        BY <1>9, <3>2
      <4>2. PICK i \in 1 .. k : D[i][1] = e /\ RunKey(D[i][2]) = pl[c].key
        BY <4>1 DEF PlanOf, Declared
      <4>3. i \in 1 .. k + 1
        BY <1>4
      <4>4. QED
        BY <4>1, <4>2, <4>3
    <3>3. QED
      BY <3>1, <3>2
  <2>2. QED
    BY <2>1 DEF Declared
<1>14. Len(FlattenSeq(Lists(q))) = k + 1
  <2>1. Lists(pl) \in Seq(Seq(E))
    BY <1>4, ListsType DEF E
  <2>2. Lists(q) = Append(Lists(pl), <<id>>)
    <3>1. PICK a, b : a = Lists(q) /\ b = Append(Lists(pl), <<id>>)
      OBVIOUS
    <3>2. Len(Lists(pl)) = Len(pl)
      BY <1>4 DEF Lists
    <3>3. a \in Seq(Seq(E)) /\ Len(a) = Len(pl) + 1
      <4>1. Lists(q) \in Seq(Seq(E)) /\ Len(Lists(q)) = Len(q)
        BY <1>9, ListsType DEF E
      <4>2. QED
        BY <1>9, <3>1, <4>1
    <3>4. b \in Seq(Seq(E)) /\ Len(b) = Len(pl) + 1
      <4>1. <<id>> \in Seq(E)
        BY <1>3
      <4>2. QED
        BY <2>1, <3>1, <3>2, <4>1
    <3>5. ASSUME NEW c \in 1 .. Len(pl) + 1
          PROVE  a[c] = b[c]
      <4>1. c \in DOMAIN q
        BY <1>4, <1>9
      <4>2. a[c] = q[c].experiments
        BY <3>1, <4>1 DEF Lists
      <4>3. CASE c = Len(pl) + 1
        <5>1. b[c] = <<id>>
          BY <2>1, <3>1, <3>2, <4>3
        <5>2. QED
          BY <1>9, <1>10, <4>2, <4>3, <5>1
      <4>4. CASE c # Len(pl) + 1
        <5>1. c \in DOMAIN pl /\ q[c] = pl[c]
          BY <1>9, <4>1, <4>4
        <5>2. b[c] = Lists(pl)[c]
          BY <1>4, <2>1, <3>1, <3>2, <4>4
        <5>3. QED
          BY <4>2, <5>1, <5>2 DEF Lists
      <4>5. QED
        BY <4>3, <4>4
    <3>6. a = b
      BY <3>3, <3>4, <3>5
    <3>7. QED
      BY <3>1, <3>6
  <2>3. <<id>> \in Seq(E)
    BY <1>3
  <2>4. FlattenSeq(Lists(q)) = FlattenSeq(Lists(pl)) \o <<id>>
    BY <2>1, <2>2, <2>3, FlattenAppend
  <2>5. FlattenSeq(Lists(pl)) \in Seq(E)
    BY <2>1, FlattenType
  <2>6. Len(FlattenSeq(Lists(pl)) \o <<id>>) = Len(FlattenSeq(Lists(pl))) + 1
    BY <2>3, <2>5
  <2>7. Len(FlattenSeq(Lists(pl))) = k
    BY DEF PlanOf
  <2>8. QED
    BY <2>4, <2>6, <2>7
<1>15. Numbered(q)
  BY <1>9, <1>10 DEF PlanOf, Numbered
<1>16. once => KeysOnce(q)
  <2>1. SUFFICES ASSUME once
                 PROVE  KeysOnce(q)
    OBVIOUS
  <2>2. \A c \in DOMAIN pl : pl[c].key # key
    BY <1>1, <2>1
  <2>3. KeysOnce(pl)
    BY <2>1 DEF PlanOf
  <2>4. QED
    BY <1>9, <1>10, <2>2, <2>3 DEF KeysOnce
<1>17. QED
  BY <1>8, <1>9, <1>12, <1>13, <1>14, <1>15, <1>16 DEF PlanOf

\* A run of a configuration already planned adds its experiment to that case.
LEMMA PlanSameCase ==
  ASSUME NEW R, NEW D \in Seq(R), NEW k \in 0 .. Len(D) - 1, NEW once, NEW pl,
         PlanOf(pl, D, k, once),
         NEW c \in DOMAIN pl, pl[c].key = RunKey(D[k + 1][2])
  PROVE  PlanOf([pl EXCEPT ![c].experiments = Append(@, D[k + 1][1])], D, k + 1, once)
<1> DEFINE E == {d[1] : d \in ToSet(D)}
           K == {RunKey(d[2]) : d \in ToSet(D)}
<1>1. PICK id, key : id = D[k + 1][1] /\ key = RunKey(D[k + 1][2])
  OBVIOUS
<1>2. D[k + 1] \in ToSet(D)
  <2>1. k + 1 \in DOMAIN D
    OBVIOUS
  <2>2. QED
    BY <2>1 DEF ToSet
<1>3. id \in E
  BY <1>1, <1>2
<1>4. pl \in Seq(Case(D)) /\ Len(pl) \in Nat /\ k \in Nat /\ DOMAIN pl = 1 .. Len(pl)
  BY DEF PlanOf
<1> HIDE DEF E, K
<1>5. PICK x : x = pl[c]
  OBVIOUS
<1>6. x \in [index : Nat, key : K, experiments : Seq(E)]
  <2>1. x \in Case(D)
    BY <1>4, <1>5
  <2>2. QED
    BY <2>1 DEF Case, E, K
<1>7. PICK n : n = [x EXCEPT !.experiments = Append(@, id)]
  OBVIOUS
<1>8. /\ n \in [index : Nat, key : K, experiments : Seq(E)]
      /\ n.index = x.index /\ n.key = x.key
      /\ n.experiments = Append(x.experiments, id)
      /\ x.experiments \in Seq(E)
  <2>1. PICK i, l, j : x = [index |-> i, key |-> l, experiments |-> j]
    BY <1>6
  <2>2. i \in Nat /\ l \in K /\ j \in Seq(E)
    BY <1>6, <2>1
  <2>3. n = [index |-> i, key |-> l, experiments |-> Append(j, id)]
    BY <1>7, <2>1
  <2>4. Append(j, id) \in Seq(E)
    BY <1>3, <2>2
  <2>5. QED
    BY <2>1, <2>2, <2>3, <2>4
<1>9. n \in Case(D)
  BY <1>8 DEF Case, E, K
<1>10. PICK q : q = [pl EXCEPT ![c].experiments = Append(@, id)]
  OBVIOUS
<1>11. q = [pl EXCEPT ![c] = n]
  BY <1>5, <1>7, <1>10
<1>12. /\ q \in Seq(Case(D))
       /\ Len(q) = Len(pl) /\ DOMAIN q = DOMAIN pl
       /\ q[c] = n
       /\ \A d \in DOMAIN pl : d # c => q[d] = pl[d]
  BY <1>4, <1>9, <1>11
<1>13. \A d \in DOMAIN pl : q[d].key = pl[d].key /\ q[d].index = pl[d].index
  BY <1>5, <1>8, <1>12
<1>14. ToSet(n.experiments) = ToSet(x.experiments) \cup {id}
  <2>1. PICK j : j = x.experiments
    OBVIOUS
  <2>2. j \in Seq(E)
    BY <1>8, <2>1
  <2>3. /\ DOMAIN Append(j, id) = DOMAIN j \cup {Len(j) + 1}
        /\ \A i \in DOMAIN j : Append(j, id)[i] = j[i]
        /\ Append(j, id)[Len(j) + 1] = id
    BY <2>2
  <2>4. ToSet(Append(j, id)) = ToSet(j) \cup {id}
    BY <2>3 DEF ToSet
  <2>5. QED
    BY <1>8, <2>1, <2>4
<1>15. \A d \in DOMAIN pl : ToSet(pl[d].experiments) \subseteq ToSet(q[d].experiments)
  BY <1>5, <1>12, <1>14
<1>16. Kept(q, D, k + 1)
  <2>1. ASSUME NEW i \in 1 .. k + 1
        PROVE  \E d \in DOMAIN q :
                 q[d].key = RunKey(D[i][2]) /\ D[i][1] \in ToSet(q[d].experiments)
    <3>1. CASE i = k + 1
      <4>1. D[i][1] = id /\ RunKey(D[i][2]) = key
        BY <1>1, <3>1
      <4>2. q[c].key = key
        BY <1>1, <1>13
      <4>3. id \in ToSet(q[c].experiments)
        BY <1>12, <1>14
      <4>4. c \in DOMAIN q
        BY <1>12
      <4>5. QED
        BY <4>1, <4>2, <4>3, <4>4
    <3>2. CASE i # k + 1
      <4>1. i \in 1 .. k
        BY <1>4, <3>2
      <4>2. PICK d \in DOMAIN pl :
               pl[d].key = RunKey(D[i][2]) /\ D[i][1] \in ToSet(pl[d].experiments)
        BY <4>1 DEF PlanOf, Kept
      <4>3. d \in DOMAIN q
        BY <1>12
      <4>4. q[d].key = RunKey(D[i][2]) /\ D[i][1] \in ToSet(q[d].experiments)
        BY <1>13, <1>15, <4>2
      <4>5. QED
        BY <4>3, <4>4
    <3>3. QED
      BY <3>1, <3>2
  <2>2. QED
    BY <2>1 DEF Kept
<1>17. Declared(q, D, k + 1)
  <2>1. ASSUME NEW d \in DOMAIN q, NEW e \in ToSet(q[d].experiments)
        PROVE  \E i \in 1 .. k + 1 : D[i][1] = e /\ RunKey(D[i][2]) = q[d].key
    <3>1. CASE d = c /\ e = id
      <4>1. D[k + 1][1] = e /\ RunKey(D[k + 1][2]) = q[d].key
        BY <1>1, <1>13, <3>1
      <4>2. k + 1 \in 1 .. k + 1
        BY <1>4
      <4>3. QED
        BY <4>1, <4>2
    <3>2. CASE ~(d = c /\ e = id)
      <4>1. d \in DOMAIN pl
        BY <1>12
      <4>2. e \in ToSet(pl[d].experiments)
        BY <1>5, <1>12, <1>14, <3>2, <4>1
      <4>3. PICK i \in 1 .. k : D[i][1] = e /\ RunKey(D[i][2]) = pl[d].key
        BY <4>1, <4>2 DEF PlanOf, Declared
      <4>4. i \in 1 .. k + 1
        BY <1>4
      <4>5. QED
        BY <1>13, <4>1, <4>3, <4>4
    <3>3. QED
      BY <3>1, <3>2
  <2>2. QED
    BY <2>1 DEF Declared
<1>18. Len(FlattenSeq(Lists(q))) = k + 1
  <2>1. /\ Lists(pl) \in Seq(Seq(E)) /\ Len(Lists(pl)) = Len(pl)
        /\ \A d \in 1 .. Len(pl) : Lists(pl)[d] = pl[d].experiments
    BY <1>4, ListsType DEF E
  <2>2. /\ Lists(q) \in Seq(Seq(E)) /\ Len(Lists(q)) = Len(q)
        /\ \A d \in 1 .. Len(q) : Lists(q)[d] = q[d].experiments
    BY <1>12, ListsType DEF E
  <2>3. PICK s, t : s = Lists(pl) /\ t = Lists(q)
    OBVIOUS
  <2>4. s \in Seq(Seq(E)) /\ t \in Seq(Seq(E)) /\ c \in 1 .. Len(s) /\ Len(t) = Len(s)
    BY <1>4, <1>12, <2>1, <2>2, <2>3
  <2>5. t[c] = Append(s[c], id)
    BY <1>4, <1>5, <1>8, <1>12, <2>1, <2>2, <2>3
  <2>6. \A i \in 1 .. Len(s) : i # c => t[i] = s[i]
    BY <1>4, <1>12, <2>1, <2>2, <2>3
  <2>7. Len(FlattenSeq(t)) = Len(FlattenSeq(s)) + 1
    <3>1. Grown(s, t, c, id)
      BY <2>4, <2>5, <2>6 DEF Grown
    <3>2. QED
      BY <1>3, <2>4, <3>1, FlattenLonger
  <2>8. Len(FlattenSeq(Lists(pl))) = k
    BY DEF PlanOf
  <2>9. QED
    BY <2>3, <2>7, <2>8
<1>19. Numbered(q)
  BY <1>12, <1>13 DEF PlanOf, Numbered
<1>20. once => KeysOnce(q)
  BY <1>12, <1>13 DEF PlanOf, KeysOnce
<1>21. PlanOf(q, D, k + 1, once)
  BY <1>12, <1>16, <1>17, <1>18, <1>19, <1>20 DEF PlanOf
<1>22. QED
  BY <1>1, <1>10, <1>21

-----------------------------------------------------------------------------
\* The runner.

OfExperiment(exp) ==
  IF exp.id \in selected THEN [k \in DOMAIN exp.runs |-> <<exp.id, Scheduled(exp.runs[k])>>]
  ELSE << >>

Parts == [i \in DOMAIN suite.experiments |-> OfExperiment(suite.experiments[i])]

PartElements == UNION {ToSet(Parts[i]) : i \in DOMAIN suite.experiments}

\* The runs an experiment contributes.
LEMMA PartIs ==
  ASSUME suite \in Documents, NEW i \in DOMAIN suite.experiments
  PROVE  /\ Parts[i] \in Seq(PartElements)
         /\ \A d \in ToSet(Parts[i]) :
              /\ suite.experiments[i].id \in selected
              /\ \E k \in DOMAIN suite.experiments[i].runs :
                   d = <<suite.experiments[i].id, Scheduled(suite.experiments[i].runs[k])>>
         /\ \A k \in DOMAIN suite.experiments[i].runs :
              suite.experiments[i].id \in selected =>
                <<suite.experiments[i].id, Scheduled(suite.experiments[i].runs[k])>> \in ToSet(Parts[i])
<1>1. PICK part, id, runs :
        /\ part = Parts[i] /\ id = suite.experiments[i].id
        /\ runs = suite.experiments[i].runs
  OBVIOUS
<1>2. runs \in Seq(ToSet(runs))
  BY <1>1, DocumentsAssumption DEF IsSeq
<1>3. DOMAIN runs = 1 .. Len(runs) /\ Len(runs) \in Nat
  BY <1>2
<1>4. ToSet(part) \subseteq PartElements
  BY <1>1 DEF PartElements
<1>5. CASE id \in selected
  <2>1. part = [k \in DOMAIN runs |-> <<id, Scheduled(runs[k])>>]
    BY <1>1, <1>5 DEF Parts, OfExperiment
  <2>2. ToSet(part) = {<<id, Scheduled(runs[k])>> : k \in DOMAIN runs}
    BY <2>1 DEF ToSet
  <2>3. \A k \in 1 .. Len(runs) : <<id, Scheduled(runs[k])>> \in PartElements
    BY <1>3, <1>4, <2>2
  <2>4. part = [k \in 1 .. Len(runs) |-> <<id, Scheduled(runs[k])>>]
    BY <1>3, <2>1
  <2>5. part \in Seq(PartElements)
    BY <1>3, <2>3, <2>4
  <2>6. QED
    BY <1>1, <1>5, <2>2, <2>5
<1>6. CASE id \notin selected
  <2>1. part = << >>
    BY <1>1, <1>6 DEF Parts, OfExperiment
  <2>2. ToSet(part) = {}
    BY <2>1 DEF ToSet
  <2>3. part \in Seq(PartElements)
    BY <2>1
  <2>4. QED
    BY <1>1, <1>6, <2>2, <2>3
<1>7. QED
  BY <1>5, <1>6

\* The runs of the selected experiments are a sequence.
LEMMA DeclaredRunsType ==
  ASSUME suite \in Documents
  PROVE  /\ DOMAIN suite.experiments = 1 .. Len(suite.experiments)
         /\ Parts \in Seq(Seq(PartElements)) /\ Len(Parts) = Len(suite.experiments)
         /\ DeclaredRuns = FlattenSeq(Parts)
         /\ DeclaredRuns \in Seq(PartElements)
<1>1. PICK exps : exps = suite.experiments
  OBVIOUS
<1>2. DOMAIN exps = 1 .. Len(exps) /\ Len(exps) \in Nat
  <2>1. exps \in Seq(ToSet(exps))
    BY <1>1, DocumentsAssumption DEF IsSeq
  <2>2. QED
    BY <2>1
<1>3. DeclaredRuns = FlattenSeq(Parts)
  BY DEF DeclaredRuns, Parts, OfExperiment
<1>4. \A i \in 1 .. Len(exps) : Parts[i] \in Seq(PartElements)
  BY <1>1, <1>2, PartIs
<1>5. Parts = [i \in 1 .. Len(exps) |-> Parts[i]]
  BY <1>1, <1>2 DEF Parts
<1>6. Parts \in Seq(Seq(PartElements)) /\ Len(Parts) = Len(exps)
  BY <1>2, <1>4, <1>5
<1>7. QED
  BY <1>1, <1>2, <1>3, <1>6, FlattenType

\* They are those of the experiments' runs whose experiment is selected.
LEMMA DeclaredRunsAre ==
  ASSUME suite \in Documents
  PROVE  /\ \A d \in ToSet(DeclaredRuns) :
              \E i \in DOMAIN suite.experiments :
                \E k \in DOMAIN suite.experiments[i].runs :
                  /\ suite.experiments[i].id \in selected
                  /\ d = <<suite.experiments[i].id, Scheduled(suite.experiments[i].runs[k])>>
         /\ \A i \in DOMAIN suite.experiments :
              \A k \in DOMAIN suite.experiments[i].runs :
                suite.experiments[i].id \in selected =>
                  <<suite.experiments[i].id, Scheduled(suite.experiments[i].runs[k])>>
                    \in ToSet(DeclaredRuns)
<1>1. ASSUME NEW d \in ToSet(DeclaredRuns)
      PROVE  \E i \in DOMAIN suite.experiments :
               \E k \in DOMAIN suite.experiments[i].runs :
                 /\ suite.experiments[i].id \in selected
                 /\ d = <<suite.experiments[i].id, Scheduled(suite.experiments[i].runs[k])>>
  <2>1. d \in PartElements
    <3>1. PICK D : D = DeclaredRuns
      OBVIOUS
    <3>2. D \in Seq(PartElements)
      BY <3>1, DeclaredRunsType
    <3>3. \A i \in DOMAIN D : D[i] \in PartElements
      BY <3>2
    <3>4. QED
      BY <3>1, <3>3 DEF ToSet
  <2>2. PICK i \in DOMAIN suite.experiments : d \in ToSet(Parts[i])
    BY <2>1 DEF PartElements
  <2>3. QED
    BY <2>2, PartIs
<1>2. ASSUME NEW i \in DOMAIN suite.experiments,
             NEW k \in DOMAIN suite.experiments[i].runs,
             suite.experiments[i].id \in selected
      PROVE  <<suite.experiments[i].id, Scheduled(suite.experiments[i].runs[k])>> \in ToSet(DeclaredRuns)
  <2>1. <<suite.experiments[i].id, Scheduled(suite.experiments[i].runs[k])>> \in ToSet(Parts[i])
    BY <1>2, PartIs
  <2>2. Parts \in Seq(Seq(PartElements)) /\ i \in 1 .. Len(Parts)
    BY DeclaredRunsType
  <2>3. ToSet(Parts[i]) \subseteq ToSet(FlattenSeq(Parts))
    BY <2>2, FlattenElements
  <2>4. QED
    BY <2>1, <2>3, DeclaredRunsType
<1>3. QED
  BY <1>1, <1>2

\* While planning, the runs still to plan are the last of the declared ones
\* and the plan is one of those before them.
Planning ==
  LET D == DeclaredRuns
      k == Len(D) - Len(todo)
  IN  /\ todo \in Seq(ToSet(D)) /\ Len(todo) <= Len(D)
      /\ \A i \in 1 .. Len(todo) : todo[i] = D[k + i]
      /\ PlanOf(plan, D, k, dedupe)

PlanCorrect ==
  /\ suite \in Documents
  /\ phase = "document" => plan = << >>
  /\ phase = "planning" => Planning
  /\ Planned => PlanOf(plan, DeclaredRuns, Len(DeclaredRuns), dedupe)

\* Nothing is planned of nothing.
LEMMA EmptyPlan ==
  ASSUME NEW D, NEW once
  PROVE  PlanOf(<< >>, D, 0, once)
<1>1. << >> \in Seq(Case(D))
  OBVIOUS
<1>2. Kept(<< >>, D, 0) /\ Declared(<< >>, D, 0) /\ Numbered(<< >>) /\ KeysOnce(<< >>)
  BY DEF Kept, Declared, Numbered, KeysOnce
<1>3. Len(FlattenSeq(Lists(<< >>))) = 0
  <2>1. Lists(<< >>) \in Seq(Seq({d[1] : d \in ToSet(D)})) /\ Len(Lists(<< >>)) = Len(<< >>)
    BY <1>1, ListsType
  <2>2. Lists(<< >>) = << >>
    BY <2>1
  <2>3. FlattenSeq(<< >>) = << >>
    BY DEF FlattenSeq
  <2>4. QED
    BY <2>2, <2>3
<1>4. QED
  BY <1>1, <1>2, <1>3 DEF PlanOf

LEMMA PlanCorrectInit ==
  Init => PlanCorrect
BY DEF Init, PlanCorrect, Planned

\* Loading starts from the whole document.
LEMMA LoadKeeps ==
  ASSUME PlanCorrect, Load
  PROVE  PlanCorrect'
<1>1. suite' = suite /\ selected' = selected /\ dedupe' = dedupe /\ plan' = << >>
  BY DEF Load, PlanCorrect, options
<1>2. PICK D : D = DeclaredRuns
  OBVIOUS
<1>3. DeclaredRuns' = D
  BY <1>1, <1>2 DEF DeclaredRuns, Scheduled
<1>4. ASSUME phase' = "planning"
      PROVE  Planning'
  <2>1. todo' = D
    BY <1>2, <1>4 DEF Load
  <2>2. PICK R : D \in Seq(R)
    BY <1>2, DeclaredRunsType DEF PlanCorrect
  <2>3. D \in Seq(ToSet(D)) /\ Len(D) \in Nat /\ Len(D) - Len(D) = 0
    BY <2>2 DEF ToSet
  <2>4. PlanOf(<< >>, D, 0, dedupe')
    BY EmptyPlan
  <2>5. \A i \in 1 .. Len(D) : D[i] = D[0 + i]
    BY <2>3
  <2>6. QED
    BY <1>1, <1>3, <2>1, <2>3, <2>4, <2>5 DEF Planning
<1>5. phase' \in {"planning", "rejected"}
  BY DEF Load
<1>6. QED
  BY <1>1, <1>4, <1>5 DEF PlanCorrect, Planned

\* A turn of the loop plans the next run.
LEMMA PlanRunKeeps ==
  ASSUME PlanCorrect, PlanRun
  PROVE  PlanCorrect'
<1>1. /\ suite' = suite /\ selected' = selected /\ dedupe' = dedupe /\ phase' = phase
      /\ phase = "planning" /\ todo # << >> /\ todo' = Tail(todo)
  BY DEF PlanRun, options
<1>2. PICK D : D = DeclaredRuns
  OBVIOUS
<1>3. DeclaredRuns' = D
  BY <1>1, <1>2 DEF DeclaredRuns, Scheduled
<1>4. PICK R : D \in Seq(R)
  BY <1>2, DeclaredRunsType DEF PlanCorrect
<1>5. PICK k : k = Len(D) - Len(todo)
  OBVIOUS
<1>6. /\ todo \in Seq(ToSet(D)) /\ Len(todo) <= Len(D)
      /\ \A i \in 1 .. Len(todo) : todo[i] = D[k + i]
      /\ PlanOf(plan, D, k, dedupe)
  BY <1>1, <1>2, <1>5 DEF PlanCorrect, Planning
<1>7. Len(todo) \in Nat /\ Len(todo) > 0 /\ Len(D) \in Nat
  BY <1>1, <1>4, <1>6
<1>8. k \in 0 .. Len(D) - 1 /\ todo[1] = D[k + 1]
  BY <1>5, <1>6, <1>7
<1>9. PICK id, run : id = D[k + 1][1] /\ run = D[k + 1][2]
  OBVIOUS
<1>10. PICK same : same = {c \in DOMAIN plan : plan[c].key = RunKey(run)}
  OBVIOUS
<1>11. plan' = IF dedupe /\ same # {}
               THEN [plan EXCEPT ![CHOOSE c \in same : TRUE].experiments = Append(@, id)]
               ELSE Append(plan, NewCase(id, run))
  BY <1>8, <1>9, <1>10 DEF PlanRun
<1>12. PlanOf(plan', D, k + 1, dedupe)
  <2>1. CASE dedupe /\ same # {}
    <3>1. PICK c : c = CHOOSE x \in same : TRUE
      OBVIOUS
    <3>2. c \in same
      BY <2>1, <3>1, Zenon
    <3>3. c \in DOMAIN plan /\ plan[c].key = RunKey(D[k + 1][2])
      BY <1>9, <1>10, <3>2
    <3>4. plan' = [plan EXCEPT ![c].experiments = Append(@, D[k + 1][1])]
      BY <1>9, <1>11, <2>1, <3>1
    <3>5. PlanOf([plan EXCEPT ![c].experiments = Append(@, D[k + 1][1])], D, k + 1, dedupe)
      BY <1>4, <1>6, <1>8, <3>3, PlanSameCase
    <3>6. QED
      BY <3>4, <3>5
  <2>2. CASE ~(dedupe /\ same # {})
    <3>1. PICK case : case = NewCase(id, run)
      OBVIOUS
    <3>2. case = [index |-> Len(plan) + 1, key |-> RunKey(D[k + 1][2]),
                  experiments |-> <<D[k + 1][1]>>]
      BY <1>9, <3>1 DEF NewCase
    <3>3. dedupe => \A c \in DOMAIN plan : plan[c].key # RunKey(D[k + 1][2])
      BY <1>9, <1>10, <2>2
    <3>4. PlanOf(Append(plan, case), D, k + 1, dedupe)
      BY <1>4, <1>6, <1>8, <3>2, <3>3, PlanNewCase
    <3>5. plan' = Append(plan, case)
      BY <1>11, <2>2, <3>1
    <3>6. QED
      BY <3>4, <3>5
  <2>3. QED
    BY <2>1, <2>2
<1>13. Planning'
  <2>1. PICK t : t = Tail(todo)
    OBVIOUS
  <2>2. /\ t \in Seq(ToSet(D)) /\ Len(t) = Len(todo) - 1
        /\ \A i \in 1 .. Len(t) : t[i] = todo[i + 1]
    BY <1>1, <1>6, <2>1
  <2>3. Len(D) - Len(t) = k + 1 /\ Len(t) <= Len(D)
    BY <1>5, <1>6, <1>7, <2>2
  <2>4. ASSUME NEW i \in 1 .. Len(t)
        PROVE  t[i] = D[(k + 1) + i]
    <3>1. i + 1 \in 1 .. Len(todo) /\ k + (i + 1) = (k + 1) + i
      BY <1>7, <1>8, <2>2
    <3>2. t[i] = D[k + (i + 1)]
      BY <1>6, <2>2, <3>1
    <3>3. QED
      BY <3>1, <3>2
  <2>5. todo' = t
    BY <1>1, <2>1
  <2>6. QED
    BY <1>1, <1>3, <1>12, <2>2, <2>3, <2>4, <2>5 DEF Planning
<1>14. QED
  BY <1>1, <1>13 DEF PlanCorrect, Planned

\* The plan is whole when nothing is left to plan.
LEMMA EndOfPlanKeeps ==
  ASSUME PlanCorrect, EndOfPlan
  PROVE  PlanCorrect'
<1>1. /\ suite' = suite /\ selected' = selected /\ dedupe' = dedupe /\ plan' = plan
      /\ phase = "planning" /\ todo = << >> /\ phase' \in {"rejected", "resolving"}
  BY DEF EndOfPlan, options
<1>2. PICK D : D = DeclaredRuns
  OBVIOUS
<1>3. DeclaredRuns' = D
  BY <1>1, <1>2 DEF DeclaredRuns, Scheduled
<1>4. PICK R : D \in Seq(R)
  BY <1>2, DeclaredRunsType DEF PlanCorrect
<1>5. Len(D) \in Nat /\ Len(D) - Len(todo) = Len(D)
  BY <1>1, <1>4
<1>6. PlanOf(plan, D, Len(D), dedupe)
  BY <1>1, <1>2, <1>5 DEF PlanCorrect, Planning
<1>7. QED
  BY <1>1, <1>3, <1>6 DEF PlanCorrect, Planned

\* The other steps leave the plan and the document alone.
LEMMA OtherStepsKeep ==
  ASSUME PlanCorrect,
         UNCHANGED <<suite, selected, dedupe, todo, plan>>,
         phase' = phase \/ phase' = "rejected" \/ (Planned /\ Planned')
  PROVE  PlanCorrect'
<1>1. PICK D : D = DeclaredRuns
  OBVIOUS
<1>2. DeclaredRuns' = D
  BY <1>1 DEF DeclaredRuns, Scheduled
<1>3. CASE phase' = phase
  <2>1. Planning => Planning'
    BY <1>1, <1>2 DEF Planning
  <2>2. QED
    BY <1>1, <1>2, <1>3, <2>1 DEF PlanCorrect, Planned
<1>4. CASE phase' = "rejected"
  BY <1>4 DEF PlanCorrect, Planned
<1>5. CASE Planned /\ Planned'
  <2>1. phase' # "document" /\ phase' # "planning"
    BY <1>5 DEF Planned
  <2>2. QED
    BY <1>1, <1>2, <1>5, <2>1 DEF PlanCorrect
<1>6. QED
  BY <1>3, <1>4, <1>5

LEMMA PlanCorrectStep ==
  PlanCorrect /\ [Next]_vars => PlanCorrect'
<1> SUFFICES ASSUME PlanCorrect, [Next]_vars
             PROVE  PlanCorrect'
  OBVIOUS
<1>1. CASE Validate
  BY <1>1, OtherStepsKeep DEF Validate, options
<1>2. CASE Load
  BY <1>2, LoadKeeps
<1>3. CASE PlanRun
  BY <1>3, PlanRunKeeps
<1>4. CASE EndOfPlan
  BY <1>4, EndOfPlanKeeps
<1>5. CASE CallResolve
  BY <1>5, OtherStepsKeep DEF CallResolve, options
<1>6. CASE CallParent
  <2>1. phase' = phase \/ (Planned /\ Planned')
    BY <1>6 DEF CallParent, Planned
  <2>2. QED
    BY <1>6, <2>1, OtherStepsKeep DEF CallParent, options
<1>7. CASE ReturnResolve
  BY <1>7, OtherStepsKeep DEF ReturnResolve, options
<1>8. CASE Attribute
  <2>1. Planned /\ Planned'
    BY <1>8 DEF Attribute, Planned
  <2>2. QED
    BY <1>8, <2>1, OtherStepsKeep DEF Attribute, options
<1>9. CASE Ended
  BY <1>9, OtherStepsKeep DEF Ended, vars, options
<1>10. CASE UNCHANGED vars
  BY <1>10, OtherStepsKeep DEF vars, options
<1>11. QED
  BY <1>1, <1>2, <1>3, <1>4, <1>5, <1>6, <1>7, <1>8, <1>9, <1>10 DEF Next

\* Every plan of the runner is one of the whole document.
THEOREM PlansAreCorrect == Spec => []PlanCorrect
<1>1. Init => PlanCorrect
  BY PlanCorrectInit
<1>2. PlanCorrect /\ [Next]_vars => PlanCorrect'
  BY PlanCorrectStep
<1>3. QED
  BY <1>1, <1>2, PTL DEF Spec

\* What PlanCorrect says of a finished plan is PlanCoversRuns.
LEMMA PlanCorrectCovers ==
  PlanCorrect => PlanCoversRuns
<1> SUFFICES ASSUME PlanCorrect, Planned
             PROVE  PlanCoversRuns
  BY DEF PlanCoversRuns
<1>1. PICK D : D = DeclaredRuns
  OBVIOUS
<1>2. PICK R : D \in Seq(R)
  BY <1>1, DeclaredRunsType DEF PlanCorrect
<1>3. PlanOf(plan, D, Len(D), dedupe)
  BY <1>1 DEF PlanCorrect
<1>4. DOMAIN D = 1 .. Len(D)
  BY <1>2
<1>5. ASSUME NEW d \in ToSet(D)
      PROVE  \E c \in DOMAIN plan : plan[c].key = RunKey(d[2]) /\ d[1] \in ToSet(plan[c].experiments)
  <2>1. PICK i \in DOMAIN D : d = D[i]
    BY DEF ToSet
  <2>2. i \in 1 .. Len(D)
    BY <1>4
  <2>3. QED
    BY <1>3, <2>1, <2>2 DEF PlanOf, Kept
<1>6. ASSUME NEW c \in DOMAIN plan, NEW e \in ToSet(plan[c].experiments)
      PROVE  \E d \in ToSet(D) : d[1] = e /\ RunKey(d[2]) = plan[c].key
  <2>1. PICK i \in 1 .. Len(D) : D[i][1] = e /\ RunKey(D[i][2]) = plan[c].key
    BY <1>3 DEF PlanOf, Declared
  <2>2. D[i] \in ToSet(D)
    BY <1>4 DEF ToSet
  <2>3. QED
    BY <2>1, <2>2
<1>7. Len(D) = Len(FlattenSeq([c \in DOMAIN plan |-> plan[c].experiments]))
  BY <1>3 DEF PlanOf, Lists
<1>8. \A c, d \in DOMAIN plan :
        (plan[c].index = plan[d].index \/ (dedupe /\ plan[c].key = plan[d].key)) => c = d
  BY <1>3 DEF PlanOf, Numbered, KeysOnce
<1>9. QED
  BY <1>1, <1>5, <1>6, <1>7, <1>8 DEF PlanCoversRuns

\* The plan loses no run of the document and invents none: build_run_plan, with
\* and without --no-dedupe, for every document whose experiments and runs are
\* arrays.
THEOREM PlanCoversDocument == Spec => []PlanCoversRuns
<1>1. Spec => []PlanCorrect
  BY PlansAreCorrect
<1>2. PlanCorrect => PlanCoversRuns
  BY PlanCorrectCovers
<1>3. QED
  BY <1>1, <1>2, PTL

-----------------------------------------------------------------------------
\* Attribution.

\* Without repetitions an id names its experiment.
LEMMA ExpByIdIs ==
  ASSUME suite \in Documents, ValidExperiments(suite), NEW i \in DOMAIN suite.experiments
  PROVE  ExpById(suite.experiments[i].id) = suite.experiments[i]
<1>1. PICK exps, id : exps = suite.experiments /\ id = exps[i].id
  OBVIOUS
<1>2. DOMAIN exps = 1 .. Len(exps) /\ Len(exps) \in Nat
  BY <1>1, DeclaredRunsType, DocumentsAssumption DEF IsSeq
<1>3. \A j, k \in DOMAIN exps : exps[j].id = exps[k].id => j = k
  BY <1>1 DEF ValidExperiments
<1>4. id \in Ids
  BY <1>1 DEF Ids
<1> DEFINE IsLast(j) == exps[j].id = id /\ \A k \in j + 1 .. Len(exps) : exps[k].id # id
<1>5. IsLast(i)
  <2>1. ASSUME NEW k \in i + 1 .. Len(exps)
        PROVE  exps[k].id # id
    <3>1. k \in DOMAIN exps /\ k # i
      BY <1>1, <1>2
    <3>2. QED
      BY <1>1, <1>3, <3>1
  <2>2. QED
    BY <1>1, <2>1
<1>6. PICK c : c = CHOOSE j \in DOMAIN exps : IsLast(j)
  OBVIOUS
<1>7. c \in DOMAIN exps /\ IsLast(c)
  <2> HIDE DEF IsLast
  <2>1. i \in DOMAIN exps
    BY <1>1
  <2>2. QED
    BY <1>5, <1>6, <2>1, Zenon
<1>8. c = i
  BY <1>1, <1>3, <1>7
<1>9. ExpById(id) = exps[c]
  BY <1>1, <1>4, <1>6 DEF ExpById
<1>10. QED
  BY <1>1, <1>8, <1>9

\* Whatever the id, the record has it, with a sequence of runs; one of another
\* experiment does not have its id.
LEMMA ExpByIdType ==
  ASSUME suite \in Documents, ValidExperiments(suite), NEW id
  PROVE  /\ ExpById(id).id = id
         /\ ExpById(id).runs \in Seq(ToSet(ExpById(id).runs))
         /\ \A i \in DOMAIN suite.experiments :
              suite.experiments[i].id = id => ExpById(id) = suite.experiments[i]
<1>1. CASE id \in Ids
  <2>1. PICK i \in DOMAIN suite.experiments : id = suite.experiments[i].id
    BY <1>1 DEF Ids
  <2>2. ExpById(id) = suite.experiments[i]
    BY <2>1, ExpByIdIs
  <2>3. suite.experiments[i].runs \in Seq(ToSet(suite.experiments[i].runs))
    BY DocumentsAssumption DEF IsSeq
  <2>4. \A j \in DOMAIN suite.experiments :
          suite.experiments[j].id = id => ExpById(id) = suite.experiments[j]
    BY ExpByIdIs
  <2>5. QED
    BY <2>1, <2>2, <2>3, <2>4
<1>2. CASE id \notin Ids
  <2>1. ExpById(id).id = id /\ ExpById(id).runs = << >>
    BY <1>2 DEF ExpById
  <2>2. << >> \in Seq(ToSet(<< >>))
    OBVIOUS
  <2>3. \A j \in DOMAIN suite.experiments : suite.experiments[j].id # id
    BY <1>2 DEF Ids
  <2>4. QED
    BY <2>1, <2>2, <2>3
<1>3. QED
  BY <1>1, <1>2

\* A result of resolved_runs is a sequence that starts with the runs of the
\* experiment itself, and that is them when it reuses no other.
OwnFirst(exps, m) ==
  /\ m.runs \in Seq(ToSet(m.runs))
  /\ \A i \in DOMAIN exps : exps[i].id = m.id =>
       \E r : /\ r \in Seq(ToSet(r))
              /\ m.runs = exps[i].runs \o r
              /\ exps[i].reuse = Absent => r = << >>

ResultsCorrect ==
  /\ phase = "document" => memo = << >>
  /\ memo \in Seq(ToSet(memo))
  /\ validated => /\ ValidExperiments(suite)
                  /\ \A m \in DOMAIN memo : OwnFirst(suite.experiments, memo[m])

\* What was inferred is what the results say.
InferenceCorrect ==
  phase = "attributed" =>
    /\ \A e \in Ids : Memoized(e)
    /\ inferred = [c \in DOMAIN plan |-> Inferred(Summary(plan[c]))]

\* Concatenations are sequences.
LEMMA ConcatIsSeq ==
  ASSUME NEW a, NEW b, a \in Seq(ToSet(a)), b \in Seq(ToSet(b))
  PROVE  a \o b \in Seq(ToSet(a \o b))
<1>1. PICK X : X = ToSet(a) \cup ToSet(b)
  OBVIOUS
<1>2. a \in Seq(X) /\ b \in Seq(X)
  BY <1>1
<1>3. PICK u : u = a \o b
  OBVIOUS
<1>4. u \in Seq(X)
  BY <1>2, <1>3
<1>5. DOMAIN u = 1 .. Len(u) /\ Len(u) \in Nat /\ u = [i \in 1 .. Len(u) |-> u[i]]
  BY <1>4
<1>6. \A i \in 1 .. Len(u) : u[i] \in ToSet(u)
  BY <1>5 DEF ToSet
<1>7. u \in Seq(ToSet(u))
  BY <1>5, <1>6
<1>8. QED
  BY <1>3, <1>7

\* What ReturnResolve records.
LEMMA ReturnResolveKeeps ==
  ASSUME suite \in Documents, ResultsCorrect, ReturnResolve
  PROVE  ResultsCorrect'
<1>1. /\ suite' = suite /\ validated' = validated /\ phase' = phase
      /\ phase = "resolving"
  BY DEF ReturnResolve, options
<1>2. PICK id, exps : id = Last(stack) /\ exps = suite.experiments
  OBVIOUS
<1>3. PICK exp : exp = ExpById(id)
  OBVIOUS
<1>4. PICK reused : reused = IF exp.reuse = Absent THEN << >> ELSE RunsOf(exp.reuse)
  OBVIOUS
<1>5. PICK m : m = [id |-> exp.id, runs |-> exp.runs \o reused]
  OBVIOUS
<1>6. memo' = Append(memo, m) /\ (exp.reuse = Absent \/ Memoized(exp.reuse))
  BY <1>2, <1>3, <1>4, <1>5 DEF ReturnResolve
<1>7. PICK s, q : s = memo /\ q = Append(s, m)
  OBVIOUS
<1>8. s \in Seq(ToSet(s))
  BY <1>7 DEF ResultsCorrect
<1>9. s \in Seq(ToSet(s) \cup {m})
  BY <1>8
<1>10. /\ q \in Seq(ToSet(s) \cup {m}) /\ Len(s) \in Nat
       /\ DOMAIN q = 1 .. Len(s) + 1
       /\ q[Len(s) + 1] = m
       /\ \A j \in 1 .. Len(s) : q[j] = s[j]
       /\ DOMAIN s = 1 .. Len(s)
       /\ Len(q) = Len(s) + 1
  BY <1>7, <1>9
<1>11. q \in Seq(ToSet(q))
  <2>1. \A j \in 1 .. Len(q) : q[j] \in ToSet(q)
    BY <1>10 DEF ToSet
  <2>2. q = [j \in 1 .. Len(q) |-> q[j]] /\ Len(q) \in Nat
    BY <1>10
  <2>3. QED
    BY <2>1, <2>2
<1>12. ASSUME validated
       PROVE  ValidExperiments(suite) /\ \A j \in DOMAIN q : OwnFirst(exps, q[j])
  <2>1. ValidExperiments(suite) /\ \A j \in DOMAIN s : OwnFirst(exps, s[j])
    BY <1>2, <1>7, <1>12 DEF ResultsCorrect
  <2>2. exp.id = id /\ exp.runs \in Seq(ToSet(exp.runs))
    BY <1>3, <2>1, ExpByIdType
  <2>3. m.id = id /\ m.runs = exp.runs \o reused
    BY <1>5, <2>2
  <2>4. reused \in Seq(ToSet(reused)) /\ (exp.reuse = Absent => reused = << >>)
    <3>1. CASE exp.reuse = Absent
      <4>1. reused = << >>
        BY <1>4, <3>1
      <4>2. << >> \in Seq(ToSet(<< >>))
        OBVIOUS
      <4>3. QED
        BY <4>1, <4>2
    <3>2. CASE exp.reuse # Absent
      <4>1. PICK parent : parent = exp.reuse
        OBVIOUS
      <4>2. \E j \in DOMAIN s : s[j].id = parent
        BY <1>6, <1>7, <3>2, <4>1 DEF Memoized
      <4>3. PICK c : c = CHOOSE j \in DOMAIN s : s[j].id = parent
        OBVIOUS
      <4>4. c \in DOMAIN s
        BY <4>2, <4>3, Zenon
      <4>5. reused = s[c].runs
        BY <1>4, <1>7, <3>2, <4>1, <4>3 DEF RunsOf
      <4>6. OwnFirst(exps, s[c])
        BY <2>1, <4>4
      <4>7. s[c].runs \in Seq(ToSet(s[c].runs))
        BY <4>6 DEF OwnFirst
      <4>8. QED
        BY <3>2, <4>5, <4>7
    <3>3. QED
      BY <3>1, <3>2
  <2>5. OwnFirst(exps, m)
    <3>1. m.runs \in Seq(ToSet(m.runs))
      BY <2>2, <2>3, <2>4, ConcatIsSeq
    <3>2. \A i \in DOMAIN exps : exps[i].id = m.id => exps[i] = exp
      BY <1>2, <1>3, <2>1, <2>3, ExpByIdType
    <3>3. QED
      BY <2>3, <2>4, <3>1, <3>2 DEF OwnFirst
  <2>6. ASSUME NEW j \in DOMAIN q
        PROVE  OwnFirst(exps, q[j])
    <3>1. CASE j = Len(s) + 1
      BY <1>10, <2>5, <3>1
    <3>2. CASE j # Len(s) + 1
      <4>1. j \in DOMAIN s /\ q[j] = s[j]
        BY <1>10, <3>2
      <4>2. QED
        BY <2>1, <4>1
    <3>3. QED
      BY <3>1, <3>2
  <2>7. QED
    BY <2>1, <2>6
<1>13. memo' = q
  BY <1>6, <1>7
<1>14. QED
  BY <1>1, <1>2, <1>11, <1>12, <1>13 DEF ResultsCorrect

AttributionCorrect == PlanCorrect /\ ResultsCorrect /\ InferenceCorrect

LEMMA AttributionCorrectInit ==
  Init => AttributionCorrect
<1> SUFFICES ASSUME Init
             PROVE  AttributionCorrect
  OBVIOUS
<1>1. memo = << >> /\ ~validated /\ phase = "document"
  BY DEF Init
<1>2. << >> \in Seq(ToSet(<< >>))
  OBVIOUS
<1>3. ResultsCorrect
  BY <1>1, <1>2 DEF ResultsCorrect
<1>4. QED
  BY <1>1, <1>3, PlanCorrectInit DEF AttributionCorrect, InferenceCorrect

\* The results stay correct while nothing is recorded and validation only
\* takes place before anything is.
LEMMA OtherStepsKeepResults ==
  ASSUME ResultsCorrect, suite' = suite, memo' = memo,
         phase' = "document" => phase = "document",
         validated' => validated \/ (phase = "document" /\ ValidExperiments(suite))
  PROVE  ResultsCorrect'
<1>1. PICK s : s = memo
  OBVIOUS
<1>2. s \in Seq(ToSet(s))
  BY <1>1 DEF ResultsCorrect
<1>3. ASSUME validated'
      PROVE  ValidExperiments(suite) /\ \A m \in DOMAIN s : OwnFirst(suite.experiments, s[m])
  <2>1. CASE validated
    BY <1>1, <2>1 DEF ResultsCorrect
  <2>2. CASE phase = "document" /\ ValidExperiments(suite)
    <3>1. s = << >>
      BY <1>1, <2>2 DEF ResultsCorrect
    <3>2. \A m \in DOMAIN s : FALSE
      BY <3>1
    <3>3. QED
      BY <2>2, <3>2
  <2>3. QED
    BY <1>3, <2>1, <2>2
<1>4. QED
  BY <1>1, <1>2, <1>3 DEF ResultsCorrect

LEMMA ResultsCorrectStep ==
  PlanCorrect /\ ResultsCorrect /\ [Next]_vars => ResultsCorrect'
<1> SUFFICES ASSUME PlanCorrect, ResultsCorrect, [Next]_vars
             PROVE  ResultsCorrect'
  OBVIOUS
<1>1. CASE Validate
  BY <1>1, OtherStepsKeepResults DEF Validate, options
<1>2. CASE Load
  BY <1>2, OtherStepsKeepResults DEF Load, options
<1>3. CASE PlanRun
  BY <1>3, OtherStepsKeepResults DEF PlanRun, options
<1>4. CASE EndOfPlan
  BY <1>4, OtherStepsKeepResults DEF EndOfPlan, options
<1>5. CASE CallResolve
  BY <1>5, OtherStepsKeepResults DEF CallResolve, options
<1>6. CASE CallParent
  BY <1>6, OtherStepsKeepResults DEF CallParent, options
<1>7. CASE ReturnResolve
  BY <1>7, ReturnResolveKeeps DEF PlanCorrect
<1>8. CASE Attribute
  BY <1>8, OtherStepsKeepResults DEF Attribute, options
<1>9. CASE UNCHANGED vars
  BY <1>9, OtherStepsKeepResults DEF vars, options
<1>10. QED
  BY <1>1, <1>2, <1>3, <1>4, <1>5, <1>6, <1>7, <1>8, <1>9 DEF Next, Ended

\* Attribute infers from the results, which stay as they are.
LEMMA InferenceCorrectStep ==
  InferenceCorrect /\ [Next]_vars => InferenceCorrect'
<1> SUFFICES ASSUME InferenceCorrect, [Next]_vars, phase' = "attributed"
             PROVE  /\ \A e \in Ids' : Memoized(e)'
                    /\ inferred' = [c \in DOMAIN plan |-> Inferred(Summary(plan[c]))]'
  BY DEF InferenceCorrect
<1>1. CASE Attribute
  BY <1>1 DEF Attribute, options, Memoized, Ids, Inferred, RunsOf
<1>2. CASE UNCHANGED vars
  <2>1. suite' = suite /\ memo' = memo /\ plan' = plan /\ inferred' = inferred
    BY <1>2 DEF vars, options
  <2>2. phase = "attributed"
    BY <1>2 DEF vars
  <2>3. \A e \in Ids : Memoized(e)
    BY <2>2 DEF InferenceCorrect
  <2>4. inferred = [c \in DOMAIN plan |-> Inferred(Summary(plan[c]))]
    BY <2>2 DEF InferenceCorrect
  <2>5. \A e \in Ids' : Memoized(e)'
    BY <2>1, <2>3 DEF Memoized, Ids
  <2>6. inferred' = [c \in DOMAIN plan |-> Inferred(Summary(plan[c]))]'
    BY <2>1, <2>4 DEF Inferred, RunsOf, Ids
  <2>7. QED
    BY <2>5, <2>6
<1>3. ~(Validate \/ Load \/ PlanRun \/ EndOfPlan \/ CallResolve \/ CallParent \/ ReturnResolve)
  BY DEF Validate, Load, PlanRun, EndOfPlan, CallResolve, CallParent, ReturnResolve
<1>4. QED
  BY <1>1, <1>2, <1>3 DEF Next, Ended

\* The results of resolved_runs and what is inferred from them are as they
\* should be.
THEOREM AttributionsAreCorrect == Spec => []AttributionCorrect
<1>1. Init => AttributionCorrect
  BY AttributionCorrectInit
<1>2. AttributionCorrect /\ [Next]_vars => AttributionCorrect'
  BY PlanCorrectStep, ResultsCorrectStep, InferenceCorrectStep DEF AttributionCorrect
<1>3. QED
  BY <1>1, <1>2, PTL DEF Spec

\* The runs of an experiment in a valid suite, once every one is resolved.
LEMMA RunsOfAre ==
  ASSUME suite \in Documents, ResultsCorrect, validated,
         \A e \in Ids : Memoized(e),
         NEW i \in DOMAIN suite.experiments
  PROVE  \E r : /\ r \in Seq(ToSet(r))
                /\ RunsOf(suite.experiments[i].id) = suite.experiments[i].runs \o r
                /\ suite.experiments[i].reuse = Absent => r = << >>
<1>1. PICK exps, e : exps = suite.experiments /\ e = exps[i].id
  OBVIOUS
<1>2. \E m \in DOMAIN memo : memo[m].id = e
  BY <1>1 DEF Memoized, Ids
<1>3. PICK c : c = CHOOSE m \in DOMAIN memo : memo[m].id = e
  OBVIOUS
<1>4. c \in DOMAIN memo /\ memo[c].id = e
  BY <1>2, <1>3, Zenon
<1>5. RunsOf(e) = memo[c].runs
  BY <1>3 DEF RunsOf
<1>6. OwnFirst(exps, memo[c])
  BY <1>1, <1>4 DEF ResultsCorrect
<1>7. QED
  BY <1>1, <1>4, <1>5, <1>6 DEF OwnFirst

\* A run and the run as it is planned differ in the scheduler only.
LEMMA ScheduledRun ==
  ASSUME NEW r \in Run
  PROVE  /\ Scheduled(r).workload = r.workload /\ Scheduled(r).size = r.size
         /\ Scheduled(r).topology = r.topology /\ Scheduled(r).balancer = r.balancer
         /\ Scheduled(r).steal = r.steal
         /\ Scheduled(r).scheduler =
              IF r.scheduler = Absent THEN suite.defaults.scheduler ELSE r.scheduler
BY DEF Scheduled, Run

\* The balancer and the work stealing of a run, as its case has them.
Balancer(run) ==
  IF run.topology # "mq" THEN "na"
  ELSE IF run.balancer = Absent THEN "leastloaded" ELSE run.balancer

Steal(run) ==
  IF run.topology # "mq" THEN "na"
  ELSE IF run.steal = Absent THEN "on" ELSE run.steal

\* A run of a valid suite as it is planned, whose rows can be told.
Told(run) ==
  /\ run.size \in Nat /\ run.steal \in {"on", "off", Absent}
  /\ run.topology \in {"sq", "mq"}
  /\ run.topology = "mq" => run.balancer \in {"rr", "leastloaded"}
  /\ run.size > 0 /\ Whole(run.size) = run.size
  /\ Lower(run.workload) \in DOMAIN WorkloadKeyToName \cup {"all"}
  /\ SchedulerCli[Lower(run.scheduler)] \in SimulatorSchedulers

\* What the rows of the case of such a run are summarized as.
LEMMA SummaryOfTold ==
  ASSUME NEW run, Told(run), NEW case, case.key = RunKey(run),
         NEW w, w = Lower(run.workload)
  PROVE  /\ Summary(case).workload =
              IF w = "all" THEN {GeneratorName[v] : v \in DOMAIN GeneratorName}
              ELSE {GeneratorName[w]}
         /\ Summary(case).size = run.size /\ Summary(case).topology = run.topology
         /\ run.topology = "mq" => /\ Summary(case).balancer = Balancer(run)
                                   /\ Summary(case).steal = Steal(run)
<1>1. PICK key : key = case.key
  OBVIOUS
<1>2. w \in DOMAIN GeneratorName \cup {"all"} /\ w \in DOMAIN WorkloadKeyToName \cup {"all"}
  BY DEF Told, GeneratorName, WorkloadKeyToName
<1>3. /\ key.workload = w /\ key.scheduler \in SimulatorSchedulers
      /\ key.size = run.size /\ key.topology = run.topology
      /\ key.balancer = Balancer(run) /\ key.steal = Steal(run)
  <2>1. WorkloadCli[w] = w
    BY <1>2, BuiltinsAssumption
  <2>2. QED  BY <1>1, <2>1 DEF RunKey, Told, Balancer, Steal
<1>4. WritesRows(key)
  BY <1>2, <1>3 DEF WritesRows, Told
<1>5. Lower(run.topology) = run.topology
  BY LowerCaseAssumption DEF Told, Lower
<1>6. run.topology = "mq" => /\ Balancer(run) # "na" /\ Lower(Balancer(run)) = Balancer(run)
                             /\ Steal(run) # "na"
  BY LowerCaseAssumption DEF Told, Lower, Balancer, Steal, Absent
<1>7. Summary(case) =
        [workload |-> IF w = "all" THEN {GeneratorName[v] : v \in DOMAIN GeneratorName}
                      ELSE {GeneratorName[w]},
         size     |-> run.size,
         topology |-> run.topology,
         balancer |-> IF run.topology # "mq" THEN "na"
                      ELSE IF Balancer(run) = "na" THEN "leastloaded"
                           ELSE Lower(Balancer(run)),
         steal    |-> IF run.topology # "mq" THEN "na"
                      ELSE IF Steal(run) = "na" THEN "on" ELSE Steal(run)]
  BY <1>1, <1>3, <1>4, <1>5 DEF Summary, Told
<1>8. QED  BY <1>6, <1>7

\* There are two workloads at least among all of them.
LEMMA ManyNames ==
  Cardinality({GeneratorName[w] : w \in DOMAIN GeneratorName}) >= 2
<1>1. PICK names : names = {GeneratorName[w] : w \in DOMAIN GeneratorName}
  OBVIOUS
<1>2. names = {"Server", "Desktop", "GoogleTraceV3", "AlibabaTraceV2018"}
  BY <1>1 DEF GeneratorName
<1>3. {"Server", "Desktop"} \subseteq names /\ IsFiniteSet(names)
  <2>1. IsFiniteSet({"Server"})
    BY FS_Singleton
  <2>2. IsFiniteSet({"Server"} \cup {"Desktop"})
    BY <2>1, FS_AddElement
  <2>3. IsFiniteSet({"Server"} \cup {"Desktop"} \cup {"GoogleTraceV3"})
    BY <2>2, FS_AddElement
  <2>4. IsFiniteSet({"Server"} \cup {"Desktop"} \cup {"GoogleTraceV3"} \cup {"AlibabaTraceV2018"})
    BY <2>3, FS_AddElement
  <2>5. names = {"Server"} \cup {"Desktop"} \cup {"GoogleTraceV3"} \cup {"AlibabaTraceV2018"}
    BY <1>2
  <2>6. QED  BY <1>2, <2>4, <2>5
<1>4. Cardinality({"Server", "Desktop"}) = 2
  <2>1. IsFiniteSet({"Server"}) /\ Cardinality({"Server"}) = 1
    BY FS_Singleton
  <2>2. Cardinality({"Server"} \cup {"Desktop"}) = 2
    BY <2>1, FS_AddElement
  <2>3. {"Server"} \cup {"Desktop"} = {"Server", "Desktop"}
    OBVIOUS
  <2>4. QED  BY <2>2, <2>3
<1>5. /\ Cardinality({"Server", "Desktop"}) <= Cardinality(names)
      /\ Cardinality(names) \in Nat
  BY <1>3, FS_Subset, FS_CardinalityType
<1>6. QED  BY <1>1, <1>4, <1>5

\* The two tables of names agree, and no two keys share a name.
LEMMA NamesAgree ==
  /\ DOMAIN GeneratorName = DOMAIN WorkloadKeyToName
  /\ \A v \in DOMAIN WorkloadKeyToName : GeneratorName[v] = WorkloadKeyToName[v]
  /\ \A v, w \in DOMAIN WorkloadKeyToName :
       WorkloadKeyToName[v] = WorkloadKeyToName[w] => v = w
<1>1. DOMAIN GeneratorName = DOMAIN WorkloadKeyToName
  BY DEF GeneratorName, WorkloadKeyToName
<1>2. DOMAIN WorkloadKeyToName = {"desktop", "server", "google", "alibaba"}
  BY DEF WorkloadKeyToName
<1>3. \A v \in DOMAIN WorkloadKeyToName : GeneratorName[v] = WorkloadKeyToName[v]
  BY <1>2 DEF GeneratorName, WorkloadKeyToName
<1>4. ASSUME NEW v \in DOMAIN WorkloadKeyToName, NEW w \in DOMAIN WorkloadKeyToName,
             WorkloadKeyToName[v] = WorkloadKeyToName[w]
      PROVE  v = w
  BY <1>2, <1>4 DEF WorkloadKeyToName
<1>5. QED  BY <1>1, <1>3, <1>4

\* Such a run matches the rows of a case of its configuration.
LEMMA MatchesOwnKey ==
  ASSUME NEW run, Told(run), NEW case, case.key = RunKey(run)
  PROVE  Matches(run, Summary(case))
<1>1. PICK w : w = Lower(run.workload)
  OBVIOUS
<1>2. PICK summary : summary = Summary(case)
  OBVIOUS
<1>3. /\ summary.workload = IF w = "all" THEN {GeneratorName[v] : v \in DOMAIN GeneratorName}
                            ELSE {GeneratorName[w]}
      /\ summary.size = run.size /\ summary.topology = run.topology
      /\ run.topology = "mq" => /\ summary.balancer = Balancer(run)
                                /\ summary.steal = Steal(run)
  BY <1>1, <1>2, SummaryOfTold
<1>4. HasWorkload(run, summary)
  <2>1. CASE w = "all"
    BY <1>1, <1>3, <2>1, ManyNames DEF HasWorkload
  <2>2. CASE w # "all"
    <3>1. w \in DOMAIN WorkloadKeyToName
      BY <1>1, <2>2 DEF Told
    <3>2. CanonicalName(w) = GeneratorName[w]
      BY <3>1, NamesAgree DEF CanonicalName
    <3>3. QED  BY <1>1, <1>3, <2>2, <3>2 DEF HasWorkload
  <2>3. QED  BY <2>1, <2>2
<1>5. QED  BY <1>2, <1>3, <1>4 DEF Matches, Balancer, Steal

\* Keys that differ by the scheduler at most.
Alike(k, l) == [k EXCEPT !.scheduler = l.scheduler] = l

\* Conversely the rows of a case tell its configuration, of all workloads and
\* of the scheduler apart.
LEMMA MatchesOnlyOwnKey ==
  ASSUME NEW run, Told(run), Lower(run.workload) # "all",
         NEW other, Told(other), Lower(other.workload) # "all",
         NEW case, case.key = RunKey(other), Matches(run, Summary(case))
  PROVE  Alike(RunKey(run), case.key)
<1>1. PICK v, w : v = Lower(run.workload) /\ w = Lower(other.workload)
  OBVIOUS
<1>2. v \in DOMAIN WorkloadKeyToName /\ w \in DOMAIN WorkloadKeyToName
  BY <1>1 DEF Told
<1>3. PICK summary : summary = Summary(case)
  OBVIOUS
<1>4. /\ summary.workload = {GeneratorName[w]}
      /\ summary.size = other.size /\ summary.topology = other.topology
      /\ other.topology = "mq" => /\ summary.balancer = Balancer(other)
                                  /\ summary.steal = Steal(other)
  BY <1>1, <1>3, SummaryOfTold
<1>5. /\ HasWorkload(run, summary)
      /\ run.size = summary.size /\ run.topology = summary.topology
      /\ run.topology = "mq" =>
           Balancer(run) = summary.balancer /\ Steal(run) = summary.steal
  BY <1>3 DEF Matches, Balancer, Steal
<1>6. v = w
  <2>1. CanonicalName(v) \in {GeneratorName[w]}
    BY <1>1, <1>4, <1>5 DEF HasWorkload
  <2>2. WorkloadKeyToName[v] = WorkloadKeyToName[w]
    BY <1>2, <2>1, NamesAgree DEF CanonicalName
  <2>3. QED  BY <1>2, <2>2, NamesAgree
<1>7. /\ run.size = other.size /\ run.topology = other.topology
      /\ Balancer(run) = Balancer(other) /\ Steal(run) = Steal(other)
  BY <1>4, <1>5 DEF Balancer, Steal
<1>8. PICK k, l : k = SchedulerCli[Lower(run.scheduler)] /\ l = SchedulerCli[Lower(other.scheduler)]
  OBVIOUS
<1>9. /\ RunKey(run) = [workload |-> WorkloadCli[v], scheduler |-> k, size |-> run.size,
                        topology |-> run.topology, balancer |-> Balancer(run),
                        steal |-> Steal(run)]
      /\ RunKey(other) = [workload |-> WorkloadCli[w], scheduler |-> l, size |-> other.size,
                          topology |-> other.topology, balancer |-> Balancer(other),
                          steal |-> Steal(other)]
  BY <1>1, <1>8 DEF RunKey, Balancer, Steal
<1>10. QED  BY <1>6, <1>7, <1>9 DEF Alike

\* A declared run of a valid suite whose runs can be told.
LEMMA DeclaredRunValid ==
  ASSUME suite \in Documents, ValidExperiments(suite), Recognizable,
         NEW d \in ToSet(DeclaredRuns)
  PROVE  /\ Told(d[2])
         /\ \E i \in DOMAIN suite.experiments :
              \E k \in DOMAIN suite.experiments[i].runs :
                /\ suite.experiments[i].id \in selected
                /\ suite.experiments[i].runs[k] \in Run
                /\ d = <<suite.experiments[i].id, Scheduled(suite.experiments[i].runs[k])>>
<1>1. PICK i \in DOMAIN suite.experiments : \E k \in DOMAIN suite.experiments[i].runs :
             /\ suite.experiments[i].id \in selected
             /\ d = <<suite.experiments[i].id, Scheduled(suite.experiments[i].runs[k])>>
  BY DeclaredRunsAre
<1>2. PICK k \in DOMAIN suite.experiments[i].runs :
             /\ suite.experiments[i].id \in selected
             /\ d = <<suite.experiments[i].id, Scheduled(suite.experiments[i].runs[k])>>
  BY <1>1
<1>3. PICK run : run = suite.experiments[i].runs[k]
  OBVIOUS
<1>4. ValidRun(run)
  BY <1>3 DEF ValidExperiments
<1>5. run \in Run
  BY <1>3, DocumentsAssumption DEF ToSet
<1>6. PICK planned : planned = Scheduled(run)
  OBVIOUS
<1>7. d[2] = planned
  BY <1>2, <1>3, <1>6
<1>8. /\ planned.workload = run.workload /\ planned.size = run.size
      /\ planned.topology = run.topology /\ planned.balancer = run.balancer
      /\ planned.steal = run.steal
  BY <1>5, <1>6, ScheduledRun
<1>9. /\ Lower(planned.workload) \in DOMAIN WorkloadKeyToName \cup {"all"}
      /\ SchedulerCli[Lower(planned.scheduler)] \in SimulatorSchedulers
      /\ Whole(planned.size) = planned.size
  BY <1>7 DEF Recognizable
<1>10. run.size \in Nat /\ run.steal \in {"on", "off", Absent}
  BY <1>5 DEF Run
<1>11. Told(planned)
  BY <1>4, <1>8, <1>9, <1>10 DEF Told, ValidRun
<1>12. QED
  BY <1>2, <1>3, <1>5, <1>7, <1>11

\* A run matches the rows of a case whatever its scheduler.
LEMMA MatchesScheduled ==
  ASSUME NEW r \in Run, NEW summary
  PROVE  Matches(Scheduled(r), summary) <=> Matches(r, summary)
<1>1. PICK p : p = Scheduled(r)
  OBVIOUS
<1>2. /\ p.workload = r.workload /\ p.size = r.size /\ p.topology = r.topology
      /\ p.balancer = r.balancer /\ p.steal = r.steal
  BY <1>1, ScheduledRun
<1>3. HasWorkload(p, summary) <=> HasWorkload(r, summary)
  BY <1>2 DEF HasWorkload
<1>4. Matches(p, summary) <=> Matches(r, summary)
  BY <1>2, <1>3 DEF Matches
<1>5. QED  BY <1>1, <1>4

\* Cases of such runs that differ by the scheduler have the same summary.
LEMMA SummaryOfAlike ==
  ASSUME NEW p, Told(p), NEW q, Told(q), NEW case, case.key = RunKey(q),
         case.key = [RunKey(p) EXCEPT !.scheduler = case.key.scheduler]
  PROVE  Summary([key |-> RunKey(p)]) = Summary(case)
<1>1. PICK a, b : a = RunKey(p) /\ b = RunKey(q)
  OBVIOUS
<1>2. b = [a EXCEPT !.scheduler = b.scheduler]
  BY <1>1
<1>3. /\ a.workload = b.workload /\ a.size = b.size /\ a.topology = b.topology
      /\ a.balancer = b.balancer /\ a.steal = b.steal
  BY <1>1, <1>2 DEF RunKey
<1>4. a.scheduler \in SimulatorSchedulers /\ b.scheduler \in SimulatorSchedulers
  BY <1>1 DEF RunKey, Told
<1>5. WritesRows(a) <=> WritesRows(b)
  BY <1>3, <1>4 DEF WritesRows
<1>6. PICK one : one = [key |-> a]
  OBVIOUS
<1>7. one.key = a /\ case.key = b
  BY <1>1, <1>6
<1>8. Summary(one) = Summary(case)
  BY <1>3, <1>5, <1>7 DEF Summary
<1>9. QED  BY <1>1, <1>6, <1>8

\* Every case of a correct plan is that of a declared run.
LEMMA KeyOfDeclared ==
  ASSUME PlanCorrect, Planned, NEW c \in DOMAIN plan
  PROVE  \E d \in ToSet(DeclaredRuns) : RunKey(d[2]) = plan[c].key
<1>1. plan \in Seq(Case(DeclaredRuns))
  BY DEF PlanCorrect, PlanOf
<1>2. PICK x : x = plan[c]
  OBVIOUS
<1>3. x \in Case(DeclaredRuns)
  BY <1>1, <1>2
<1>4. x.key \in {RunKey(d[2]) : d \in ToSet(DeclaredRuns)}
  BY <1>3 DEF Case
<1>5. QED  BY <1>2, <1>4

\* What was recorded for a case is inferred from the rows of every case that
\* differs from it by the scheduler at most.
LEMMA RecordedIsInferred ==
  ASSUME AttributionCorrect, phase = "attributed", validated, Recognizable,
         NEW c \in DOMAIN plan, NEW b \in AlikeButScheduler(c),
         NEW e \in ToSet(plan[b].experiments)
  PROVE  e \in inferred[c]
<1>1. /\ suite \in Documents /\ ResultsCorrect /\ ValidExperiments(suite) /\ PlanCorrect
      /\ \A id \in Ids : Memoized(id)
      /\ inferred[c] = Inferred(Summary(plan[c]))
  BY DEF AttributionCorrect, PlanCorrect, ResultsCorrect, InferenceCorrect
<1>2. PlanCoversRuns /\ Planned
  BY <1>1, PlanCorrectCovers DEF Planned
<1>3. b \in DOMAIN plan /\ [plan[b].key EXCEPT !.scheduler = plan[c].key.scheduler] = plan[c].key
  BY DEF AlikeButScheduler
<1>4. PICK d \in ToSet(DeclaredRuns) : d[1] = e /\ RunKey(d[2]) = plan[b].key
  BY <1>2, <1>3 DEF PlanCoversRuns
<1>5. PICK i \in DOMAIN suite.experiments : \E k \in DOMAIN suite.experiments[i].runs :
        /\ suite.experiments[i].runs[k] \in Run
        /\ d = <<suite.experiments[i].id, Scheduled(suite.experiments[i].runs[k])>>
  BY <1>1, DeclaredRunValid
<1>6. PICK k \in DOMAIN suite.experiments[i].runs :
        /\ suite.experiments[i].runs[k] \in Run
        /\ d = <<suite.experiments[i].id, Scheduled(suite.experiments[i].runs[k])>>
  BY <1>5
<1>7. PICK own : own = suite.experiments[i].runs
  OBVIOUS
<1>8. PICK run : run = own[k]
  OBVIOUS
<1>9. run \in Run /\ d[1] = suite.experiments[i].id /\ d[2] = Scheduled(run)
  BY <1>6, <1>7, <1>8
<1>10. Matches(run, Summary(plan[c]))
  <2>1. PICK g \in ToSet(DeclaredRuns) : RunKey(g[2]) = plan[c].key
    BY <1>1, <1>2, KeyOfDeclared
  <2>2. PICK p, q : p = d[2] /\ q = g[2]
    OBVIOUS
  <2>3. Told(p) /\ Told(q)
    BY <1>1, <2>2, DeclaredRunValid
  <2>4. PICK key : key = plan[c].key
    OBVIOUS
  <2>5. /\ key = RunKey(q)
        /\ key = [RunKey(p) EXCEPT !.scheduler = key.scheduler]
    BY <1>3, <1>4, <2>1, <2>2, <2>4
  <2>6. Matches(p, Summary([key |-> RunKey(p)]))
    BY <2>3, MatchesOwnKey
  <2>7. Summary([key |-> RunKey(p)]) = Summary(plan[c])
    BY <2>3, <2>4, <2>5, SummaryOfAlike
  <2>8. Matches(Scheduled(run), Summary(plan[c]))
    BY <1>9, <2>2, <2>6, <2>7
  <2>9. QED  BY <1>9, <2>8, MatchesScheduled
<1>11. PICK r : r \in Seq(ToSet(r)) /\ RunsOf(e) = own \o r
  BY <1>1, <1>4, <1>7, <1>9, RunsOfAre
<1>12. own \in Seq(ToSet(own))
  BY <1>1, <1>7, DocumentsAssumption DEF IsSeq
<1>13. k \in DOMAIN (own \o r) /\ (own \o r)[k] = own[k]
  BY <1>7, <1>11, <1>12
<1>14. k \in DOMAIN RunsOf(e) /\ RunsOf(e)[k] = run
  BY <1>8, <1>11, <1>13
<1>15. e \in Ids
  BY <1>4, <1>9 DEF Ids
<1>16. QED  BY <1>1, <1>10, <1>14, <1>15 DEF Inferred

\* In a plain suite nothing else is.
LEMMA InferredIsRecorded ==
  ASSUME AttributionCorrect, phase = "attributed", validated, Recognizable, Plain,
         NEW c \in DOMAIN plan, NEW e \in inferred[c]
  PROVE  \E b \in AlikeButScheduler(c) : e \in ToSet(plan[b].experiments)
<1>1. /\ suite \in Documents /\ ResultsCorrect /\ ValidExperiments(suite) /\ PlanCorrect
      /\ \A id \in Ids : Memoized(id)
      /\ inferred[c] = Inferred(Summary(plan[c]))
  BY DEF AttributionCorrect, PlanCorrect, ResultsCorrect, InferenceCorrect
<1>2. PlanCoversRuns /\ Planned
  BY <1>1, PlanCorrectCovers DEF Planned
<1>3. /\ selected = Ids
      /\ \A d \in ToSet(DeclaredRuns) : Lower(d[2].workload) # "all"
      /\ \A id \in Ids : ExpById(id).reuse = Absent
  BY DEF Plain
<1>4. PICK k \in DOMAIN RunsOf(e) : e \in Ids /\ Matches(RunsOf(e)[k], Summary(plan[c]))
  BY <1>1 DEF Inferred
<1>5. PICK i \in DOMAIN suite.experiments : e = suite.experiments[i].id
  BY <1>4 DEF Ids
<1>6. PICK own : own = suite.experiments[i].runs
  OBVIOUS
<1>7. suite.experiments[i].reuse = Absent
  BY <1>1, <1>3, <1>4, <1>5, ExpByIdIs
<1>8. own \in Seq(ToSet(own)) /\ ToSet(own) \subseteq Run
  BY <1>1, <1>6, DocumentsAssumption DEF IsSeq
<1>9. RunsOf(e) = own
  <2>1. RunsOf(e) = own \o << >>
    BY <1>1, <1>5, <1>6, <1>7, RunsOfAre
  <2>2. QED  BY <1>8, <2>1
<1>10. PICK run : run = own[k]
  OBVIOUS
<1>11. run \in Run
  BY <1>4, <1>8, <1>9, <1>10 DEF ToSet
<1>12. PICK d : d = <<e, Scheduled(run)>>
  OBVIOUS
<1>13. d \in ToSet(DeclaredRuns) /\ d[1] = e /\ d[2] = Scheduled(run)
  BY <1>1, <1>3, <1>4, <1>5, <1>6, <1>9, <1>10, <1>12, DeclaredRunsAre
<1>14. PICK g \in ToSet(DeclaredRuns) : RunKey(g[2]) = plan[c].key
  BY <1>1, <1>2, KeyOfDeclared
<1>15. PICK p, q : p = d[2] /\ q = g[2]
  OBVIOUS
<1>16. Told(p) /\ Lower(p.workload) # "all" /\ Told(q) /\ Lower(q.workload) # "all"
  BY <1>1, <1>3, <1>13, <1>15, DeclaredRunValid
<1>17. Matches(p, Summary(plan[c]))
  BY <1>4, <1>9, <1>10, <1>11, <1>13, <1>15, MatchesScheduled
<1>18. plan[c].key = RunKey(q)
  BY <1>14, <1>15
<1>19. [RunKey(p) EXCEPT !.scheduler = plan[c].key.scheduler] = plan[c].key
  <2>1. Alike(RunKey(p), plan[c].key)
    BY <1>16, <1>17, <1>18, MatchesOnlyOwnKey
  <2>2. QED  BY <2>1 DEF Alike
<1>20. PICK b \in DOMAIN plan : plan[b].key = RunKey(p) /\ e \in ToSet(plan[b].experiments)
  BY <1>2, <1>13, <1>15 DEF PlanCoversRuns
<1>21. b \in AlikeButScheduler(c)
  BY <1>19, <1>20 DEF AlikeButScheduler
<1>22. QED  BY <1>20, <1>21

\* What the correct results, plan and inference say of the two attributions.
LEMMA AttributionCorrectAgrees ==
  AttributionCorrect => AttributionAgrees
<1> SUFFICES ASSUME AttributionCorrect, phase = "attributed", validated, Recognizable,
                    NEW c \in DOMAIN plan
             PROVE  /\ ToSet(plan[c].experiments) \subseteq inferred[c]
                    /\ Plain => inferred[c] =
                         UNION {ToSet(plan[d].experiments) : d \in AlikeButScheduler(c)}
  BY DEF AttributionAgrees
<1>1. c \in AlikeButScheduler(c)
  <2>1. plan[c].key \in {RunKey(d[2]) : d \in ToSet(DeclaredRuns)}
    <3>1. PlanCorrect /\ Planned
      BY DEF AttributionCorrect, Planned
    <3>2. QED  BY <3>1, KeyOfDeclared
  <2>2. PICK key : key = plan[c].key
    OBVIOUS
  <2>3. [key EXCEPT !.scheduler = key.scheduler] = key
    BY <2>1, <2>2 DEF RunKey
  <2>4. QED  BY <2>2, <2>3 DEF AlikeButScheduler
<1>2. ToSet(plan[c].experiments) \subseteq inferred[c]
  BY <1>1, RecordedIsInferred
<1>3. ASSUME Plain
      PROVE  inferred[c] = UNION {ToSet(plan[d].experiments) : d \in AlikeButScheduler(c)}
  <2>1. \A e \in inferred[c] : \E b \in AlikeButScheduler(c) : e \in ToSet(plan[b].experiments)
    BY <1>3, InferredIsRecorded
  <2>2. \A b \in AlikeButScheduler(c) : \A e \in ToSet(plan[b].experiments) : e \in inferred[c]
    BY RecordedIsInferred
  <2>3. QED  BY <2>1, <2>2
<1>4. QED  BY <1>2, <1>3

\* What the runner recorded for a case and what aggregate_results.py infers from
\* its rows do not contradict each other, for every set of documents and plugins.
THEOREM AttributionsAgree == Spec => []AttributionAgrees
<1>1. Spec => []AttributionCorrect
  BY AttributionsAreCorrect
<1>2. AttributionCorrect => AttributionAgrees
  BY AttributionCorrectAgrees
<1>3. QED
  BY <1>1, <1>2, PTL

-----------------------------------------------------------------------------
\* Reuse.

Reuse(id) == ExpById(id).reuse

\* What resolving may rely on, for an id of the document.
KnownId(id) ==
  /\ ExpById(id).id = id /\ Reuse(id) \in Ids \cup {Absent}
  /\ \E i \in DOMAIN suite.experiments : ExpById(id) = suite.experiments[i]

\* exp_by_id finds an experiment, and what that reuses is known.
LEMMA KnownIds ==
  ASSUME suite \in Documents, RunnerAccepts(suite), NEW id \in Ids
  PROVE  KnownId(id)
<1>1. PICK exps, n : exps = suite.experiments /\ n = Len(exps)
  OBVIOUS
<1>2. DOMAIN exps = 1 .. n /\ n \in Nat
  BY <1>1, DeclaredRunsType, DocumentsAssumption DEF IsSeq
<1> DEFINE IsLast(j) == exps[j].id = id /\ \A k \in j + 1 .. Len(exps) : exps[k].id # id
           S == {k \in 0 .. n : (\A j \in 1 .. k : exps[j].id # id)
                                 \/ \E j \in 1 .. k : /\ exps[j].id = id
                                                      /\ \A l \in j + 1 .. k : exps[l].id # id}
<1>3. 0 \in S
  BY <1>2
<1>4. ASSUME NEW k \in 1 .. n, k - 1 \in S
      PROVE  k \in S
  <2>1. k \in Nat /\ k \in 0 .. n /\ \A j \in 1 .. k : j \in 1 .. k - 1 \/ j = k
    BY <1>2
  <2>2. CASE exps[k].id = id
    <3>1. k \in 1 .. k /\ \A l \in k + 1 .. k : exps[l].id # id
      BY <2>1
    <3>2. QED
      BY <2>1, <2>2, <3>1
  <2>3. CASE exps[k].id # id /\ \A j \in 1 .. k - 1 : exps[j].id # id
    BY <2>1, <2>3
  <2>4. CASE exps[k].id # id /\ \E j \in 1 .. k - 1 : /\ exps[j].id = id
                                   /\ \A l \in j + 1 .. k - 1 : exps[l].id # id
    <3>1. PICK j \in 1 .. k - 1 : /\ exps[j].id = id
                                  /\ \A l \in j + 1 .. k - 1 : exps[l].id # id
      BY <2>4
    <3>2. j \in 1 .. k /\ \A l \in j + 1 .. k : l \in j + 1 .. k - 1 \/ l = k
      BY <2>1
    <3>3. \A l \in j + 1 .. k : exps[l].id # id
      BY <2>4, <3>1, <3>2
    <3>4. QED
      BY <2>1, <3>1, <3>2, <3>3
  <2>5. QED
    BY <1>4, <2>2, <2>3, <2>4
<1>5. 0 .. n \subseteq S
  <2> HIDE DEF S
  <2>1. QED
    BY <1>2, <1>3, <1>4, UpTo
<1>6. \E j \in DOMAIN exps : exps[j].id = id
  BY <1>1 DEF Ids
<1>7. n \in S
  <2> HIDE DEF S
  <2>1. n \in 0 .. n
    BY <1>2
  <2>2. QED
    BY <1>5, <2>1
<1>8. \E j \in DOMAIN exps : IsLast(j)
  BY <1>1, <1>2, <1>6, <1>7
<1>9. PICK c : c = CHOOSE j \in DOMAIN exps : IsLast(j)
  OBVIOUS
<1>10. c \in DOMAIN exps /\ IsLast(c)
  <2> HIDE DEF IsLast
  <2>1. QED
    BY <1>8, <1>9, Zenon
<1>11. ExpById(id) = exps[c]
  BY <1>1, <1>9 DEF ExpById
<1>12. exps[c].reuse \in Ids \cup {Absent}
  <2>1. exps[c].reuse \in AllIds(suite) \cup {Absent}
    BY <1>1, <1>10 DEF RunnerAccepts
  <2>2. QED
    BY <2>1 DEF AllIds, Ids
<1>13. QED
  BY <1>1, <1>10, <1>11, <1>12 DEF KnownId, Reuse

\* A sequence without repetition is no longer than there are elements.
LEMMA DistinctLength ==
  ASSUME NEW S, IsFiniteSet(S), NEW s \in Seq(S), Distinct(s)
  PROVE  Len(s) <= Cardinality(S)
<1>1. PICK m \in Nat : m = Len(s)
  OBVIOUS
<1>2. DOMAIN s = 1 .. m /\ \A i \in 1 .. m : s[i] \in S
  BY <1>1
<1>3. \A i, j \in 1 .. m : s[i] = s[j] => i = j
  BY <1>2 DEF Distinct
<1> DEFINE f == [i \in 1 .. m |-> s[i]]
<1>4. f \in Injection(1 .. m, S)
  <2>1. f \in [1 .. m -> S]
    BY <1>2
  <2>2. \A i, j \in 1 .. m : f[i] = f[j] => i = j
    BY <1>3
  <2> HIDE DEF f
  <2>3. QED
    BY <2>1, <2>2 DEF Injection, IsInjective
<1> HIDE DEF f
<1>5. Cardinality(1 .. m) <= Cardinality(S)
  BY <1>4, FS_Injection
<1>6. Cardinality(1 .. m) = m
  <2>1. 1 \in Int /\ m \in Int
    OBVIOUS
  <2>2. Cardinality(1 .. m) = IF 1 > m THEN 0 ELSE m - 1 + 1
    BY <2>1, FS_Interval
  <2>3. (IF 1 > m THEN 0 ELSE m - 1 + 1) = m
    OBVIOUS
  <2>4. QED
    BY <2>2, <2>3
<1>7. QED
  BY <1>1, <1>5, <1>6

\* There are fewer ids than calls that may be open.
LEMMA FewIds ==
  ASSUME suite \in Documents
  PROVE  /\ IsFiniteSet(Ids) /\ Cardinality(Ids) \in Nat /\ Cardinality(Ids) < RecursionLimit
         /\ RecursionLimit \in Nat /\ Absent \notin Ids
<1>1. PICK exps, n : exps = suite.experiments /\ n = Len(exps)
  OBVIOUS
<1>2. DOMAIN exps = 1 .. n /\ n \in Nat
  BY <1>1, DeclaredRunsType, DocumentsAssumption DEF IsSeq
<1>3. IsFiniteSet(1 .. n) /\ Cardinality(1 .. n) = n
  <2>1. 1 \in Int /\ n \in Int
    BY <1>2
  <2>2. IsFiniteSet(1 .. n) /\ Cardinality(1 .. n) = IF 1 > n THEN 0 ELSE n - 1 + 1
    BY <2>1, FS_Interval
  <2>3. (IF 1 > n THEN 0 ELSE n - 1 + 1) = n
    BY <1>2
  <2>4. QED
    BY <2>2, <2>3
<1> DEFINE f == [i \in 1 .. n |-> exps[i].id]
<1>4. f \in Surjection(1 .. n, Ids)
  <2>1. f \in [1 .. n -> Ids]
    BY <1>1, <1>2 DEF Ids
  <2>2. \A e \in Ids : \E i \in 1 .. n : f[i] = e
    BY <1>1, <1>2 DEF Ids
  <2> HIDE DEF f
  <2>3. QED
    BY <2>1, <2>2 DEF Surjection
<1> HIDE DEF f
<1>5. IsFiniteSet(Ids) /\ Cardinality(Ids) <= n
  BY <1>3, <1>4, FS_Surjection
<1>6. Cardinality(Ids) \in Nat
  BY <1>5, FS_CardinalityType
<1>7. n < RecursionLimit /\ RecursionLimit \in Nat
  BY <1>1, RecursionLimitAssumption
<1>8. Absent \notin Ids
  BY AbsentAssumption DEF AllIds, Ids
<1>9. QED
  BY <1>2, <1>5, <1>6, <1>7, <1>8

\* A chain of reuse from id, without repetition.
Path(id, c) ==
  /\ c \in Seq(Ids) /\ Distinct(c) /\ Len(c) > 0 /\ c[1] = id
  /\ \A i \in 1 .. Len(c) - 1 : c[i + 1] = Reuse(c[i])

\* It cannot be continued.
Stopped(c) == Reuse(Last(c)) \in {Absent} \cup ToSet(c)

\* One step of Chain.
Continued(c) == IF Stopped(c) THEN c ELSE Append(c, Reuse(Last(c)))

Chains(id, n, f) == f = [i \in 0 .. n |-> IF i = 0 THEN <<id>> ELSE Continued(f[i - 1])]

\* There are such chains.
LEMMA ChainsExist ==
  ASSUME NEW id, NEW n \in Nat
  PROVE  \E f : Chains(id, n, f)
<1> DEFINE S == {k \in 0 .. n : \E f : Chains(id, k, f)}
<1>1. 0 \in S
  <2>1. PICK f : f = [i \in 0 .. 0 |-> <<id>>]
    OBVIOUS
  <2>2. \A i \in 0 .. 0 : i = 0
    OBVIOUS
  <2>3. Chains(id, 0, f)
    BY <2>1, <2>2 DEF Chains
  <2>4. QED
    BY <2>3
<1>2. ASSUME NEW k \in 1 .. n, k - 1 \in S
      PROVE  k \in S
  <2>1. PICK f : Chains(id, k - 1, f)
    BY <1>2
  <2>2. PICK g : g = [i \in 0 .. k |-> IF i = k THEN Continued(f[k - 1]) ELSE f[i]]
    OBVIOUS
  <2>3. ASSUME NEW i \in 0 .. k
        PROVE  g[i] = IF i = 0 THEN <<id>> ELSE Continued(g[i - 1])
    <3>1. CASE i = 0
      <4>1. g[i] = f[i] /\ 0 \in 0 .. k - 1
        BY <2>2, <3>1
      <4>2. f[0] = <<id>>
        BY <2>1, <4>1 DEF Chains
      <4>3. QED
        BY <3>1, <4>1, <4>2
    <3>2. CASE i = k
      <4>1. g[i] = Continued(f[k - 1]) /\ k # 0
        BY <2>2, <3>2
      <4>2. g[k - 1] = f[k - 1]
        BY <2>2
      <4>3. QED
        BY <3>2, <4>1, <4>2
    <3>3. CASE i # 0 /\ i # k
      <4>1. i \in 0 .. k - 1 /\ i - 1 \in 0 .. k /\ i - 1 # k
        BY <3>3
      <4>2. g[i] = f[i] /\ g[i - 1] = f[i - 1]
        BY <2>2, <3>3, <4>1
      <4>3. f[i] = Continued(f[i - 1])
        BY <2>1, <3>3, <4>1 DEF Chains
      <4>4. QED
        BY <3>3, <4>2, <4>3
    <3>4. QED
      BY <3>1, <3>2, <3>3
  <2>4. Chains(id, k, g)
    BY <2>2, <2>3 DEF Chains
  <2>5. k \in 0 .. n
    OBVIOUS
  <2>6. QED
    BY <2>4, <2>5
<1> HIDE DEF S
<1>3. 0 .. n \subseteq S
  BY <1>1, <1>2, UpTo
<1>4. n \in 0 .. n
  OBVIOUS
<1>5. n \in S
  BY <1>3, <1>4
<1>6. QED
  BY <1>5 DEF S

\* Chain takes the last of them.
LEMMA ChainIs ==
  ASSUME IsFiniteSet(Ids), NEW id
  PROVE  \E f : Chains(id, Cardinality(Ids), f) /\ Chain(id) = f[Cardinality(Ids)]
<1>1. PICK n \in Nat : n = Cardinality(Ids)
  BY FS_CardinalityType
<1> DEFINE F(h) == [i \in 0 .. n |-> IF i = 0 THEN <<id>>
                      ELSE LET next == ExpById(Last(h[i - 1])).reuse
                           IN  IF next \in {Absent} \cup ToSet(h[i - 1]) THEN h[i - 1]
                               ELSE Append(h[i - 1], next)]
           h == CHOOSE h : h = F(h)
<1>2. Chain(id) = h[n]
  BY <1>1 DEF Chain
<1>3. \A g : g = F(g) <=> Chains(id, n, g)
  BY DEF Chains, Continued, Stopped, Reuse
<1> HIDE DEF F
<1>4. PICK g : g = F(g)
  BY <1>3, ChainsExist
<1>5. h = F(h)
  BY <1>4, Zenon
<1> HIDE DEF h
<1>6. Chains(id, n, h)
  BY <1>3, <1>5
<1>7. QED
  BY <1>1, <1>2, <1>6

\* A chain continued is a chain.
LEMMA PathContinued ==
  ASSUME suite \in Documents, RunnerAccepts(suite), NEW id, NEW c, Path(id, c)
  PROVE  /\ Path(id, Continued(c))
         /\ Stopped(c) => Continued(c) = c
         /\ ~ Stopped(c) => Len(Continued(c)) = Len(c) + 1
<1>1. CASE Stopped(c)
  BY <1>1 DEF Continued
<1>2. CASE ~ Stopped(c)
  <2>1. PICK n \in Nat : n = Len(c)
    BY DEF Path
  <2>2. /\ c \in Seq(Ids) /\ Distinct(c) /\ n > 0 /\ c[1] = id /\ DOMAIN c = 1 .. n
        /\ \A i \in 1 .. n - 1 : c[i + 1] = Reuse(c[i])
    BY <2>1 DEF Path
  <2>3. PICK x : x = Reuse(Last(c))
    OBVIOUS
  <2>4. Last(c) = c[n] /\ c[n] \in Ids
    BY <2>1, <2>2 DEF Last
  <2>5. x \in Ids /\ x \notin ToSet(c)
    BY <1>2, <2>3, <2>4, KnownIds DEF KnownId, Stopped
  <2>6. PICK d : d = Append(c, x)
    OBVIOUS
  <2>7. /\ d \in Seq(Ids) /\ Len(d) = n + 1 /\ d[n + 1] = x
        /\ \A i \in 1 .. n : d[i] = c[i]
    BY <2>1, <2>2, <2>5, <2>6
  <2>8. Distinct(d)
    BY <2>2, <2>5, <2>6, AppendFacts
  <2>9. \A i \in 1 .. n : d[i + 1] = Reuse(d[i])
    <3>1. ASSUME NEW i \in 1 .. n
          PROVE  d[i + 1] = Reuse(d[i])
      <4>1. CASE i = n
        BY <2>3, <2>4, <2>7, <4>1
      <4>2. CASE i # n
        <5>1. i \in 1 .. n - 1 /\ i + 1 \in 1 .. n
          BY <2>1, <4>2
        <5>2. QED
          BY <2>2, <2>7, <5>1
      <4>3. QED
        BY <4>1, <4>2
    <3>2. QED
      BY <3>1
  <2>10. Path(id, d)
    <3>1. Len(d) > 0 /\ d[1] = id /\ Len(d) - 1 = n
      BY <2>2, <2>7
    <3>2. QED
      BY <2>7, <2>8, <2>9, <3>1 DEF Path
  <2>11. Continued(c) = d
    BY <1>2, <2>3, <2>6 DEF Continued
  <2>12. QED
    BY <1>2, <2>1, <2>7, <2>10, <2>11
<1>3. QED
  BY <1>1, <1>2

\* Chain follows reuse until it ends or comes back.
LEMMA ChainFacts ==
  ASSUME suite \in Documents, RunnerAccepts(suite), NEW id \in Ids
  PROVE  Path(id, Chain(id)) /\ Stopped(Chain(id))
<1>1. IsFiniteSet(Ids) /\ Cardinality(Ids) \in Nat
  BY FewIds
<1>2. PICK n \in Nat : n = Cardinality(Ids)
  BY <1>1
<1>3. PICK f : Chains(id, n, f) /\ Chain(id) = f[n]
  BY <1>1, <1>2, ChainIs
<1> DEFINE Good(i) == Path(id, f[i]) /\ (Stopped(f[i]) \/ Len(f[i]) = i + 1)
           S == {i \in 0 .. n : Good(i)}
<1>4. 0 \in S
  <2>1. f[0] = <<id>>
    BY <1>3 DEF Chains
  <2>2. PICK c : c = <<id>>
    OBVIOUS
  <2>3. c \in Seq(Ids) /\ Len(c) = 1 /\ c[1] = id /\ DOMAIN c = 1 .. 1
    BY <2>2
  <2>4. Distinct(c)
    BY <2>3 DEF Distinct
  <2>5. Path(id, c)
    BY <2>3, <2>4 DEF Path
  <2>6. QED
    BY <2>1, <2>2, <2>3, <2>5
<1>5. ASSUME NEW i \in 1 .. n, i - 1 \in S
      PROVE  i \in S
  <2>1. i \in 0 .. n /\ i # 0 /\ i - 1 + 1 = i
    OBVIOUS
  <2>2. PICK c, d : c = f[i - 1] /\ d = f[i]
    OBVIOUS
  <2>3. d = Continued(c)
    BY <1>3, <2>1, <2>2 DEF Chains
  <2>4. Path(id, c) /\ (Stopped(c) \/ Len(c) = i)
    BY <1>5, <2>1, <2>2
  <2>5. Path(id, d) /\ (Stopped(c) => d = c) /\ (~ Stopped(c) => Len(d) = Len(c) + 1)
    BY <2>3, <2>4, PathContinued
  <2>6. Stopped(d) \/ Len(d) = i + 1
    BY <2>4, <2>5
  <2>7. QED
    BY <2>1, <2>2, <2>5, <2>6
<1>6. n \in S
  <2> HIDE DEF S
  <2>1. 0 .. n \subseteq S
    BY <1>4, <1>5, UpTo
  <2>2. n \in 0 .. n
    OBVIOUS
  <2>3. QED
    BY <2>1, <2>2
<1>7. Len(f[n]) <= n
  <2>1. f[n] \in Seq(Ids) /\ Distinct(f[n])
    BY <1>6 DEF Path
  <2>2. QED
    BY <1>1, <1>2, <2>1, DistinctLength
<1>8. Len(f[n]) # n + 1
  <2>1. f[n] \in Seq(Ids)
    BY <1>6 DEF Path
  <2>2. Len(f[n]) \in Nat
    BY <2>1
  <2>3. QED
    BY <1>7, <2>2
<1>9. QED
  BY <1>3, <1>6, <1>8

\* A walk along reuse from id, which may repeat itself.
Walk(id, w) ==
  /\ w \in Seq(Ids) /\ Len(w) > 0 /\ w[1] = id
  /\ \A i \in 1 .. Len(w) - 1 : w[i + 1] = Reuse(w[i])

\* Every walk is a part of every longer one.
LEMMA WalksAgree ==
  ASSUME NEW id, NEW w, NEW x, Walk(id, w), Walk(id, x), Len(w) <= Len(x)
  PROVE  \A i \in 1 .. Len(w) : x[i] = w[i]
<1>1. PICK n \in Nat, m \in Nat : n = Len(w) /\ m = Len(x)
  BY DEF Walk
<1>2. n <= m /\ n > 0
  BY <1>1 DEF Walk
<1> DEFINE S == {i \in 0 .. n : i = 0 \/ x[i] = w[i]}
<1>3. 0 \in S
  OBVIOUS
<1>4. ASSUME NEW i \in 1 .. n, i - 1 \in S
      PROVE  i \in S
  <2>1. CASE i = 1
    BY <2>1 DEF Walk
  <2>2. CASE i # 1
    <3>1. PICK j \in 1 .. n - 1 : j = i - 1
      BY <2>2
    <3>2. j + 1 = i /\ j \in 1 .. m - 1 /\ j # 0
      BY <1>2, <3>1
    <3>3. x[j] = w[j]
      BY <1>4, <3>1, <3>2
    <3>4. x[j + 1] = Reuse(x[j]) /\ w[j + 1] = Reuse(w[j])
      BY <1>1, <3>1, <3>2 DEF Walk
    <3>5. QED
      BY <3>2, <3>3, <3>4
  <2>3. QED
    BY <2>1, <2>2
<1> HIDE DEF S
<1>5. 0 .. n \subseteq S
  BY <1>3, <1>4, UpTo
<1>6. QED
  BY <1>1, <1>5 DEF S

\* Where reuse ends, every walk ends.
LEMMA WalkEnds ==
  ASSUME suite \in Documents, NEW id, NEW w, NEW x, Walk(id, w), Walk(id, x),
         Reuse(Last(w)) = Absent
  PROVE  Len(x) <= Len(w)
<1>1. PICK n \in Nat, m \in Nat : n = Len(w) /\ m = Len(x)
  BY DEF Walk
<1>2. SUFFICES ASSUME n < m
               PROVE  FALSE
  BY <1>1
<1>3. n > 0 /\ \A i \in 1 .. n : x[i] = w[i]
  <2>1. Len(w) <= Len(x)
    BY <1>1, <1>2
  <2>2. n > 0
    BY <1>1 DEF Walk
  <2>3. QED
    BY <1>1, <2>1, <2>2, WalksAgree
<1>4. x[n] = Last(w) /\ n \in 1 .. m - 1 /\ n + 1 \in 1 .. m
  BY <1>1, <1>2, <1>3 DEF Last
<1>5. x[n + 1] = Absent
  BY <1>1, <1>4 DEF Walk
<1>6. x[n + 1] \in Ids
  BY <1>1, <1>4 DEF Walk
<1>7. QED
  BY <1>5, <1>6, FewIds

LEMMA PathIsWalk ==
  ASSUME NEW id, NEW c, Path(id, c)
  PROVE  Walk(id, c)
BY DEF Path, Walk

\* A chain that ends, and without repetition, is Chain.
LEMMA ChainUnique ==
  ASSUME suite \in Documents, RunnerAccepts(suite), NEW id \in Ids,
         NEW d, Path(id, d), Reuse(Last(d)) = Absent
  PROVE  Chain(id) = d /\ ~ Cyclic(id)
<1>1. PICK c : c = Chain(id)
  OBVIOUS
<1>2. Path(id, c) /\ Stopped(c)
  BY <1>1, ChainFacts
<1>3. PICK n \in Nat, m \in Nat : n = Len(c) /\ m = Len(d)
  BY <1>2 DEF Path
<1>4. n <= m
  BY <1>2, <1>3, PathIsWalk, WalkEnds
<1>5. /\ n > 0 /\ DOMAIN c = 1 .. n /\ DOMAIN d = 1 .. m /\ c \in Seq(Ids) /\ d \in Seq(Ids)
      /\ \A i \in 1 .. n : d[i] = c[i]
  <2>1. \A i \in 1 .. n : d[i] = c[i]
    BY <1>2, <1>3, <1>4, PathIsWalk, WalksAgree
  <2>2. n > 0 /\ c \in Seq(Ids) /\ d \in Seq(Ids)
    BY <1>2, <1>3 DEF Path
  <2>3. QED
    BY <1>3, <2>1, <2>2
<1>6. n = m
  <2>1. SUFFICES ASSUME n < m
                 PROVE  FALSE
    BY <1>4
  <2>2. Last(c) = d[n] /\ n \in 1 .. m - 1 /\ n + 1 \in 1 .. m
    BY <1>3, <1>5, <2>1 DEF Last
  <2>3. d[n + 1] = Reuse(Last(c)) /\ d[n + 1] \in Ids
    BY <1>3, <1>5, <2>2 DEF Path
  <2>4. d[n + 1] \in ToSet(c)
    BY <1>2, <2>3, FewIds DEF Stopped
  <2>5. PICK i \in 1 .. n : d[n + 1] = c[i]
    BY <1>5, <2>4 DEF ToSet
  <2>6. d[n + 1] = d[i] /\ i \in DOMAIN d /\ n + 1 \in DOMAIN d /\ i # n + 1
    BY <1>5, <2>2, <2>5
  <2>7. QED
    BY <2>6 DEF Path, Distinct
<1>7. c = d
  BY <1>3, <1>5, <1>6
<1>8. QED
  BY <1>1, <1>7 DEF Cyclic, Reuse

\* An experiment that reuses none.
LEMMA ChainOfRoot ==
  ASSUME suite \in Documents, RunnerAccepts(suite), NEW id \in Ids, Reuse(id) = Absent
  PROVE  Chain(id) = <<id>> /\ ~ Cyclic(id)
<1>1. PICK d : d = <<id>>
  OBVIOUS
<1>2. d \in Seq(Ids) /\ Len(d) = 1 /\ d[1] = id /\ DOMAIN d = 1 .. 1
  BY <1>1
<1>3. Distinct(d) /\ Last(d) = id
  BY <1>2 DEF Distinct, Last
<1>4. Path(id, d)
  BY <1>2, <1>3 DEF Path
<1>5. QED
  BY <1>1, <1>3, <1>4, ChainUnique

\* An element before a sequence.
Prepended(x, s, t) ==
  /\ Len(t) = Len(s) + 1 /\ t[1] = x
  /\ \A i \in 1 .. Len(s) : t[i + 1] = s[i]

LEMMA PrependedFacts ==
  ASSUME NEW X, NEW x \in X, NEW s \in Seq(X)
  PROVE  <<x>> \o s \in Seq(X) /\ Prepended(x, s, <<x>> \o s)
BY DEF Prepended

\* FlattenSeq of one sequence, and of one before others.
LEMMA FlattenPrepended ==
  ASSUME NEW X, NEW x \in Seq(X), NEW s \in Seq(Seq(X)), NEW t \in Seq(Seq(X)), Prepended(x, s, t)
  PROVE  FlattenSeq(t) = x \o FlattenSeq(s)
<1>1. PICK f : Concatenates(s, f, X)
  BY ConcatenationExists
<1>2. PICK g : Concatenates(t, g, X)
  BY ConcatenationExists
<1>3. PICK n \in Nat : n = Len(s)
  OBVIOUS
<1>4. Len(t) = n + 1 /\ t[1] = x /\ \A i \in 1 .. n : t[i + 1] = s[i]
  BY <1>3 DEF Prepended
<1>5. f \in [0 .. n -> Seq(X)] /\ f[0] = << >> /\ \A i \in 1 .. n : f[i] = f[i - 1] \o s[i]
  BY <1>1, <1>3 DEF Concatenates
<1>6. g[0] = << >> /\ \A i \in 1 .. n + 1 : g[i] = g[i - 1] \o t[i]
  BY <1>2, <1>4 DEF Concatenates
<1> DEFINE S == {i \in 0 .. n : g[i + 1] = x \o f[i]}
<1>7. 0 \in S
  <2>1. 1 \in 1 .. n + 1 /\ 1 - 1 = 0 /\ 0 + 1 = 1
    OBVIOUS
  <2>2. g[1] = << >> \o x
    BY <1>4, <1>6, <2>1
  <2>3. << >> \o x = x /\ x \o << >> = x
    OBVIOUS
  <2>4. g[0 + 1] = x \o f[0]
    BY <1>5, <2>1, <2>2, <2>3
  <2>5. QED
    BY <2>4
<1>8. ASSUME NEW i \in 1 .. n, i - 1 \in S
      PROVE  i \in S
  <2>1. i + 1 \in 1 .. n + 1 /\ i + 1 - 1 = i /\ i - 1 + 1 = i /\ i - 1 \in 0 .. n /\ i \in 0 .. n
    OBVIOUS
  <2>2. g[i + 1] = g[i] \o s[i]
    <3>1. PICK k \in Int : k = i + 1
      OBVIOUS
    <3>2. k \in 1 .. n + 1 /\ k - 1 = i
      BY <3>1
    <3>3. g[k] = g[k - 1] \o t[k]
      BY <1>6, <3>2
    <3>4. t[k] = s[i]
      BY <1>4, <3>1
    <3>5. QED
      BY <3>1, <3>2, <3>3, <3>4
  <2>3. g[i] = x \o f[i - 1]
    BY <1>8, <2>1
  <2>4. PICK u, v : u = f[i - 1] /\ v = s[i]
    OBVIOUS
  <2>5. u \in Seq(X) /\ v \in Seq(X)
    <3>1. f[i - 1] \in Seq(X)
      BY <1>5, <2>1
    <3>2. s[i] \in Seq(X)
      BY <1>3
    <3>3. QED
      BY <2>4, <3>1, <3>2
  <2>6. (x \o u) \o v = x \o (u \o v)
    BY <2>5, ConcatAssociative
  <2>7. f[i] = u \o v
    BY <1>5, <2>4
  <2>8. g[i + 1] = x \o f[i]
    BY <2>2, <2>3, <2>4, <2>6, <2>7
  <2>9. QED
    BY <2>1, <2>8
<1> HIDE DEF S
<1>9. 0 .. n \subseteq S
  BY <1>7, <1>8, UpTo
<1>10. g[n + 1] = x \o f[n]
  <2>1. n \in 0 .. n
    OBVIOUS
  <2>2. QED
    BY <1>9, <2>1 DEF S
<1>11. FlattenSeq(s) = f[n] /\ FlattenSeq(t) = g[n + 1]
  BY <1>1, <1>2, <1>3, <1>4, FlattenConcatenates
<1>12. QED
  BY <1>10, <1>11

\* An experiment that reuses one whose chain ends.
LEMMA ChainOfChild ==
  ASSUME suite \in Documents, RunnerAccepts(suite), NEW id \in Ids, Reuse(id) # Absent,
         ~ Cyclic(Reuse(id))
  PROVE  Chain(id) = <<id>> \o Chain(Reuse(id)) /\ ~ Cyclic(id)
<1>1. PICK p, c : p = Reuse(id) /\ c = Chain(p)
  OBVIOUS
<1>2. p \in Ids
  BY <1>1, KnownIds DEF KnownId
<1>3. Path(p, c) /\ Reuse(Last(c)) = Absent
  BY <1>1, <1>2, ChainFacts DEF Cyclic, Reuse
<1>4. PICK n \in Nat : n = Len(c)
  BY <1>3 DEF Path
<1>5. /\ c \in Seq(Ids) /\ n > 0 /\ DOMAIN c = 1 .. n /\ c[1] = p
      /\ \A i \in 1 .. n - 1 : c[i + 1] = Reuse(c[i])
      /\ Last(c) = c[n]
  BY <1>3, <1>4 DEF Path, Last
<1>6. PICK d : d = <<id>> \o c
  OBVIOUS
<1>7. d \in Seq(Ids) /\ Len(d) = n + 1 /\ d[1] = id /\ \A i \in 1 .. n : d[i + 1] = c[i]
  BY <1>4, <1>5, <1>6, PrependedFacts DEF Prepended
<1>8. \A i \in 1 .. n : c[i] # id
  <2> SUFFICES ASSUME NEW i \in 1 .. n, c[i] = id
               PROVE  FALSE
    OBVIOUS
  <2>1. CASE i = n
    BY <1>1, <1>3, <1>5, <2>1
  <2>2. CASE i # n
    <3>1. i \in 1 .. n - 1 /\ i + 1 \in DOMAIN c /\ 1 \in DOMAIN c /\ i + 1 # 1
      BY <1>5, <2>2
    <3>2. c[i + 1] = c[1]
      BY <1>1, <1>5, <3>1
    <3>3. QED
      BY <1>3, <3>1, <3>2 DEF Path, Distinct
  <2>3. QED
    BY <2>1, <2>2
<1>9. \A i \in 1 .. n : d[i + 1] = Reuse(d[i])
  <2> SUFFICES ASSUME NEW i \in 1 .. n
               PROVE  d[i + 1] = Reuse(d[i])
    OBVIOUS
  <2>1. CASE i = 1
    BY <1>1, <1>5, <1>7, <2>1
  <2>2. CASE i # 1
    <3>1. PICK j \in 1 .. n - 1 : j = i - 1
      BY <2>2
    <3>2. j + 1 = i /\ j \in 1 .. n
      BY <3>1
    <3>3. d[j + 1] = c[j] /\ d[i + 1] = c[i] /\ c[j + 1] = Reuse(c[j])
      BY <1>5, <1>7, <3>1, <3>2
    <3>4. QED
      BY <3>2, <3>3
  <2>3. QED
    BY <2>1, <2>2
<1>10. Distinct(d)
  <2> SUFFICES ASSUME NEW i \in DOMAIN d, NEW j \in DOMAIN d, d[i] = d[j]
               PROVE  i = j
    BY DEF Distinct
  <2>1. i \in 1 .. n + 1 /\ j \in 1 .. n + 1
    BY <1>7
  <2>2. i = 1 \/ (i - 1 \in 1 .. n /\ d[i] = c[i - 1])
    <3>1. PICK k \in Int : k = i - 1
      BY <2>1
    <3>2. k + 1 = i /\ (i # 1 => k \in 1 .. n)
      BY <2>1, <3>1
    <3>3. i # 1 => d[k + 1] = c[k]
      BY <1>7, <3>2
    <3>4. QED
      BY <3>1, <3>2, <3>3
  <2>3. j = 1 \/ (j - 1 \in 1 .. n /\ d[j] = c[j - 1])
    <3>1. PICK k \in Int : k = j - 1
      BY <2>1
    <3>2. k + 1 = j /\ (j # 1 => k \in 1 .. n)
      BY <2>1, <3>1
    <3>3. j # 1 => d[k + 1] = c[k]
      BY <1>7, <3>2
    <3>4. QED
      BY <3>1, <3>2, <3>3
  <2>4. CASE i = 1 \/ j = 1
    BY <1>7, <1>8, <2>2, <2>3, <2>4
  <2>5. CASE i # 1 /\ j # 1
    <3>1. i - 1 = j - 1
      BY <1>3, <1>5, <2>2, <2>3, <2>5 DEF Path, Distinct
    <3>2. QED
      BY <2>1, <3>1
  <2>6. QED
    BY <2>4, <2>5
<1>11. Path(id, d)
  <2>1. Len(d) > 0 /\ Len(d) - 1 = n
    BY <1>7
  <2>2. QED
    BY <1>7, <1>9, <1>10, <2>1 DEF Path
<1>12. Last(d) = Last(c)
  <2>1. n \in 1 .. n
    BY <1>5
  <2>2. QED
    BY <1>5, <1>7, <2>1 DEF Last
<1>13. QED
  BY <1>1, <1>3, <1>6, <1>11, <1>12, ChainUnique

\* The runs of experiments, one after the other.
Along(c) == [i \in DOMAIN c |-> ExpById(c[i]).runs]

RunsAlong(id) == FlattenSeq(Along(Chain(id)))

AllRuns == UNION {ToSet(ExpById(e).runs) : e \in Ids}

LEMMA AlongType ==
  ASSUME suite \in Documents, RunnerAccepts(suite), NEW c \in Seq(Ids)
  PROVE  /\ Along(c) \in Seq(Seq(AllRuns)) /\ Len(Along(c)) = Len(c)
         /\ \A i \in 1 .. Len(c) : Along(c)[i] = ExpById(c[i]).runs
<1>1. PICK n \in Nat : n = Len(c)
  OBVIOUS
<1>2. DOMAIN c = 1 .. n /\ \A i \in 1 .. n : c[i] \in Ids
  BY <1>1
<1>3. ASSUME NEW e \in Ids
      PROVE  ExpById(e).runs \in Seq(AllRuns)
  <2>1. PICK i \in DOMAIN suite.experiments : ExpById(e) = suite.experiments[i]
    BY KnownIds DEF KnownId
  <2>2. PICK r : r = ExpById(e).runs
    OBVIOUS
  <2>3. r \in Seq(ToSet(r))
    BY <2>1, <2>2, DocumentsAssumption DEF IsSeq
  <2>4. ToSet(r) \subseteq AllRuns
    BY <2>2 DEF AllRuns
  <2>5. r \in Seq(AllRuns)
    <3>1. /\ r = [k \in 1 .. Len(r) |-> r[k]] /\ Len(r) \in Nat
          /\ \A k \in 1 .. Len(r) : r[k] \in ToSet(r)
      BY <2>3
    <3>2. QED
      BY <2>4, <3>1
  <2>6. QED
    BY <2>2, <2>5
<1>4. Along(c) = [i \in 1 .. n |-> ExpById(c[i]).runs]
  BY <1>2 DEF Along
<1>5. \A i \in 1 .. n : ExpById(c[i]).runs \in Seq(AllRuns)
  BY <1>2, <1>3
<1>6. QED
  BY <1>1, <1>4, <1>5

LEMMA AlongPrepended ==
  ASSUME suite \in Documents, RunnerAccepts(suite), NEW c \in Seq(Ids), NEW id \in Ids
  PROVE  FlattenSeq(Along(<<id>> \o c)) = ExpById(id).runs \o FlattenSeq(Along(c))
<1>1. PICK n \in Nat : n = Len(c)
  OBVIOUS
<1> DEFINE d == <<id>> \o c
<1>2. d \in Seq(Ids) /\ Len(d) = n + 1 /\ d[1] = id /\ \A i \in 1 .. n : d[i + 1] = c[i]
  BY <1>1, PrependedFacts DEF Prepended
<1> HIDE DEF d
<1>3. PICK s, t : s = Along(c) /\ t = Along(d)
  OBVIOUS
<1>4. s \in Seq(Seq(AllRuns)) /\ Len(s) = n /\ \A i \in 1 .. n : s[i] = ExpById(c[i]).runs
  BY <1>1, <1>3, AlongType
<1>5. t \in Seq(Seq(AllRuns)) /\ Len(t) = n + 1 /\ \A i \in 1 .. n + 1 : t[i] = ExpById(d[i]).runs
  BY <1>2, <1>3, AlongType
<1>6. PICK x : x = ExpById(id).runs
  OBVIOUS
<1>7. t[1] = x /\ x \in Seq(AllRuns)
  <2>1. 1 \in 1 .. n + 1
    OBVIOUS
  <2>2. t[1] = x
    BY <1>2, <1>5, <1>6, <2>1
  <2>3. t[1] \in Seq(AllRuns)
    BY <1>5, <2>1
  <2>4. QED
    BY <2>2, <2>3
<1>8. ASSUME NEW i \in 1 .. n
      PROVE  t[i + 1] = s[i]
  <2>1. PICK k \in 1 .. n + 1 : k = i + 1
    OBVIOUS
  <2>2. t[k] = ExpById(d[k]).runs /\ d[k] = c[i]
    BY <1>2, <1>5, <2>1
  <2>3. QED
    BY <1>4, <2>1, <2>2
<1>9. Prepended(x, s, t)
  BY <1>4, <1>5, <1>7, <1>8 DEF Prepended
<1>10. FlattenSeq(t) = x \o FlattenSeq(s)
  BY <1>4, <1>5, <1>7, <1>9, FlattenPrepended
<1>11. QED
  BY <1>3, <1>6, <1>10 DEF d

\* What resolved_runs may record, and the calls that may be open.
Results == {[id |-> e, runs |-> RunsAlong(e)] : e \in {f \in Ids : ~ Cyclic(f)}}

Walks == {w \in Seq(Ids) : Walk(w[1], w)}

ResolvingCorrect ==
  /\ phase = "planning" \/ Planned => RunnerAccepts(suite)
  /\ ~ Planned => stack = << >> /\ memo = << >>
  /\ stack \in {<< >>} \cup Walks
  /\ memo \in Seq(Results)
  /\ phase = "overflow" => Len(stack) >= RecursionLimit

\* All of it is about the document.
LEMMA SameDocument ==
  ASSUME suite' = suite
  PROVE  Results' = Results /\ Walks' = Walks
<1>1. Walks' = Walks
  BY DEF Walks, Walk, Reuse, ExpById, Ids
<1>2. Results' = Results
  BY DEF Results, RunsAlong, Along, Cyclic, Chain, ExpById, Ids
<1>3. QED
  BY <1>1, <1>2

\* A result that is found is the one recorded.
LEMMA RunsOfResult ==
  ASSUME memo \in Seq(Results), NEW e, Memoized(e)
  PROVE  e \in Ids /\ ~ Cyclic(e) /\ RunsOf(e) = RunsAlong(e)
<1>1. \E m \in DOMAIN memo : memo[m].id = e
  BY DEF Memoized
<1>2. PICK c : c = CHOOSE m \in DOMAIN memo : memo[m].id = e
  OBVIOUS
<1>3. c \in DOMAIN memo /\ memo[c].id = e
  BY <1>1, <1>2, Zenon
<1>4. RunsOf(e) = memo[c].runs
  BY <1>2 DEF RunsOf
<1>5. PICK m : m = memo[c]
  OBVIOUS
<1>6. m \in Results
  BY <1>3, <1>5
<1>7. PICK f \in Ids : ~ Cyclic(f) /\ m = [id |-> f, runs |-> RunsAlong(f)]
  BY <1>6 DEF Results
<1>8. m.id = f /\ m.runs = RunsAlong(f)
  BY <1>7
<1>9. QED
  BY <1>3, <1>4, <1>5, <1>7, <1>8

\* What a call returns are the runs along the chain, which ends.
LEMMA ReturnsResult ==
  ASSUME suite \in Documents, RunnerAccepts(suite), memo \in Seq(Results), NEW id \in Ids,
         Reuse(id) = Absent \/ Memoized(Reuse(id)),
         NEW reused, reused = IF Reuse(id) = Absent THEN << >> ELSE RunsOf(Reuse(id))
  PROVE  [id |-> id, runs |-> ExpById(id).runs \o reused] \in Results
<1>1. SUFFICES ~ Cyclic(id) /\ RunsAlong(id) = ExpById(id).runs \o reused
  BY DEF Results
<1>2. CASE Reuse(id) = Absent
  <2>1. Chain(id) = <<id>> /\ ~ Cyclic(id)
    BY <1>2, ChainOfRoot
  <2>2. PICK c : c = << >>
    OBVIOUS
  <2>3. c \in Seq(Ids) /\ <<id>> \o c = <<id>> /\ Len(c) = 0
    BY <2>2
  <2>4. FlattenSeq(Along(c)) = << >>
    <3>1. Along(c) \in Seq(Seq(AllRuns)) /\ Len(Along(c)) = 0
      BY <2>3, AlongType
    <3>2. Along(c) = << >>
      BY <3>1
    <3>3. FlattenSeq(<< >>) = << >>
      BY DEF FlattenSeq
    <3>4. QED
      BY <3>2, <3>3
  <2>5. FlattenSeq(Along(<<id>>)) = ExpById(id).runs \o << >>
    BY <2>3, <2>4, AlongPrepended
  <2>6. QED
    BY <1>2, <2>1, <2>5 DEF RunsAlong
<1>3. CASE Reuse(id) # Absent
  <2>1. PICK p, c : p = Reuse(id) /\ c = Chain(p)
    OBVIOUS
  <2>2. Memoized(p) /\ reused = RunsOf(p)
    BY <1>3, <2>1
  <2>3. p \in Ids /\ ~ Cyclic(p) /\ reused = RunsAlong(p)
    BY <2>2, RunsOfResult
  <2>4. Chain(id) = <<id>> \o c /\ ~ Cyclic(id)
    BY <1>3, <2>1, <2>3, ChainOfChild
  <2>5. c \in Seq(Ids)
    BY <2>1, <2>3, ChainFacts DEF Path
  <2>6. RunsAlong(p) = FlattenSeq(Along(c))
    BY <2>1 DEF RunsAlong
  <2>7. FlattenSeq(Along(<<id>> \o c)) = ExpById(id).runs \o reused
    BY <2>3, <2>5, <2>6, AlongPrepended
  <2>8. QED
    BY <2>4, <2>7 DEF RunsAlong
<1>4. QED
  BY <1>2, <1>3

\* The last of the open calls.
LEMMA LastOpen ==
  ASSUME suite \in Documents, RunnerAccepts(suite), NEW w \in Walks
  PROVE  /\ Last(w) \in Ids /\ KnownId(Last(w)) /\ Len(w) \in Nat
         /\ Reuse(Last(w)) # Absent => Append(w, Reuse(Last(w))) \in Walks
         /\ Front(w) \in {<< >>} \cup Walks
<1>1. PICK n \in Nat : n = Len(w)
  BY DEF Walks
<1>2. /\ w \in Seq(Ids) /\ n > 0 /\ DOMAIN w = 1 .. n
      /\ \A i \in 1 .. n - 1 : w[i + 1] = Reuse(w[i])
  BY <1>1 DEF Walks, Walk
<1>3. Last(w) = w[n] /\ w[n] \in Ids
  BY <1>1, <1>2 DEF Last
<1>4. KnownId(Last(w))
  BY <1>3, KnownIds
<1>5. ASSUME Reuse(Last(w)) # Absent
      PROVE  Append(w, Reuse(Last(w))) \in Walks
  <2>1. PICK x, d : x = Reuse(Last(w)) /\ d = Append(w, x)
    OBVIOUS
  <2>2. x \in Ids
    BY <1>4, <1>5, <2>1 DEF KnownId
  <2>3. /\ d \in Seq(Ids) /\ Len(d) = n + 1 /\ d[n + 1] = x
        /\ \A i \in 1 .. n : d[i] = w[i]
    BY <1>1, <1>2, <2>1, <2>2
  <2>4. ASSUME NEW i \in 1 .. n
        PROVE  d[i + 1] = Reuse(d[i])
    <3>1. CASE i = n
      BY <1>3, <2>1, <2>3, <3>1
    <3>2. CASE i # n
      <4>1. i \in 1 .. n - 1 /\ i + 1 \in 1 .. n
        BY <3>2
      <4>2. QED
        BY <1>2, <2>3, <4>1
    <3>3. QED
      BY <3>1, <3>2
  <2>5. Walk(d[1], d)
    <3>1. Len(d) > 0 /\ Len(d) - 1 = n
      BY <2>3
    <3>2. QED
      BY <2>3, <2>4, <3>1 DEF Walk
  <2>6. QED
    BY <2>1, <2>3, <2>5 DEF Walks
<1>6. Front(w) \in {<< >>} \cup Walks
  <2>1. PICK d : d = Front(w)
    OBVIOUS
  <2>2. d = [i \in 1 .. n - 1 |-> w[i]]
    BY <1>1, <2>1 DEF Front
  <2>3. PICK k \in Nat : k = n - 1
    BY <1>2
  <2>4. d \in Seq(Ids) /\ Len(d) = k /\ \A i \in 1 .. k : d[i] = w[i]
    <3>1. d = [i \in 1 .. k |-> w[i]] /\ \A i \in 1 .. k : w[i] \in Ids
      BY <1>2, <2>2, <2>3
    <3>2. QED
      BY <3>1
  <2>5. CASE k = 0
    BY <2>1, <2>4, <2>5
  <2>6. CASE k # 0
    <3>1. ASSUME NEW i \in 1 .. k - 1
          PROVE  d[i + 1] = Reuse(d[i])
      <4>1. i \in 1 .. n - 1 /\ i \in 1 .. k /\ i + 1 \in 1 .. k
        BY <2>3
      <4>2. QED
        BY <1>2, <2>4, <4>1
    <3>2. Walk(d[1], d)
      BY <2>4, <2>6, <3>1 DEF Walk
    <3>3. QED
      BY <2>1, <2>4, <3>2 DEF Walks
  <2>7. QED
    BY <2>5, <2>6
<1>7. QED
  BY <1>1, <1>3, <1>4, <1>5, <1>6

LEMMA ResolvingCorrectInit ==
  Init => ResolvingCorrect
BY DEF Init, ResolvingCorrect, Planned

LEMMA CallResolveKeeps ==
  ASSUME suite \in Documents, ResolvingCorrect, CallResolve
  PROVE  ResolvingCorrect'
<1>1. /\ suite' = suite /\ memo' = memo /\ phase' = phase
      /\ phase = "resolving"
  BY DEF CallResolve, options
<1>2. PICK i \in DOMAIN suite.experiments : stack' = <<suite.experiments[i].id>>
  BY DEF CallResolve
<1>3. PICK id, w : id = suite.experiments[i].id /\ w = <<id>>
  OBVIOUS
<1>4. id \in Ids
  BY <1>3 DEF Ids
<1>5. w \in Seq(Ids) /\ Len(w) = 1 /\ w[1] = id
  BY <1>3, <1>4
<1>6. w \in Walks
  <2>1. Len(w) > 0 /\ \A j \in 1 .. Len(w) - 1 : FALSE
    BY <1>5
  <2>2. QED
    BY <1>5, <2>1 DEF Walks, Walk
<1>7. stack' \in Walks' /\ memo' \in Seq(Results')
  BY <1>1, <1>2, <1>3, <1>6, SameDocument DEF ResolvingCorrect
<1>8. RunnerAccepts(suite)'
  BY <1>1 DEF ResolvingCorrect, Planned, RunnerAccepts, AllIds
<1>9. QED
  BY <1>1, <1>7, <1>8 DEF ResolvingCorrect, Planned

LEMMA CallParentKeeps ==
  ASSUME suite \in Documents, ResolvingCorrect, CallParent
  PROVE  ResolvingCorrect'
<1>1. /\ suite' = suite /\ memo' = memo /\ phase = "resolving" /\ stack # << >>
  BY DEF CallParent, options
<1>2. PICK w : w = stack
  OBVIOUS
<1>3. w \in Walks /\ RunnerAccepts(suite) /\ memo \in Seq(Results)
  BY <1>1, <1>2 DEF ResolvingCorrect, Planned
<1>4. PICK p : p = Reuse(Last(w))
  OBVIOUS
<1>5. /\ p # Absent
      /\ IF Len(w) < RecursionLimit THEN stack' = Append(w, p) /\ phase' = phase
         ELSE phase' = "overflow" /\ stack' = w
  BY <1>2, <1>4 DEF CallParent, Reuse
<1>6. Append(w, p) \in Walks /\ Len(w) \in Nat
  BY <1>3, <1>4, <1>5, LastOpen
<1>7. RecursionLimit \in Nat
  BY FewIds
<1>8. RunnerAccepts(suite)' /\ memo' \in Seq(Results')
  BY <1>1, <1>3, SameDocument DEF RunnerAccepts, AllIds
<1>9. CASE Len(w) < RecursionLimit
  <2>1. stack' \in Walks'
    <3>1. stack' = Append(w, p)
      BY <1>5, <1>9
    <3>2. QED
      BY <1>1, <1>6, <3>1, SameDocument
  <2>2. QED
    BY <1>1, <1>5, <1>8, <1>9, <2>1 DEF ResolvingCorrect, Planned
<1>10. CASE ~ (Len(w) < RecursionLimit)
  <2>1. stack' \in Walks'
    BY <1>1, <1>3, <1>5, <1>10, SameDocument
  <2>2. Len(stack') >= RecursionLimit
    BY <1>5, <1>6, <1>7, <1>10
  <2>3. QED
    BY <1>5, <1>8, <1>10, <2>1, <2>2 DEF ResolvingCorrect, Planned
<1>11. QED
  BY <1>9, <1>10

LEMMA ReturnResolveKeepsResults ==
  ASSUME suite \in Documents, ResolvingCorrect, ReturnResolve
  PROVE  ResolvingCorrect'
<1>1. /\ suite' = suite /\ phase' = phase /\ phase = "resolving" /\ stack # << >>
  BY DEF ReturnResolve, options
<1>2. PICK w : w = stack
  OBVIOUS
<1>3. w \in Walks /\ RunnerAccepts(suite) /\ memo \in Seq(Results)
  BY <1>1, <1>2 DEF ResolvingCorrect, Planned
<1>4. PICK id, exp : id = Last(w) /\ exp = ExpById(id)
  OBVIOUS
<1>5. id \in Ids /\ exp.id = id /\ Front(w) \in {<< >>} \cup Walks
  BY <1>3, <1>4, LastOpen DEF KnownId
<1>6. PICK reused : reused = IF exp.reuse = Absent THEN << >> ELSE RunsOf(exp.reuse)
  OBVIOUS
<1>7. PICK m : m = [id |-> id, runs |-> exp.runs \o reused]
  OBVIOUS
<1>8. exp.reuse = Absent \/ Memoized(exp.reuse)
  BY <1>2, <1>4 DEF ReturnResolve
<1>9. m \in Results
  BY <1>3, <1>4, <1>5, <1>6, <1>7, <1>8, ReturnsResult DEF Reuse
<1>10. memo' = Append(memo, m) /\ stack' = Front(w)
  BY <1>2, <1>4, <1>5, <1>6, <1>7 DEF ReturnResolve
<1>11. memo' \in Seq(Results') /\ stack' \in {<< >>} \cup Walks'
  <2>1. Append(memo, m) \in Seq(Results)
    BY <1>3, <1>9
  <2>2. QED
    BY <1>1, <1>5, <1>10, <2>1, SameDocument
<1>12. RunnerAccepts(suite)'
  BY <1>1, <1>3 DEF RunnerAccepts, AllIds
<1>13. QED
  BY <1>1, <1>11, <1>12 DEF ResolvingCorrect, Planned

\* The other steps neither call nor return.
LEMMA OtherStepsKeepResolving ==
  ASSUME ResolvingCorrect, suite' = suite, stack' = stack, memo' = memo,
         phase' = "planning" \/ Planned' => RunnerAccepts(suite),
         Planned => Planned',
         phase' = "overflow" => phase = "overflow"
  PROVE  ResolvingCorrect'
<1>1. memo' \in Seq(Results') /\ stack' \in {<< >>} \cup Walks'
  BY SameDocument DEF ResolvingCorrect
<1>2. RunnerAccepts(suite) => RunnerAccepts(suite)'
  BY DEF RunnerAccepts, AllIds
<1>3. QED
  BY <1>1, <1>2 DEF ResolvingCorrect

LEMMA ResolvingCorrectStep ==
  PlanCorrect /\ ResolvingCorrect /\ [Next]_vars => ResolvingCorrect'
<1> SUFFICES ASSUME PlanCorrect, ResolvingCorrect, [Next]_vars
             PROVE  ResolvingCorrect'
  OBVIOUS
<1>1. suite \in Documents
  BY DEF PlanCorrect
<1>2. phase = "planning" \/ Planned => RunnerAccepts(suite)
  BY DEF ResolvingCorrect
<1>3. CASE Validate
  BY <1>2, <1>3, OtherStepsKeepResolving DEF Validate, options, Planned
<1>4. CASE Load
  BY <1>2, <1>4, OtherStepsKeepResolving DEF Load, options, Planned
<1>5. CASE PlanRun
  BY <1>2, <1>5, OtherStepsKeepResolving DEF PlanRun, options, Planned
<1>6. CASE EndOfPlan
  BY <1>2, <1>6, OtherStepsKeepResolving DEF EndOfPlan, options, Planned
<1>7. CASE CallResolve
  BY <1>1, <1>7, CallResolveKeeps
<1>8. CASE CallParent
  BY <1>1, <1>8, CallParentKeeps
<1>9. CASE ReturnResolve
  BY <1>1, <1>9, ReturnResolveKeepsResults
<1>10. CASE Attribute
  BY <1>2, <1>10, OtherStepsKeepResolving DEF Attribute, options, Planned
<1>11. CASE UNCHANGED vars
  BY <1>2, <1>11, OtherStepsKeepResolving DEF vars, options, Planned
<1>12. QED
  BY <1>3, <1>4, <1>5, <1>6, <1>7, <1>8, <1>9, <1>10, <1>11 DEF Next, Ended

\* As many open calls as Python allows are more than there are experiments.
LEMMA DeepIsCyclic ==
  ASSUME suite \in Documents, RunnerAccepts(suite), NEW id \in Ids, NEW w,
         Walk(id, w), Len(w) >= RecursionLimit
  PROVE  Cyclic(id)
<1>1. SUFFICES ASSUME ~ Cyclic(id)
               PROVE  FALSE
  OBVIOUS
<1>2. PICK c : c = Chain(id)
  OBVIOUS
<1>3. Path(id, c) /\ Reuse(Last(c)) = Absent
  BY <1>1, <1>2, ChainFacts DEF Cyclic, Reuse
<1>4. Len(w) <= Len(c)
  BY <1>3, PathIsWalk, WalkEnds
<1>5. Len(c) <= Cardinality(Ids)
  <2>1. c \in Seq(Ids) /\ Distinct(c)
    BY <1>3 DEF Path
  <2>2. QED
    BY <2>1, FewIds, DistinctLength
<1>6. Len(c) \in Nat /\ Len(w) \in Nat
  BY <1>3 DEF Path, Walk
<1>7. QED
  BY <1>4, <1>5, <1>6, FewIds

\* What the correct results say when resolving has ended, either way.
LEMMA ResolvingCorrectAcyclic ==
  AttributionCorrect /\ ResolvingCorrect => ResolvesIffAcyclic
<1> SUFFICES ASSUME AttributionCorrect, ResolvingCorrect
             PROVE  ResolvesIffAcyclic
  OBVIOUS
<1>1. suite \in Documents
  BY DEF AttributionCorrect, PlanCorrect
<1>2. ASSUME phase = "overflow"
      PROVE  \E e \in Ids : Cyclic(e)
  <2>1. PICK w : w = stack
    OBVIOUS
  <2>2. RunnerAccepts(suite) /\ w \in {<< >>} \cup Walks /\ Len(w) >= RecursionLimit
    BY <1>2, <2>1 DEF ResolvingCorrect, Planned
  <2>3. w # << >>
    <3>1. RecursionLimit > 0
      BY <1>1, FewIds
    <3>2. Len(<< >>) = 0 /\ RecursionLimit \in Nat
      BY <1>1, FewIds
    <3>3. QED
      BY <2>2, <3>1, <3>2
  <2>4. w \in Seq(Ids) /\ Walk(w[1], w)
    BY <2>2, <2>3 DEF Walks
  <2>5. PICK id : id = w[1]
    OBVIOUS
  <2>6. id \in Ids
    BY <2>3, <2>4, <2>5
  <2>7. Cyclic(id)
    BY <1>1, <2>2, <2>4, <2>5, <2>6, DeepIsCyclic
  <2>8. QED
    BY <2>6, <2>7
<1>3. ASSUME phase = "attributed", NEW e \in Ids
      PROVE  /\ ~ Cyclic(e)
             /\ RunsOf(e) = FlattenSeq([i \in DOMAIN Chain(e) |-> ExpById(Chain(e)[i]).runs])
  <2>1. Memoized(e)
    BY <1>3 DEF AttributionCorrect, InferenceCorrect
  <2>2. ~ Cyclic(e) /\ RunsOf(e) = RunsAlong(e)
    BY <2>1, RunsOfResult DEF ResolvingCorrect
  <2>3. QED
    BY <2>2 DEF RunsAlong, Along
<1>4. QED
  BY <1>2, <1>3 DEF ResolvesIffAcyclic

\* Resolving reuse overflows only when some experiments reuse each other in a
\* circle, and otherwise ends with each experiment's own runs and then those
\* along its chain, for every set of documents.
THEOREM ReuseResolved == Spec => []ResolvesIffAcyclic
<1>1. Init => AttributionCorrect /\ ResolvingCorrect
  BY AttributionCorrectInit, ResolvingCorrectInit
<1>2. AttributionCorrect /\ ResolvingCorrect /\ [Next]_vars
      => (AttributionCorrect /\ ResolvingCorrect)'
  BY PlanCorrectStep, ResultsCorrectStep, InferenceCorrectStep, ResolvingCorrectStep
     DEF AttributionCorrect
<1>3. AttributionCorrect /\ ResolvingCorrect => ResolvesIffAcyclic
  BY ResolvingCorrectAcyclic
<1>4. QED
  BY <1>1, <1>2, <1>3, PTL DEF Spec

=============================================================================
