------------------------ MODULE TraceExtraction_proofs ------------------------
(***************************************************************************)
(* Proofs about the extraction, for every trace, window and limit.         *)
(*                                                                         *)
(* First the operators and the state machine: types, bounds of the records *)
(* and of the weights.  Then that the extraction is exact, whatever the    *)
(* order of the lines.  While the lines are read, the events filed are     *)
(* those of the lines read and not dropped (ReadingInv).  When all are     *)
(* read, a verdict on an instance is therefore a fact of the trace         *)
(* (VerdictExact).  The records are then the expected ones of the          *)
(* instances matched so far, each once (RecordsInv), and counting them     *)
(* gives the last conjunct of ExtractionExact.                             *)
(***************************************************************************)
EXTENDS TraceExtraction, FiniteSetTheorems, FunctionTheorems, TLAPS

\* Within a tier the nice value is that tier's map, whatever the other tiers say.
LEMMA NiceByTier ==
  ASSUME NEW p \in Nat
  PROVE  /\ p < 100 => Nice(p) = Clamp(10, 19, 19 - (p * 9) \div 99)
         /\ p \in 100 .. 115 => Nice(p) = Clamp(5, 9, 9 - ((p - 100) * 4) \div 15)
         /\ p \in 116 .. 119 => Nice(p) = Clamp(1, 4, 4 - ((p - 116) * 3) \div 3)
         /\ p \in 120 .. 359 => Nice(p) = Clamp(-10, 0, -(((p - 120) * 10) \div 239))
         /\ p > 359 => Nice(p) = Clamp(-20, -11, -11 - ((p - 360) * 9) \div 140)
<1> DEFINE t1 == Clamp(10, 19, 19 - (p * 9) \div 99)
           t2 == Clamp(5, 9, 9 - ((p - 100) * 4) \div 15)
           t3 == Clamp(1, 4, 4 - ((p - 116) * 3) \div 3)
           t4 == Clamp(-10, 0, -(((p - 120) * 10) \div 239))
           t5 == Clamp(-20, -11, -11 - ((p - 360) * 9) \div 140)
<1>1. Nice(p) = (CASE p < 100 -> t1
                   [] p \in 100 .. 115 -> t2
                   [] p \in 116 .. 119 -> t3
                   [] p \in 120 .. 359 -> t4
                   [] p > 359 -> t5)
  BY Zenon DEF Nice
<1> HIDE DEF t1, t2, t3, t4, t5
<1>2. /\ p < 100 => Nice(p) = t1
      /\ p \in 100 .. 115 => Nice(p) = t2
      /\ p \in 116 .. 119 => Nice(p) = t3
      /\ p \in 120 .. 359 => Nice(p) = t4
      /\ p > 359 => Nice(p) = t5
  BY <1>1
<1>3. QED  BY <1>2 DEF t1, t2, t3, t4, t5

\* Every nice value is one of the scheduler's, and each tier of priorities lies
\* below the one before it.
LEMMA NiceOfTier ==
  ASSUME NEW p \in Nat
  PROVE  /\ p < 100 => Nice(p) \in 10 .. 19
         /\ p \in 100 .. 115 => Nice(p) \in 5 .. 9
         /\ p \in 116 .. 119 => Nice(p) \in 1 .. 4
         /\ p \in 120 .. 359 => Nice(p) \in -10 .. 0
         /\ p > 359 => Nice(p) \in -20 .. -11
BY DEF Nice, Clamp

\* A higher priority never has a higher nice value.
LEMMA NiceAntitone ==
  ASSUME NEW p \in Nat, NEW q \in Nat, p >= q
  PROVE  Nice(p) <= Nice(q)
<1>1. CASE p < 100 /\ q < 100
  <2> DEFINE x == (p * 9) \div 99  y == (q * 9) \div 99
  <2>1. x \in Int /\ y \in Int /\ y <= x
    BY <1>1
  <2>2. Nice(p) = Clamp(10, 19, 19 - x) /\ Nice(q) = Clamp(10, 19, 19 - y)
    BY <1>1, NiceByTier, ZenonT(40)
  <2> HIDE DEF x, y
  <2>3. 19 - x <= 19 - y
    BY <2>1
  <2>4. QED  BY <2>1, <2>2, <2>3 DEF Clamp
<1>2. CASE p \in 100 .. 115 /\ q \in 100 .. 115
  <2> DEFINE x == ((p - 100) * 4) \div 15  y == ((q - 100) * 4) \div 15
  <2>1. x \in Int /\ y \in Int /\ y <= x
    BY <1>2
  <2>2. Nice(p) = Clamp(5, 9, 9 - x) /\ Nice(q) = Clamp(5, 9, 9 - y)
    BY <1>2, NiceByTier, ZenonT(40)
  <2> HIDE DEF x, y
  <2>3. 9 - x <= 9 - y
    BY <2>1
  <2>4. QED  BY <2>1, <2>2, <2>3 DEF Clamp
<1>3. CASE p \in 116 .. 119 /\ q \in 116 .. 119
  <2> DEFINE x == ((p - 116) * 3) \div 3  y == ((q - 116) * 3) \div 3
  <2>1. x \in Int /\ y \in Int /\ y <= x
    BY <1>3
  <2>2. Nice(p) = Clamp(1, 4, 4 - x) /\ Nice(q) = Clamp(1, 4, 4 - y)
    BY <1>3, NiceByTier
  <2> HIDE DEF x, y
  <2>3. 4 - x <= 4 - y
    BY <2>1
  <2>4. QED  BY <2>1, <2>2, <2>3 DEF Clamp
<1>4. CASE p \in 120 .. 359 /\ q \in 120 .. 359
  <2> DEFINE x == ((p - 120) * 10) \div 239  y == ((q - 120) * 10) \div 239
  <2>1. x \in Int /\ y \in Int /\ y <= x
    BY <1>4
  <2>2. Nice(p) = Clamp(-10, 0, -(x)) /\ Nice(q) = Clamp(-10, 0, -(y))
    BY <1>4, NiceByTier, ZenonT(40)
  <2> HIDE DEF x, y
  <2>3. -(x) <= -(y)
    BY <2>1
  <2>4. QED  BY <2>1, <2>2, <2>3 DEF Clamp
<1>5. CASE p > 359 /\ q > 359
  <2> DEFINE x == ((p - 360) * 9) \div 140  y == ((q - 360) * 9) \div 140
  <2>1. x \in Int /\ y \in Int /\ y <= x
    BY <1>5
  <2>2. Nice(p) = Clamp(-20, -11, -11 - x) /\ Nice(q) = Clamp(-20, -11, -11 - y)
    BY <1>5, NiceByTier
  <2> HIDE DEF x, y
  <2>3. -11 - x <= -11 - y
    BY <2>1
  <2>4. QED  BY <2>1, <2>2, <2>3 DEF Clamp
<1>6. CASE \/ q < 100 /\ p >= 100
           \/ q \in 100 .. 115 /\ p > 115
           \/ q \in 116 .. 119 /\ p > 119
           \/ q \in 120 .. 359 /\ p > 359
  BY <1>6, NiceOfTier
<1>7. QED  BY <1>1, <1>2, <1>3, <1>4, <1>5, <1>6

LEMMA WeightsAntitone ==
  ASSUME NEW m \in -20 .. 19, NEW n \in -20 .. 19, m <= n
  PROVE  Weight(m) \in Nat /\ Weight(m) >= Weight(n)
BY SMTT(60) DEF Weight, Weights

LEMMA PriorityWeights ==
  ASSUME NEW p \in Nat
  PROVE  /\ Weight(Nice(p)) \in Nat
         /\ \A q \in Nat : p >= q => Weight(Nice(p)) >= Weight(Nice(q))
<1>1. \A q \in Nat : Nice(q) \in -20 .. 19
  BY NiceOfTier
<1>2. Weight(Nice(p)) \in Nat
  BY <1>1, WeightsAntitone
<1>3. ASSUME NEW q \in Nat, p >= q
      PROVE  Weight(Nice(p)) >= Weight(Nice(q))
  <2>1. Nice(p) <= Nice(q)
    BY <1>3, NiceAntitone
  <2>2. QED  BY <1>1, <2>1, WeightsAntitone
<1>4. QED  BY <1>2, <1>3

LEMMA DivNat ==
  ASSUME NEW a \in Nat, NEW n \in Nat \ {0}
  PROVE  a \div n \in Nat /\ (a \div n > 0 <=> a >= n)
OBVIOUS

LEMMA DivNegative ==
  ASSUME NEW a \in Int, NEW n \in Nat \ {0}
  PROVE  a \div n \in Int /\ (a \div n > 0 => a >= n)
OBVIOUS

-----------------------------------------------------------------------------
(* Matching an instance *)

EventSets == [submit : SUBSET Events, schedule : SUBSET Events, finish : SUBSET Events]

\* What the loop does with a verdict depends on no more than this: an outcome
\* that counts, and a record exactly when it is "complete".
LEMMA VerdictsType ==
  ASSUME NEW k \in Keys, NEW events \in EventSets, NEW v \in Verdicts(k, events)
  PROVE  /\ v.outcome \in Outcomes \ {"negative_burst"}
         /\ IF v.outcome = "complete"
            THEN \E r \in Records : v.record = <<r>> /\ r.weight = Weight(Nice(r.prio))
            ELSE v.record = << >>
<1>1. ASSUME NEW s \in Events, NEW c \in Events, NEW f \in Events, f.time >= c.time,
             v = Judged(k, s, c, f)
      PROVE  /\ v.outcome \in Outcomes \ {"negative_burst"}
             /\ IF v.outcome = "complete"
                THEN \E r \in Records : v.record = <<r>> /\ r.weight = Weight(Nice(r.prio))
                ELSE v.record = << >>
  <2>1. Burst(c, f) \in Nat /\ s.time \div NsPerUs \in Nat
    BY <1>1, DivNat, NsPerUsAssumption DEF Burst, Events
  <2>2. Weight(Nice(s.prio)) \in Nat
    <3>1. s.prio \in Nat
      BY PrioritiesAssumption DEF Events
    <3>2. QED  BY <3>1, PriorityWeights
  <2>3. CASE Burst(c, f) = 0
    BY <1>1, <2>3 DEF Judged, Dead, Outcomes
  <2>4. CASE Burst(c, f) > 0
    <3>1. Record(k, s, c, f) \in Records
      BY <2>1, <2>2, <2>4 DEF Record, Records, Events
    <3>2. v = [outcome |-> "complete", record |-> <<Record(k, s, c, f)>>]
      BY <1>1, <2>1, <2>4 DEF Judged
    <3>3. Record(k, s, c, f).weight = Weight(Nice(Record(k, s, c, f).prio))
      BY DEF Record
    <3>4. QED  BY <3>1, <3>2, <3>3 DEF Outcomes
  <2>5. QED  BY <2>1, <2>3, <2>4
<1>2. CASE events.submit = {} \/ events.schedule = {}
  BY <1>2 DEF Verdicts, Dead, Outcomes
<1>3. CASE events.submit # {} /\ events.schedule # {}
  <2>1. PICK s \in Earliest(events.submit) : \E c \in Earliest(SchedulesFrom(events, s)) :
          v \in IF FinishesFrom(events, c) = {} THEN {Dead("no_finish")}
                ELSE {Judged(k, s, c, f) : f \in Earliest(FinishesFrom(events, c))}
    BY <1>3 DEF Verdicts
  <2> PICK c \in Earliest(SchedulesFrom(events, s)) :
          v \in IF FinishesFrom(events, c) = {} THEN {Dead("no_finish")}
                ELSE {Judged(k, s, c, f) : f \in Earliest(FinishesFrom(events, c))}
    BY <2>1
  <2>2. s \in Events /\ c \in Events
    BY <2>1 DEF Earliest, SchedulesFrom, EventSets
  <2>3. CASE FinishesFrom(events, c) = {}
    BY <2>1, <2>3 DEF Dead, Outcomes
  <2>4. CASE FinishesFrom(events, c) # {}
    <3>1. PICK f \in Earliest(FinishesFrom(events, c)) : v = Judged(k, s, c, f)
      BY <2>1, <2>4
    <3>2. f \in Events /\ f.time >= c.time
      BY <3>1 DEF Earliest, FinishesFrom, EventSets
    <3>3. QED  BY <1>1, <2>2, <3>1, <3>2
  <2>5. QED  BY <2>3, <2>4
<1>4. QED  BY <1>2, <1>3

-----------------------------------------------------------------------------
(* Types and weights *)

\* Every instance is counted once, under its outcome, and the instances that
\* complete are those with a record; the branch of a negative burst is never
\* taken, because the finish was chosen after the schedule.
StatsAddUp ==
  /\ stats["complete"] = Len(records)
  /\ stats["negative_burst"] = 0
  /\ next - 1 = stats["complete"] + stats["no_submit"] + stats["no_schedule"]
                + stats["no_finish"] + stats["zero_burst"]

Weighted(s) == \A i \in DOMAIN s : s[i].weight = Weight(Nice(s[i].prio))

TInv ==
  /\ TypeOK
  /\ phase # "written" => csv = << >>
  /\ Weighted(records) /\ Weighted(csv)
  /\ StatsAddUp
  /\ OutputIsWorkload

LEMMA InitTInv == Init => TInv
<1> SUFFICES ASSUME Init PROVE TInv
  OBVIOUS
<1> USE DEF Init
<1>1. trace \in SUBSET Lines
  BY TracesAssumption
<1>2. TypeOK
  BY <1>1 DEF TypeOK, NoEvents, Outcomes
<1>3. QED  BY <1>2 DEF TInv, Weighted, StatsAddUp, Outcomes, OutputIsWorkload

LEMMA ReadLineType == TypeOK /\ ReadLine => TypeOK'
<1> SUFFICES ASSUME TypeOK, ReadLine PROVE TypeOK'
  OBVIOUS
<1> USE DEF TypeOK
<1>1. PICK l \in unread :
        /\ ~Dropped(l)
        /\ unread' = unread \ {l}
        /\ tasks' = [tasks EXCEPT ![l.key][l.type] =
                       @ \cup {[time |-> l.time, prio |-> l.prio]}]
        /\ order' = IF Known(l.key) THEN order ELSE Append(order, l.key)
  BY DEF ReadLine
<1>2. l \in Lines /\ l.type \in Types /\ l.key \in Keys
  BY <1>1, TracesAssumption DEF Dropped, Lines
<1>3. [time |-> l.time, prio |-> l.prio] \in Events
  BY <1>2 DEF Lines, Events
<1>4. tasks' \in [Keys -> EventSets]
  BY <1>1, <1>2, <1>3 DEF EventSets, Types
<1>5. order' \in Seq(Keys) /\ Len(order') >= Len(order)
  BY <1>1, <1>2
<1>6. unread' \subseteq trace' /\ next' \in 1 .. Len(order') + 1
  BY <1>1, <1>5 DEF ReadLine, options
<1>7. QED  BY <1>4, <1>5, <1>6 DEF ReadLine, options, EventSets

LEMMA MatchTaskTInv == TInv /\ MatchTask => TInv'
<1> SUFFICES ASSUME TInv, MatchTask PROVE TInv'
  OBVIOUS
<1> DEFINE k == order[next]
<1>1. k \in Keys /\ tasks[k] \in EventSets /\ next \in 1 .. Len(order)
  BY DEF TInv, TypeOK, MatchTask, EventSets
<1>2. PICK v \in Verdicts(k, tasks[k]) :
        /\ stats' = [stats EXCEPT ![v.outcome] = @ + 1]
        /\ records' = records \o v.record
        /\ phase' = IF v.outcome = "complete" /\ LimitReached(stats'["complete"])
                    THEN "writing" ELSE phase
  BY DEF MatchTask
<1>3. v.outcome \in Outcomes \ {"negative_burst"}
  BY <1>1, VerdictsType
<1>4. /\ records' \in Seq(Records) /\ Weighted(records')
      /\ Len(records') = Len(records) + (IF v.outcome = "complete" THEN 1 ELSE 0)
  <2>1. CASE v.outcome = "complete"
    <3>1. PICK r \in Records : v.record = <<r>> /\ r.weight = Weight(Nice(r.prio))
      BY <1>1, <2>1, VerdictsType
    <3>2. records' = Append(records, r)
      BY <1>2, <3>1 DEF TInv, TypeOK
    <3>3. QED  BY <2>1, <3>1, <3>2 DEF TInv, TypeOK, Weighted
  <2>2. CASE v.outcome # "complete"
    <3>1. records' = records
      BY <1>1, <1>2, <2>2, VerdictsType DEF TInv, TypeOK
    <3>2. QED  BY <2>2, <3>1 DEF TInv, TypeOK
  <2>3. QED  BY <2>1, <2>2
<1>5. stats' \in [Outcomes -> Nat]
  BY <1>2, <1>3 DEF TInv, TypeOK
<1>6. phase' \in {"matching", "writing"}
  BY <1>2 DEF MatchTask
<1>7. TypeOK'
  BY <1>1, <1>4, <1>5, <1>6 DEF TInv, TypeOK, MatchTask, options
<1>8. StatsAddUp'
  <2>1. \A o \in Outcomes : stats'[o] = stats[o] + (IF o = v.outcome THEN 1 ELSE 0)
    BY <1>2, <1>3 DEF TInv, TypeOK
  <2>2. next' = next + 1 /\ next \in Nat
    BY <1>1 DEF MatchTask
  <2>3. \A o \in Outcomes : stats[o] \in Nat
    BY DEF TInv, TypeOK
  <2> HIDE DEF k
  <2>4. stats'["complete"] = Len(records')
    <3>1. stats["complete"] = Len(records)
      BY DEF TInv, StatsAddUp
    <3>2. stats'["complete"] = stats["complete"] + (IF v.outcome = "complete" THEN 1 ELSE 0)
      BY <2>1 DEF Outcomes
    <3>3. QED  BY <1>4, <3>1, <3>2
  <2>5. stats'["negative_burst"] = 0
    <3>1. stats["negative_burst"] = 0 /\ v.outcome # "negative_burst"
      BY <1>3 DEF TInv, StatsAddUp
    <3>2. QED  BY <2>1, <3>1 DEF Outcomes
  <2>6. next' - 1 = stats'["complete"] + stats'["no_submit"] + stats'["no_schedule"]
                    + stats'["no_finish"] + stats'["zero_burst"]
    <3>1. next - 1 = stats["complete"] + stats["no_submit"] + stats["no_schedule"]
                     + stats["no_finish"] + stats["zero_burst"]
      BY DEF TInv, StatsAddUp
    <3>2. v.outcome \in {"complete", "no_submit", "no_schedule", "no_finish", "zero_burst"}
      BY <1>3 DEF Outcomes
    <3>3. QED  BY <2>1, <2>2, <2>3, <3>1, <3>2 DEF Outcomes
  <2>7. QED  BY <2>4, <2>5, <2>6 DEF StatsAddUp
<1>9. csv' = << >>
  BY DEF TInv, MatchTask
<1>10. QED  BY <1>4, <1>6, <1>7, <1>8, <1>9 DEF TInv, Weighted, OutputIsWorkload

Arranged(s, p) == [i \in DOMAIN s |-> s[p[i]]]

\* What a sort by p does to the records.
LEMMA SortedRecords ==
  ASSUME NEW s \in Seq(Records), NEW p \in [DOMAIN s -> DOMAIN s], SortsByArrival(s, p)
  PROVE  LET t == Arranged(s, p)
         IN
         /\ t \in Seq(Records) /\ Len(t) = Len(s) /\ DOMAIN t = DOMAIN s
         /\ \A i, j \in DOMAIN t : i < j => t[i].arrival <= t[j].arrival
         /\ \A i, j \in DOMAIN t : p[i] = p[j] => i = j
<1> DEFINE t == Arranged(s, p)
<1>1. DOMAIN s = 1 .. Len(s) /\ Len(s) \in Nat
  OBVIOUS
<1>0. t = [i \in DOMAIN s |-> s[p[i]]]
  BY DEF Arranged
<1> HIDE DEF t
<1>2. t \in [1 .. Len(s) -> Records]
  BY <1>0, <1>1
<1>3. t \in Seq(Records) /\ Len(t) = Len(s) /\ DOMAIN t = DOMAIN s
  BY <1>1, <1>2
<1>4. ASSUME NEW i \in DOMAIN t, NEW j \in DOMAIN t, i < j
      PROVE  t[i].arrival <= t[j].arrival
  <2>1. s[p[i]] \in Records /\ s[p[j]] \in Records
    BY <1>1, <1>3
  <2>2. s[p[i]].arrival \in Nat /\ s[p[j]].arrival \in Nat
    BY <2>1 DEF Records
  <2>3. QED  BY <1>0, <1>3, <1>4, <2>2 DEF SortsByArrival
<1>5. ASSUME NEW i \in DOMAIN t, NEW j \in DOMAIN t, p[i] = p[j]
      PROVE  i = j
  <2>1. s[p[i]] \in Records /\ p[i] \in Nat /\ i \in Nat /\ j \in Nat
    BY <1>1, <1>3
  <2> s[p[i]].arrival \in Nat
    BY <2>1 DEF Records
  <2>2. ~(i < j) /\ ~(j < i)
    BY <1>3, <1>5, <2>1 DEF SortsByArrival
  <2>3. QED  BY <2>1, <2>2
<1>6. QED  BY <1>3, <1>4, <1>5 DEF t

\* Shifting keeps everything but the arrivals, and those keep their distances.
LEMMA NormalizedRecords ==
  ASSUME NEW s \in Seq(Records),
         \A i, j \in DOMAIN s : i < j => s[i].arrival <= s[j].arrival
  PROVE  /\ Normalized(s) \in Seq(Records) /\ DOMAIN Normalized(s) = DOMAIN s
         /\ \A i \in DOMAIN s :
              /\ Normalized(s)[i].arrival = s[i].arrival - s[1].arrival
              /\ Normalized(s)[i].burst = s[i].burst
              /\ Normalized(s)[i].prio = s[i].prio
              /\ Normalized(s)[i].weight = s[i].weight
<1> DEFINE n == Normalized(s)
<1>1. DOMAIN s = 1 .. Len(s) /\ Len(s) \in Nat
  OBVIOUS
<1>2. \A i \in DOMAIN s : s[i] \in Records /\ s[1] \in Records
  BY <1>1
<1>3. n = [i \in 1 .. Len(s) |-> [s[i] EXCEPT !.arrival = @ - s[1].arrival]]
  BY <1>1 DEF Normalized
<1> HIDE DEF n
<1>4. ASSUME NEW i \in DOMAIN s
      PROVE  /\ n[i] \in Records
             /\ n[i].arrival = s[i].arrival - s[1].arrival
             /\ n[i].burst = s[i].burst /\ n[i].prio = s[i].prio
             /\ n[i].weight = s[i].weight
  <2>1. n[i] = [s[i] EXCEPT !.arrival = @ - s[1].arrival]
    BY <1>1, <1>3
  <2>2. s[i].arrival - s[1].arrival \in Nat
    <3>1. s[i].arrival \in Nat /\ s[1].arrival \in Nat
      BY <1>2 DEF Records
    <3>2. s[1].arrival <= s[i].arrival
      BY <1>1, <3>1
    <3>3. QED  BY <3>1, <3>2
  <2>3. QED  BY <1>2, <2>1, <2>2 DEF Records
<1>5. n \in Seq(Records) /\ DOMAIN n = DOMAIN s
  <2>1. n \in [1 .. Len(s) -> Records]
    BY <1>1, <1>3, <1>4
  <2>2. QED  BY <1>1, <2>1
<1>6. QED  BY <1>4, <1>5 DEF n

LEMMA WriteCsvTInv == TInv /\ WriteCsv => TInv'
<1> SUFFICES ASSUME TInv, WriteCsv PROVE TInv'
  OBVIOUS
<1>1. PICK p \in [DOMAIN records -> DOMAIN records] :
        /\ SortsByArrival(records, p)
        /\ records' = Arranged(records, p)
  BY DEF WriteCsv, Arranged
<1>2. records \in Seq(Records)
  BY DEF TInv, TypeOK
<1>3. /\ records' \in Seq(Records) /\ Len(records') = Len(records)
      /\ DOMAIN records' = DOMAIN records
      /\ \A i, j \in DOMAIN records' : i < j => records'[i].arrival <= records'[j].arrival
  BY <1>1, <1>2, SortedRecords
<1>4. Weighted(records')
  BY <1>1, <1>3 DEF TInv, Weighted, Arranged
<1>5. csv' = IF normalize THEN Normalized(records') ELSE records'
  BY DEF WriteCsv
<1>6. /\ csv' \in Seq(Records) /\ DOMAIN csv' = DOMAIN records'
      /\ \A i \in DOMAIN csv' :
           /\ csv'[i].arrival = records'[i].arrival - (IF normalize THEN records'[1].arrival ELSE 0)
           /\ csv'[i].prio = records'[i].prio /\ csv'[i].weight = records'[i].weight
  <2>1. \A i \in DOMAIN records' : records'[i] \in Records
    BY <1>3
  <2>2. \A i \in DOMAIN records' : records'[i].arrival \in Nat
    BY <2>1 DEF Records
  <2>3. CASE normalize
    BY <1>3, <1>5, <2>3, NormalizedRecords
  <2>4. CASE ~normalize
    BY <1>3, <1>5, <2>2, <2>4
  <2>5. QED  BY <2>3, <2>4
<1>7. Weighted(csv')
  BY <1>4, <1>6 DEF Weighted
<1>8. TypeOK'
  BY <1>3, <1>6 DEF TInv, TypeOK, WriteCsv, options
<1>9. OutputIsWorkload'
  <2>1. \A i \in DOMAIN csv' : csv'[i] \in Records /\ records'[i] \in Records
    BY <1>3, <1>6
  <2>2. \A i \in DOMAIN csv' : /\ csv'[i].arrival \in Nat /\ records'[i].arrival \in Nat
                              /\ csv'[i].burst > 0
    BY <2>1 DEF Records
  <2>3. csv' # << >> => 1 \in DOMAIN csv'
    BY <1>6
  <2>4. \A i \in DOMAIN csv' : normalize => records'[1].arrival \in Nat
    BY <1>6, <2>2, <2>3
  <2>5. normalize' = normalize
    BY DEF WriteCsv, options
  <2>6. \A i, j \in DOMAIN csv' : i < j => csv'[i].arrival <= csv'[j].arrival
    <3> SUFFICES ASSUME NEW i \in DOMAIN csv', NEW j \in DOMAIN csv', i < j
                 PROVE  csv'[i].arrival <= csv'[j].arrival
      OBVIOUS
    <3>1. records'[i].arrival <= records'[j].arrival
      BY <1>3, <1>6
    <3>2. QED  BY <1>6, <2>2, <2>4, <3>1, SMTT(30)
  <2>7. normalize /\ csv' # << >> => csv'[1].arrival = 0
    BY <1>6, <2>3, <2>4
  <2>8. \A i, j \in DOMAIN csv' :
          csv'[i].arrival - csv'[j].arrival = records'[i].arrival - records'[j].arrival
    BY <1>6, <2>2, <2>4
  <2>9. QED  BY <2>2, <2>5, <2>6, <2>7, <2>8 DEF OutputIsWorkload
<1>10. StatsAddUp' /\ phase' = "written"
  BY <1>3 DEF TInv, StatsAddUp, WriteCsv
<1>11. QED  BY <1>4, <1>7, <1>8, <1>9, <1>10 DEF TInv

LEMMA NextTInv == TInv /\ [Next]_vars => TInv'
<1> SUFFICES ASSUME TInv, [Next]_vars PROVE TInv'
  OBVIOUS
<1>1. CASE InputMissing \/ Start \/ EndOfInput \/ EndOfTasks
  BY <1>1 DEF InputMissing, Start, EndOfInput, EndOfTasks, options, TInv, TypeOK, Weighted,
              StatsAddUp, OutputIsWorkload
<1>2. CASE SkipLine
  BY <1>2 DEF SkipLine, options, TInv, TypeOK, Weighted, StatsAddUp, OutputIsWorkload
<1>3. CASE ReadLine
  <2>1. TypeOK'
    BY <1>3, ReadLineType DEF TInv
  <2>2. phase' = "reading" /\ UNCHANGED <<next, stats, records, csv>>
    BY <1>3 DEF ReadLine
  <2>3. csv = << >>
    BY <1>3 DEF TInv, ReadLine
  <2>4. QED  BY <2>1, <2>2, <2>3 DEF TInv, Weighted, StatsAddUp, OutputIsWorkload
<1>4. CASE MatchTask
  BY <1>4, MatchTaskTInv
<1>5. CASE WriteCsv
  BY <1>5, WriteCsvTInv
<1>6. CASE Ended \/ UNCHANGED vars
  <2>1. UNCHANGED vars
    BY <1>6 DEF Ended
  <2>2. TypeOK'
    BY <2>1 DEF vars, TInv, TypeOK
  <2>3. StatsAddUp' /\ OutputIsWorkload'
    BY <2>1 DEF vars, TInv, StatsAddUp, OutputIsWorkload
  <2>4. QED  BY <2>1, <2>2, <2>3 DEF vars, TInv, Weighted
<1>7. QED  BY <1>1, <1>2, <1>3, <1>4, <1>5, <1>6 DEF Next

THEOREM TInvInvariant == Spec => []TInv
<1>1. QED  BY InitTInv, NextTInv, PTL DEF Spec

THEOREM TypeCorrect == Spec => []TypeOK
<1>1. TInv => TypeOK
  BY DEF TInv
<1>2. QED  BY TInvInvariant, <1>1, PTL

THEOREM StatsCorrect == Spec => []StatsAddUp
<1>1. TInv => StatsAddUp
  BY DEF TInv
<1>2. QED  BY TInvInvariant, <1>1, PTL

THEOREM OutputCorrect == Spec => []OutputIsWorkload
<1>1. TInv => OutputIsWorkload
  BY DEF TInv
<1>2. QED  BY TInvInvariant, <1>1, PTL

THEOREM WeightsCorrect == Spec => []PriorityRespected
<1>1. TInv => PriorityRespected
  <2> SUFFICES ASSUME TInv, NEW i \in DOMAIN csv, NEW j \in DOMAIN csv,
                      csv[i].prio >= csv[j].prio
               PROVE  csv[i].weight >= csv[j].weight
    BY DEF PriorityRespected
  <2>1. csv[i] \in Records /\ csv[j] \in Records
    BY DEF TInv, TypeOK
  <2>2. csv[i].prio \in Nat /\ csv[j].prio \in Nat
    BY <2>1, PrioritiesAssumption DEF Records
  <2>3. /\ csv[i].weight = Weight(Nice(csv[i].prio))
        /\ csv[j].weight = Weight(Nice(csv[j].prio))
    BY DEF TInv, Weighted
  <2>4. QED  BY <2>2, <2>3, PriorityWeights
<1>2. QED  BY TInvInvariant, <1>1, PTL

-----------------------------------------------------------------------------
Event(l) == [time |-> l.time, prio |-> l.prio]

\* The lines of an instance and a type that have been read and kept.
Filed(k, type) ==
  {l \in trace \ unread : l.key = k /\ l.type = type /\ ~Dropped(l)}

ReadingInv ==
  /\ \A k \in Keys, type \in Types : tasks[k][type] = {Event(l) : l \in Filed(k, type)}
  /\ \A i, j \in 1 .. Len(order) : order[i] = order[j] => i = j
  /\ \A k \in Keys, type \in Types : tasks[k][type] # {} => Known(k)
  /\ phase \in {"matching", "writing", "written"} => unread = {}
  /\ phase \in {"args", "reading"} => next = 1 /\ records = << >>

LEMMA InitReadingInv == Init => ReadingInv
BY DEF Init, ReadingInv, Filed, NoEvents, Types

LEMMA TraceLines == TypeOK => trace \subseteq Lines
BY TracesAssumption DEF TypeOK

LEMMA ReadLineReadingInv == TypeOK /\ ReadingInv /\ ReadLine => ReadingInv'
<1> SUFFICES ASSUME TypeOK, ReadingInv, ReadLine PROVE ReadingInv'
  OBVIOUS
<1>1. PICK l \in unread :
        /\ ~Dropped(l)
        /\ unread' = unread \ {l}
        /\ tasks' = [tasks EXCEPT ![l.key][l.type] =
                       @ \cup {[time |-> l.time, prio |-> l.prio]}]
        /\ order' = IF Known(l.key) THEN order ELSE Append(order, l.key)
  BY DEF ReadLine
<1>2. l \in trace /\ l \in Lines /\ l.type \in Types /\ l.key \in Keys
  BY <1>1, TraceLines DEF TypeOK, Dropped, Lines
<1>3. UNCHANGED <<phase, options, next, records>> /\ phase = "reading"
  BY DEF ReadLine
<1>4. ASSUME NEW k \in Keys, NEW type \in Types
      PROVE  /\ tasks'[k][type] = tasks[k][type] \cup
                  (IF k = l.key /\ type = l.type THEN {Event(l)} ELSE {})
             /\ Filed(k, type)' = Filed(k, type) \cup
                  (IF k = l.key /\ type = l.type THEN {l} ELSE {})
  <2>1. tasks[k] \in EventSets /\ tasks \in [Keys -> EventSets]
    BY DEF TypeOK, EventSets
  <2>2. tasks'[k][type] = tasks[k][type] \cup
                  (IF k = l.key /\ type = l.type THEN {Event(l)} ELSE {})
    BY <1>1, <1>2, <2>1 DEF Event, EventSets, Types
  <2>3. \A x : Dropped(x)' <=> Dropped(x)
    BY <1>3 DEF Dropped, options
  <2>4. trace' \ unread' = (trace \ unread) \cup {l}
    BY <1>1, <1>2, <1>3 DEF options
  <2>5. QED  BY <1>1, <2>2, <2>3, <2>4 DEF Filed
<1>5. \A k \in Keys, type \in Types : tasks'[k][type] = {Event(x) : x \in Filed(k, type)'}
  BY <1>4 DEF ReadingInv
<1>6. order \in Seq(Keys) /\ Len(order) \in Nat
  BY DEF TypeOK
<1>7. \A i, j \in 1 .. Len(order') : order'[i] = order'[j] => i = j
  <2>1. CASE Known(l.key)
    BY <1>1, <2>1 DEF ReadingInv
  <2>2. CASE ~Known(l.key)
    <3>1. order' = Append(order, l.key)
      BY <1>1, <2>2
    <3>2. /\ Len(order') = Len(order) + 1 /\ order'[Len(order) + 1] = l.key
          /\ \A i \in 1 .. Len(order) : order'[i] = order[i] /\ order[i] # l.key
      BY <1>2, <1>6, <2>2, <3>1 DEF Known
    <3>3. QED  BY <1>6, <3>2 DEF ReadingInv
  <2>3. QED  BY <2>1, <2>2
<1>8. \A k \in Keys : Known(k) \/ k = l.key => Known(k)'
  <2>1. CASE Known(l.key)
    BY <1>1, <2>1 DEF Known
  <2>2. CASE ~Known(l.key)
    <3>1. order' = Append(order, l.key)
      BY <1>1, <2>2
    <3>2. /\ Len(order') = Len(order) + 1 /\ order'[Len(order) + 1] = l.key
          /\ \A i \in 1 .. Len(order) : order'[i] = order[i]
      BY <1>2, <1>6, <3>1
    <3>3. QED  BY <1>6, <3>2 DEF Known
  <2>3. QED  BY <2>1, <2>2
<1>9. \A k \in Keys, type \in Types : tasks'[k][type] # {} => Known(k)'
  BY <1>4, <1>8 DEF ReadingInv
<1>10. QED  BY <1>3, <1>5, <1>7, <1>9 DEF ReadingInv

LEMMA NextReadingInv == TypeOK /\ ReadingInv /\ [Next]_vars => ReadingInv'
<1> SUFFICES ASSUME TypeOK, ReadingInv, [Next]_vars PROVE ReadingInv'
  OBVIOUS
<1>1. CASE ReadLine
  BY <1>1, ReadLineReadingInv
<1>2. CASE SkipLine
  <2>1. PICK l \in unread : Dropped(l) /\ unread' = unread \ {l}
    BY <1>2 DEF SkipLine
  <2>2. UNCHANGED <<phase, trace, window, tasks, order, next, records>> /\ phase = "reading"
    BY <1>2 DEF SkipLine, options
  <2>3. ASSUME NEW k \in Keys, NEW type \in Types
        PROVE  Filed(k, type)' = Filed(k, type)
    <3>1. \A x : Dropped(x)' <=> Dropped(x)
      BY <2>2 DEF Dropped
    <3>2. trace' \ unread' \subseteq (trace \ unread) \cup {l}
      BY <2>1, <2>2
    <3>3. trace \ unread \subseteq trace' \ unread'
      BY <2>1, <2>2
    <3>4. QED  BY <2>1, <3>1, <3>2, <3>3 DEF Filed
  <2>4. \A k : Known(k)' <=> Known(k)
    BY <2>2 DEF Known
  <2>5. QED  BY <2>2, <2>3, <2>4 DEF ReadingInv
<1>3. ASSUME UNCHANGED <<trace, window, unread, tasks, order>>,
             phase' \in {"matching", "writing", "written"} => unread = {},
             phase' \in {"args", "reading"} => next' = 1 /\ records' = << >>
      PROVE  ReadingInv'
  <2>1. \A x : Dropped(x)' <=> Dropped(x)
    BY <1>3 DEF Dropped
  <2>2. \A k \in Keys, type \in Types : Filed(k, type)' = Filed(k, type)
    BY <1>3, <2>1 DEF Filed
  <2>3. \A k : Known(k)' <=> Known(k)
    BY <1>3 DEF Known
  <2>4. QED  BY <1>3, <2>2, <2>3 DEF ReadingInv
<1>4. CASE InputMissing \/ Start \/ EndOfInput \/ EndOfTasks
  BY <1>3, <1>4 DEF InputMissing, Start, EndOfInput, EndOfTasks, options, ReadingInv
<1>5. CASE MatchTask
  <2>1. phase' \in {"matching", "writing"} /\ phase = "matching"
    BY <1>5 DEF MatchTask
  <2>2. QED  BY <1>3, <1>5, <2>1 DEF MatchTask, options, ReadingInv
<1>6. CASE WriteCsv
  BY <1>3, <1>6 DEF WriteCsv, options, ReadingInv
<1>7. CASE Ended \/ UNCHANGED vars
  BY <1>3, <1>7 DEF Ended, vars, ReadingInv
<1>8. QED  BY <1>1, <1>2, <1>4, <1>5, <1>6, <1>7 DEF Next

-----------------------------------------------------------------------------
(* A verdict is a fact of the trace *)

InWindow(l) == window # 0 => l.time <= window

\* s is the first submission of instance k, and within the window.
First(k, s) ==
  /\ s \in LinesOf(k, "submit") /\ InWindow(s)
  /\ ~\E o \in LinesOf(k, "submit") : o.time < s.time

\* f is the first finish of instance k from the start c on.
Ends(k, c, f) ==
  /\ f \in LinesOf(k, "finish") /\ f.time >= c.time
  /\ ~\E o \in LinesOf(k, "finish") : o.time >= c.time /\ o.time < f.time

LEMMA LineTimes ==
  ASSUME TypeOK, NEW k \in Keys, NEW type, NEW l \in LinesOf(k, type)
  PROVE  l \in trace /\ l.time \in Nat /\ l.prio \in Priorities
BY TraceLines DEF LinesOf, Lines

LEMMA EventsOfTrace ==
  ASSUME TypeOK, ReadingInv, unread = {}, NEW k \in Keys
  PROVE  /\ tasks[k].submit = {Event(l) : l \in {l \in LinesOf(k, "submit") : InWindow(l)}}
         /\ tasks[k].schedule = {Event(l) : l \in LinesOf(k, "schedule")}
         /\ tasks[k].finish = {Event(l) : l \in LinesOf(k, "finish")}
<1>0. window \in Nat
  BY OptionsAssumption DEF TypeOK
<1>1. Filed(k, "submit") = {l \in LinesOf(k, "submit") : InWindow(l)}
  <2>1. ASSUME NEW l \in LinesOf(k, "submit")
        PROVE  ~Dropped(l) <=> InWindow(l)
    <3>1. l.type = "submit" /\ l.time \in Nat
      BY LineTimes DEF LinesOf
    <3>2. QED  BY <1>0, <3>1 DEF Dropped, InWindow, Types
  <2>2. QED  BY <2>1 DEF Filed, LinesOf
<1>2. Filed(k, "schedule") = LinesOf(k, "schedule")
  BY DEF Filed, LinesOf, Dropped, Types
<1>3. Filed(k, "finish") = LinesOf(k, "finish")
  BY DEF Filed, LinesOf, Dropped, Types
<1>4. QED  BY <1>1, <1>2, <1>3 DEF ReadingInv, Types

LEMMA ExpectedRecords ==
  ASSUME TypeOK, NEW k \in Keys, NEW r
  PROVE  r \in Expected(k) <=>
           \E s \in LinesOf(k, "submit"), c \in LinesOf(k, "schedule"),
              f \in LinesOf(k, "finish") :
             /\ r = Record(k, s, c, f)
             /\ First(k, s) /\ Starts(k, s, c) /\ Ends(k, c, f)
             /\ f.time - c.time >= NsPerUs
<1>1. \A c \in LinesOf(k, "schedule"), f \in LinesOf(k, "finish") :
        f.time - c.time >= NsPerUs => f.time >= c.time
  BY LineTimes, NsPerUsAssumption
<1>2. \A s \in LinesOf(k, "submit") :
        InWindow(s) <=> WithinWindow(s) \/ AtWindowEnd(s)
  <2>1. TAKE s \in LinesOf(k, "submit")
  <2>2. s.time \in Nat /\ window \in Nat
    BY LineTimes, OptionsAssumption DEF TypeOK, LinesOf
  <2>3. QED  BY <2>2 DEF InWindow, WithinWindow, AtWindowEnd
<1>3. QED  BY <1>1, <1>2 DEF Expected, First, Ends

\* Lines of one instance that tie do not make a difference to the times.
LEMMA AttemptTimes ==
  ASSUME TypeOK, NEW k \in Keys,
         NEW s, NEW c, NEW f, First(k, s), Starts(k, s, c), Ends(k, c, f),
         NEW t, NEW d, NEW g, First(k, t), Starts(k, t, d), Ends(k, d, g)
  PROVE  c.time = d.time /\ f.time = g.time
<1>1. s.time = t.time
  BY LineTimes DEF First
<1>2. c \in LinesOf(k, "schedule") /\ d \in LinesOf(k, "schedule")
  BY DEF Starts
<1>3. c.time = d.time
  <2>1. c.time \in Nat /\ d.time \in Nat /\ s.time \in Nat
    BY <1>2, LineTimes DEF First
  <2>2. ~(c.time < d.time) /\ ~(d.time < c.time)
    BY <1>1, <1>2, <2>1 DEF Starts
  <2>3. QED  BY <2>1, <2>2
<1>4. f.time \in Nat /\ g.time \in Nat
  BY LineTimes DEF Ends
<1>5. ~(f.time < g.time) /\ ~(g.time < f.time)
  BY <1>3 DEF Ends
<1>6. QED  BY <1>3, <1>4, <1>5

LEMMA EarliestLines ==
  ASSUME TypeOK, ReadingInv, unread = {}, NEW k \in Keys
  PROVE  /\ \A e \in Earliest(tasks[k].submit) : \E s : e = Event(s) /\ First(k, s)
         /\ \A s : First(k, s) =>
              \A e \in Earliest(SchedulesFrom(tasks[k], Event(s))) :
                \E c : e = Event(c) /\ Starts(k, s, c)
         /\ \A c \in LinesOf(k, "schedule") :
              \A e \in Earliest(FinishesFrom(tasks[k], Event(c))) :
                \E f : e = Event(f) /\ Ends(k, c, f)
         /\ \A c \in LinesOf(k, "schedule") : \A f : Ends(k, c, f) =>
              Event(f) \in FinishesFrom(tasks[k], Event(c))
<1>1. ASSUME NEW e \in Earliest(tasks[k].submit)
      PROVE  \E s : e = Event(s) /\ First(k, s)
  <2>1. PICK s \in LinesOf(k, "submit") : InWindow(s) /\ e = Event(s)
    BY EventsOfTrace DEF Earliest
  <2>2. ASSUME NEW o \in LinesOf(k, "submit"), o.time < s.time
        PROVE  FALSE
    <3>1. InWindow(o)
      BY <2>1, <2>2, LineTimes, OptionsAssumption DEF InWindow, TypeOK
    <3>2. Event(o) \in tasks[k].submit
      BY <3>1, EventsOfTrace
    <3>3. e.time <= o.time
      BY <3>2 DEF Earliest, Event
    <3>4. QED  BY <2>1, <2>2, <3>3, LineTimes DEF Event
  <2>3. QED  BY <2>1, <2>2 DEF First
<1>2. ASSUME NEW s, First(k, s), NEW e \in Earliest(SchedulesFrom(tasks[k], Event(s)))
      PROVE  \E c : e = Event(c) /\ Starts(k, s, c)
  <2> DEFINE after == {a \in tasks[k].schedule : a.time >= s.time}
  <2>0. s.time \in Nat
    BY <1>2, LineTimes DEF First
  <2>1. SchedulesFrom(tasks[k], Event(s)) = IF after = {} THEN tasks[k].schedule ELSE after
    BY DEF SchedulesFrom, Event
  <2>2. PICK c \in LinesOf(k, "schedule") : e = Event(c)
    BY <2>1, EventsOfTrace DEF Earliest
  <2>3. \A o \in LinesOf(k, "schedule") :
          Event(o) \in tasks[k].schedule /\ Event(o).time = o.time /\ o.time \in Nat
    BY EventsOfTrace, LineTimes DEF Event
  <2>4. CASE after = {}
    <3>1. \A o \in LinesOf(k, "schedule") : o.time < s.time
      BY <2>0, <2>3, <2>4
    <3>2. \A o \in LinesOf(k, "schedule") : c.time <= o.time
      BY <2>1, <2>2, <2>3, <2>4 DEF Earliest
    <3>3. QED  BY <2>2, <3>1, <3>2 DEF Starts
  <2>5. CASE after # {}
    <3>1. c.time >= s.time
      BY <2>1, <2>2, <2>3, <2>5 DEF Earliest
    <3>2. \A o \in LinesOf(k, "schedule") : o.time >= s.time => c.time <= o.time
      BY <2>1, <2>2, <2>3, <2>5 DEF Earliest
    <3>3. \A o \in LinesOf(k, "schedule") : ~(o.time >= s.time /\ o.time < c.time)
      BY <2>3, <3>2
    <3>4. QED  BY <2>2, <3>1, <3>3 DEF Starts
  <2>6. QED  BY <2>4, <2>5
<1>3. ASSUME NEW c \in LinesOf(k, "schedule"),
             NEW e \in Earliest(FinishesFrom(tasks[k], Event(c)))
      PROVE  \E f : e = Event(f) /\ Ends(k, c, f)
  <2>1. FinishesFrom(tasks[k], Event(c)) = {a \in tasks[k].finish : a.time >= c.time}
    BY DEF FinishesFrom, Event
  <2>2. PICK f \in LinesOf(k, "finish") : e = Event(f)
    BY <2>1, EventsOfTrace DEF Earliest
  <2>3. \A o \in LinesOf(k, "finish") :
          Event(o) \in tasks[k].finish /\ Event(o).time = o.time /\ o.time \in Nat
    BY EventsOfTrace, LineTimes DEF Event
  <2>4. f.time >= c.time
    BY <2>1, <2>2, <2>3 DEF Earliest
  <2>5. \A o \in LinesOf(k, "finish") : o.time >= c.time => f.time <= o.time
    BY <2>1, <2>2, <2>3 DEF Earliest
  <2>6. \A o \in LinesOf(k, "finish") : ~(o.time >= c.time /\ o.time < f.time)
    BY <2>3, <2>5
  <2>7. QED  BY <2>2, <2>4, <2>6 DEF Ends
<1>4. ASSUME NEW c \in LinesOf(k, "schedule"), NEW f, Ends(k, c, f)
      PROVE  Event(f) \in FinishesFrom(tasks[k], Event(c))
  <2>1. Event(f) \in tasks[k].finish
    BY <1>4, EventsOfTrace DEF Ends
  <2>2. Event(f).time >= Event(c).time
    BY <1>4 DEF Ends, Event
  <2>3. QED  BY <2>1, <2>2 DEF FinishesFrom
<1>5. QED  BY <1>1, <1>2, <1>3, <1>4

\* What is written for an instance is what the trace as a whole says of it.
LEMMA VerdictExact ==
  ASSUME TypeOK, ReadingInv, unread = {},
         NEW k \in Keys, NEW v \in Verdicts(k, tasks[k])
  PROVE  IF v.outcome = "complete"
         THEN \E r \in Expected(k) : v.record = <<r>> /\ r.key = k
         ELSE Expected(k) = {}
<1>1. CASE tasks[k].submit = {}
  <2>1. v.outcome = "no_submit"
    BY <1>1 DEF Verdicts, Dead
  <2>2. \A s : ~First(k, s)
    BY <1>1, EventsOfTrace DEF First
  <2>3. QED  BY <2>1, <2>2, ExpectedRecords
<1>2. CASE tasks[k].submit # {} /\ tasks[k].schedule = {}
  <2>1. v.outcome = "no_schedule"
    BY <1>2 DEF Verdicts, Dead
  <2>2. LinesOf(k, "schedule") = {}
    BY <1>2, EventsOfTrace
  <2>3. QED  BY <2>1, <2>2, ExpectedRecords
<1>3. CASE tasks[k].submit # {} /\ tasks[k].schedule # {}
  <2>1. PICK se \in Earliest(tasks[k].submit) :
          \E ce \in Earliest(SchedulesFrom(tasks[k], se)) :
            v \in IF FinishesFrom(tasks[k], ce) = {} THEN {Dead("no_finish")}
                  ELSE {Judged(k, se, ce, f) : f \in Earliest(FinishesFrom(tasks[k], ce))}
    BY <1>3 DEF Verdicts
  <2>2. PICK s : se = Event(s) /\ First(k, s)
    BY EarliestLines
  <2>3. PICK ce \in Earliest(SchedulesFrom(tasks[k], Event(s))) :
          v \in IF FinishesFrom(tasks[k], ce) = {} THEN {Dead("no_finish")}
                ELSE {Judged(k, se, ce, f) : f \in Earliest(FinishesFrom(tasks[k], ce))}
    BY <2>1, <2>2
  <2>4. PICK c : ce = Event(c) /\ Starts(k, s, c)
    BY <2>2, <2>3, EarliestLines
  <2>5. c \in LinesOf(k, "schedule") /\ s \in LinesOf(k, "submit")
    BY <2>2, <2>4 DEF Starts, First
  <2>6. CASE FinishesFrom(tasks[k], ce) = {}
    <3>1. v.outcome = "no_finish"
      BY <2>3, <2>6 DEF Dead
    <3>2. ASSUME NEW t, NEW d, NEW g, First(k, t), Starts(k, t, d), Ends(k, d, g)
          PROVE  FALSE
      <4>1. t.time = s.time
        BY <2>2, <3>2, LineTimes DEF First
      <4>2. d \in LinesOf(k, "schedule")
        BY <3>2 DEF Starts
      <4>3. c.time \in Nat /\ d.time \in Nat /\ s.time \in Nat
        BY <2>5, <4>2, LineTimes
      <4>4. ~(c.time < d.time) /\ ~(d.time < c.time)
        BY <2>4, <2>5, <3>2, <4>1, <4>2, <4>3 DEF Starts
      <4>5. Event(g) \in FinishesFrom(tasks[k], Event(d))
        BY <3>2, <4>2, EarliestLines
      <4>6. Event(d).time = Event(c).time
        BY <4>3, <4>4 DEF Event
      <4>7. QED  BY <2>4, <2>6, <4>5, <4>6 DEF FinishesFrom
    <3>3. QED  BY <3>1, <3>2, ExpectedRecords
  <2>7. CASE FinishesFrom(tasks[k], ce) # {}
    <3>1. PICK fe \in Earliest(FinishesFrom(tasks[k], ce)) : v = Judged(k, se, ce, fe)
      BY <2>3, <2>7
    <3>2. PICK f : fe = Event(f) /\ Ends(k, c, f)
      BY <2>4, <2>5, <3>1, EarliestLines
    <3>3. f \in LinesOf(k, "finish") /\ f.time \in Nat /\ c.time \in Nat /\ f.time - c.time \in Nat
      BY <2>5, <3>2, LineTimes DEF Ends
    <3>4. Burst(ce, fe) = (f.time - c.time) \div NsPerUs
      BY <2>4, <3>2 DEF Burst, Event
    <3>5. Burst(ce, fe) \in Nat /\ (Burst(ce, fe) > 0 <=> f.time - c.time >= NsPerUs)
      BY <3>3, <3>4, DivNat, NsPerUsAssumption
    <3>6. CASE Burst(ce, fe) > 0
      <4>1. v = [outcome |-> "complete", record |-> <<Record(k, se, ce, fe)>>]
        BY <3>1, <3>5, <3>6 DEF Judged
      <4>2. Record(k, se, ce, fe) = Record(k, s, c, f)
        BY <2>2, <2>4, <3>2 DEF Record, Burst, Event
      <4>3. Record(k, s, c, f) \in Expected(k)
        BY <2>2, <2>4, <2>5, <3>2, <3>3, <3>5, <3>6, ExpectedRecords
      <4>4. Record(k, s, c, f).key = k
        BY DEF Record
      <4>5. QED  BY <4>1, <4>2, <4>3, <4>4
    <3>7. CASE Burst(ce, fe) = 0
      <4>1. v.outcome = "zero_burst"
        BY <3>1, <3>7 DEF Judged, Dead
      <4>2. ASSUME NEW t, NEW d, NEW g, First(k, t), Starts(k, t, d), Ends(k, d, g)
            PROVE  ~(g.time - d.time >= NsPerUs)
        <5>1. c.time = d.time /\ f.time = g.time
          BY <2>2, <2>4, <3>2, <4>2, AttemptTimes
        <5>2. QED  BY <3>5, <3>7, <5>1
      <4>3. QED  BY <4>1, <4>2, ExpectedRecords
    <3>8. QED  BY <3>5, <3>6, <3>7
  <2>8. QED  BY <2>6, <2>7
<1>4. QED  BY <1>1, <1>2, <1>3

-----------------------------------------------------------------------------
(* The records *)

CountExact ==
  LET n == Cardinality(Completing)
  IN  Len(records) = IF limit = 0 \/ limit > n THEN n ELSE limit

\* The records are expected ones, and of different instances.
Sound(s) ==
  /\ \A i \in DOMAIN s : s[i] \in Expected(s[i].key)
  /\ \A i, j \in DOMAIN s : s[i].key = s[j].key => i = j

\* They are of instances matched so far, of all of those that complete.
Complete ==
  /\ \A i \in DOMAIN records : \E j \in 1 .. next - 1 : order[j] = records[i].key
  /\ \A j \in 1 .. next - 1 : Expected(order[j]) # {} =>
       \E i \in DOMAIN records : records[i].key = order[j]

RecordsInv ==
  /\ Sound(records)
  /\ phase # "written" => Complete
  /\ phase \in {"args", "reading", "matching"} => ~LimitReached(Len(records))
  /\ phase \in {"writing", "written"} => CountExact

\* Only instances with an event that was kept complete, and those are finitely many.
LEMMA CompletingKnown ==
  ASSUME TypeOK, ReadingInv, unread = {}
  PROVE  /\ \A k \in Completing : k \in Keys /\ Known(k)
         /\ IsFiniteSet(Completing)
<1>1. ASSUME NEW k \in Completing
      PROVE  k \in Keys /\ Known(k)
  <2>1. k \in Keys /\ Expected(k) # {}
    BY DEF Completing
  <2>2. PICK s : First(k, s)
    BY <2>1, ExpectedRecords
  <2>3. tasks[k].submit # {}
    BY <2>1, <2>2, EventsOfTrace DEF First
  <2>4. QED  BY <2>1, <2>3 DEF ReadingInv, Types
<1>2. IsFiniteSet(Completing)
  <2> DEFINE known == {order[i] : i \in 1 .. Len(order)}
             f == [i \in 1 .. Len(order) |-> order[i]]
  <2>1. Len(order) \in Nat
    BY DEF TypeOK
  <2>2. IsFiniteSet(1 .. Len(order))
    BY <2>1, FS_Interval
  <2>3. f \in Surjection(1 .. Len(order), known)
    BY Fun_IsSurj
  <2>4. IsFiniteSet(known)
    BY <2>2, <2>3, FS_Surjection
  <2>5. Completing \subseteq known
    BY <1>1 DEF Known
  <2>6. QED  BY <2>4, <2>5, FS_Subset
<1>3. QED  BY <1>1, <1>2

\* Counting: sound records are no more than the instances that complete, and as
\* many when they are complete.
LEMMA RecordsCount ==
  ASSUME TypeOK, ReadingInv, unread = {}, Sound(records)
  PROVE  /\ Len(records) <= Cardinality(Completing) /\ Cardinality(Completing) \in Nat
         /\ (\A k \in Completing : \E i \in DOMAIN records : records[i].key = k)
              => Len(records) = Cardinality(Completing)
<1> DEFINE n == Len(records)
           f == [i \in 1 .. n |-> records[i].key]
<1>1. n \in Nat /\ DOMAIN records = 1 .. n /\ \A i \in 1 .. n : records[i] \in Records
  BY DEF TypeOK
<1>2. \A i \in 1 .. n : records[i].key \in Completing
  BY <1>1 DEF Sound, Completing, Records
<1>3. f \in [1 .. n -> Completing]
  BY <1>2
<1>4. \A i, j \in 1 .. n : f[i] = f[j] => i = j
  BY <1>1 DEF Sound
<1>5. f \in Injection(1 .. n, Completing)
  BY <1>3, <1>4, Fun_IsInj
<1>6. IsFiniteSet(Completing)
  BY CompletingKnown
<1>7. Cardinality(1 .. n) = n
  <2>1. Cardinality(1 .. n) = IF 1 > n THEN 0 ELSE n - 1 + 1
    BY <1>1, FS_Interval
  <2>2. QED  BY <1>1, <2>1
<1>8. n <= Cardinality(Completing)
  BY <1>5, <1>6, <1>7, FS_Injection
<1>9. ASSUME \A k \in Completing : \E i \in DOMAIN records : records[i].key = k
      PROVE  n = Cardinality(Completing)
  <2>1. f \in Surjection(1 .. n, Completing)
    BY <1>1, <1>3, <1>9, Fun_IsSurj
  <2>2. QED  BY <1>5, <1>6, <1>7, <2>1, FS_Injection
<1>10. Cardinality(Completing) \in Nat
  BY <1>6, FS_CardinalityType
<1>11. QED  BY <1>8, <1>9, <1>10

RecordsBounded ==
  (TypeOK /\ ReadingInv /\ unread = {} /\ Sound(records)) =>
    Len(records) <= Cardinality(Completing) /\ Cardinality(Completing) \in Nat

\* The same of the state after a step.
LEMMA RecordsBoundedNext == RecordsBounded'
<1>1. RecordsBounded
  BY RecordsCount DEF RecordsBounded
<1>2. QED  BY <1>1, PTL

LEMMA InitRecordsInv == Init => RecordsInv
<1> SUFFICES ASSUME Init PROVE RecordsInv
  OBVIOUS
<1>1. limit \in Nat
  BY OptionsAssumption DEF Init
<1>2. QED  BY <1>1 DEF Init, RecordsInv, Sound, Complete, LimitReached

\* The trace and the options never change, and with them what is expected.
LEMMA ExpectedConstant ==
  ASSUME [Next]_vars
  PROVE  /\ trace' = trace /\ window' = window /\ limit' = limit
         /\ \A k : Expected(k)' = Expected(k)
         /\ Completing' = Completing
<1>1. trace' = trace /\ window' = window /\ limit' = limit
  BY DEF Next, InputMissing, Start, SkipLine, ReadLine, EndOfInput, MatchTask, EndOfTasks,
         WriteCsv, Ended, vars, options
<1>2. \A k, type : LinesOf(k, type)' = LinesOf(k, type)
  BY <1>1 DEF LinesOf
<1>3. \A k, s, c : Starts(k, s, c)' <=> Starts(k, s, c)
  BY <1>2 DEF Starts
<1>4. \A k : Expected(k)' = Expected(k)
  BY <1>1, <1>2, <1>3 DEF Expected, WithinWindow, AtWindowEnd
<1>5. QED  BY <1>1, <1>4 DEF Completing

LEMMA MatchTaskRecordsInv ==
  TInv /\ ReadingInv /\ ReadingInv' /\ RecordsInv /\ MatchTask => RecordsInv'
<1> SUFFICES ASSUME TInv, ReadingInv, ReadingInv', RecordsInv, MatchTask PROVE RecordsInv'
  OBVIOUS
<1> DEFINE k == order[next]
<1>0. TypeOK /\ TypeOK' /\ StatsAddUp'
  BY MatchTaskTInv DEF TInv
<1>1. /\ k \in Keys /\ next \in 1 .. Len(order) /\ Len(order) \in Nat
      /\ phase = "matching" /\ unread = {} /\ unread' = {}
      /\ next' = next + 1 /\ order' = order
  BY <1>0 DEF TypeOK, MatchTask, ReadingInv, options
<1>2. PICK v \in Verdicts(k, tasks[k]) :
        /\ stats' = [stats EXCEPT ![v.outcome] = @ + 1]
        /\ records' = records \o v.record
        /\ phase' = IF v.outcome = "complete" /\ LimitReached(stats'["complete"])
                    THEN "writing" ELSE phase
  BY DEF MatchTask
<1>3. \A i \in DOMAIN records : records[i].key # k
  <2>1. ASSUME NEW i \in DOMAIN records, records[i].key = k
        PROVE  FALSE
    <3>1. PICK j \in 1 .. next - 1 : order[j] = k
      BY <1>1, <2>1 DEF RecordsInv, Complete
    <3>2. j \in 1 .. Len(order) /\ j # next
      BY <1>1
    <3>3. QED  BY <1>1, <3>1, <3>2 DEF ReadingInv
  <2>2. QED  BY <2>1
<1>4. [Next]_vars
  BY DEF Next
<1>5. /\ Sound(records)' /\ Complete'
      /\ v.outcome # "complete" => records' = records
  <2>0. records \in Seq(Records)
    BY <1>0 DEF TypeOK
  <2>1. CASE v.outcome = "complete"
    <3>1. PICK r \in Expected(k) : v.record = <<r>> /\ r.key = k
      BY <1>0, <1>1, <2>1, VerdictExact
    <3>2. /\ Len(records') = Len(records) + 1 /\ records'[Len(records) + 1] = r
          /\ \A i \in DOMAIN records : records'[i] = records[i] /\ i # Len(records) + 1
          /\ DOMAIN records' = DOMAIN records \cup {Len(records) + 1}
      BY <1>2, <2>0, <3>1
    <3>3. Sound(records)'
      BY <1>3, <1>4, <3>1, <3>2, ExpectedConstant DEF RecordsInv, Sound
    <3>4. \A i \in DOMAIN records' : \E j \in 1 .. next' - 1 : order'[j] = records'[i].key
      BY <1>1, <3>1, <3>2 DEF RecordsInv, Complete
    <3>5. ASSUME NEW j \in 1 .. next' - 1, Expected(order[j]) # {}
          PROVE  \E i \in DOMAIN records' : records'[i].key = order[j]
      <4>1. CASE j = next
        BY <3>1, <3>2, <4>1
      <4>2. CASE j # next
        <5>1. j \in 1 .. next - 1
          BY <1>1, <4>2
        <5>2. QED  BY <1>1, <3>2, <3>5, <5>1 DEF RecordsInv, Complete
      <4>3. QED  BY <4>1, <4>2
    <3>6. QED  BY <1>1, <1>4, <2>1, <3>3, <3>4, <3>5, ExpectedConstant DEF Complete
  <2>2. CASE v.outcome # "complete"
    <3>1. Expected(k) = {}
      BY <1>0, <1>1, <2>2, VerdictExact
    <3>2. v.record = << >>
      <4>1. tasks[k] \in EventSets
        BY <1>0, <1>1 DEF TypeOK, EventSets
      <4>2. QED  BY <1>1, <2>2, <4>1, VerdictsType
    <3>3. records' = records
      BY <1>2, <2>0, <3>2
    <3>4. Sound(records)'
      BY <1>4, <3>3, ExpectedConstant DEF RecordsInv, Sound
    <3>5. \A i \in DOMAIN records' : \E j \in 1 .. next' - 1 : order'[j] = records'[i].key
      BY <1>1, <3>3 DEF RecordsInv, Complete
    <3>6. ASSUME NEW j \in 1 .. next' - 1, Expected(order[j]) # {}
          PROVE  \E i \in DOMAIN records' : records'[i].key = order[j]
      <4>1. j \in 1 .. next - 1
        BY <1>1, <3>1, <3>6
      <4>2. QED  BY <1>1, <3>3, <3>6, <4>1 DEF RecordsInv, Complete
    <3>7. QED  BY <1>1, <1>4, <3>3, <3>4, <3>5, <3>6, ExpectedConstant DEF Complete
  <2>3. QED  BY <2>1, <2>2
<1>6. limit \in Nat /\ limit' = limit
  BY <1>0, <1>4, ExpectedConstant, OptionsAssumption DEF TypeOK
<1>7. CASE v.outcome = "complete" /\ LimitReached(stats'["complete"])
  <2>1. phase' = "writing"
    BY <1>2, <1>7
  <2>2. Len(records') = limit /\ limit # 0
    <3>1. limit # 0 /\ Len(records') >= limit
      BY <1>0, <1>7 DEF StatsAddUp, LimitReached
    <3>2. Len(records) < limit /\ Len(records) \in Nat
      BY <1>0, <1>1, <1>6, <3>1 DEF RecordsInv, LimitReached, TypeOK
    <3>3. Len(records') = Len(records) + 1
      <4>1. PICK r \in Expected(k) : v.record = <<r>>
        BY <1>0, <1>1, <1>7, VerdictExact
      <4>2. QED  BY <1>0, <1>2, <4>1 DEF TypeOK
    <3>4. QED  BY <1>6, <3>1, <3>2, <3>3
  <2>3. limit' <= Cardinality(Completing') /\ Cardinality(Completing') \in Nat
    BY <1>0, <1>1, <1>5, <1>6, <2>2, RecordsBoundedNext DEF RecordsBounded
  <2>4. CountExact'
    BY <1>6, <2>2, <2>3 DEF CountExact
  <2>5. QED  BY <1>5, <2>1, <2>4 DEF RecordsInv
<1>8. CASE ~(v.outcome = "complete" /\ LimitReached(stats'["complete"]))
  <2>1. phase' = "matching"
    BY <1>1, <1>2, <1>8
  <2>2. ~LimitReached(Len(records))'
    <3>1. CASE v.outcome = "complete"
      BY <1>0, <1>6, <1>8, <3>1 DEF StatsAddUp, LimitReached
    <3>2. CASE v.outcome # "complete"
      BY <1>1, <1>5, <1>6, <3>2 DEF RecordsInv, LimitReached
    <3>3. QED  BY <3>1, <3>2
  <2>3. QED  BY <1>5, <2>1, <2>2 DEF RecordsInv
<1>9. QED  BY <1>7, <1>8

LEMMA EndOfTasksRecordsInv ==
  TypeOK /\ ReadingInv /\ RecordsInv /\ EndOfTasks => RecordsInv'
<1> SUFFICES ASSUME TypeOK, ReadingInv, RecordsInv, EndOfTasks PROVE RecordsInv'
  OBVIOUS
<1>1. /\ phase = "matching" /\ unread = {} /\ phase' = "writing"
      /\ UNCHANGED <<order, next, records>>
  BY DEF EndOfTasks, ReadingInv
<1>2. [Next]_vars
  BY DEF Next
<1>3. next = Len(order) + 1 /\ Len(order) \in Nat
  BY DEF EndOfTasks, TypeOK
<1>4. \A k \in Completing : \E i \in DOMAIN records : records[i].key = k
  <2>1. ASSUME NEW k \in Completing
        PROVE  \E i \in DOMAIN records : records[i].key = k
    <3>1. PICK j \in 1 .. Len(order) : order[j] = k
      BY <1>1, CompletingKnown DEF Known
    <3>2. Expected(order[j]) # {}
      BY <3>1 DEF Completing
    <3>3. j \in 1 .. next - 1
      BY <1>3
    <3>4. Complete
      BY <1>1 DEF RecordsInv
    <3>5. QED  BY <3>1, <3>2, <3>3, <3>4 DEF Complete
  <2>2. QED  BY <2>1
<1>5. Len(records) = Cardinality(Completing)
  BY <1>1, <1>4, RecordsCount DEF RecordsInv
<1>6. limit \in Nat /\ Len(records) \in Nat
  BY OptionsAssumption DEF TypeOK
<1>7. CountExact
  BY <1>1, <1>5, <1>6 DEF CountExact, RecordsInv, LimitReached
<1>8. CountExact'
  BY <1>1, <1>2, <1>7, ExpectedConstant DEF CountExact
<1>9. Sound(records)' /\ Complete'
  BY <1>1, <1>2, ExpectedConstant DEF RecordsInv, Sound, Complete
<1>10. QED  BY <1>1, <1>8, <1>9 DEF RecordsInv

LEMMA WriteCsvRecordsInv == TypeOK /\ RecordsInv /\ WriteCsv => RecordsInv'
<1> SUFFICES ASSUME TypeOK, RecordsInv, WriteCsv PROVE RecordsInv'
  OBVIOUS
<1>1. [Next]_vars
  BY DEF Next
<1>2. PICK p \in [DOMAIN records -> DOMAIN records] :
        /\ SortsByArrival(records, p)
        /\ records' = Arranged(records, p)
  BY DEF WriteCsv, Arranged
<1>3. /\ Len(records') = Len(records) /\ DOMAIN records' = DOMAIN records
      /\ \A i, j \in DOMAIN records' : p[i] = p[j] => i = j
  BY <1>2, SortedRecords DEF TypeOK
<1>4. \A i \in DOMAIN records' : records'[i] = records[p[i]] /\ p[i] \in DOMAIN records
  BY <1>2, <1>3 DEF Arranged
<1>5. Sound(records)'
  BY <1>1, <1>3, <1>4, ExpectedConstant DEF RecordsInv, Sound
<1>6. CountExact'
  BY <1>1, <1>3, ExpectedConstant DEF RecordsInv, WriteCsv, CountExact
<1>7. phase' = "written"
  BY DEF WriteCsv
<1>8. QED  BY <1>5, <1>6, <1>7 DEF RecordsInv

LEMMA NextRecordsInv ==
  TInv /\ ReadingInv /\ ReadingInv' /\ RecordsInv /\ [Next]_vars => RecordsInv'
<1> SUFFICES ASSUME TInv, ReadingInv, ReadingInv', RecordsInv, [Next]_vars
             PROVE  RecordsInv'
  OBVIOUS
<1>0. TypeOK
  BY DEF TInv
<1>1. CASE MatchTask
  BY <1>1, MatchTaskRecordsInv
<1>2. CASE EndOfTasks
  BY <1>0, <1>2, EndOfTasksRecordsInv
<1>3. CASE WriteCsv
  BY <1>0, <1>3, WriteCsvRecordsInv
<1>4. CASE InputMissing \/ Start \/ SkipLine \/ ReadLine \/ EndOfInput
  <2>1. /\ phase \in {"args", "reading"}
        /\ phase' \in {"failed", "reading", "matching"}
        /\ next' = next /\ records' = records
    BY <1>4 DEF InputMissing, Start, SkipLine, ReadLine, EndOfInput
  <2>2. next = 1 /\ records = << >>
    BY <2>1 DEF ReadingInv
  <2>3. ~LimitReached(Len(records))'
    BY <2>1, ExpectedConstant DEF RecordsInv, LimitReached
  <2>4. QED  BY <2>1, <2>2, <2>3 DEF RecordsInv, Sound, Complete
<1>5. CASE Ended \/ UNCHANGED vars
  <2>1. UNCHANGED <<phase, order, next, records>>
    BY <1>5 DEF Ended, vars
  <2>2. Sound(records)' <=> Sound(records)
    BY <2>1, ExpectedConstant DEF Sound
  <2>3. Complete' <=> Complete
    BY <2>1, ExpectedConstant DEF Complete
  <2>4. CountExact' <=> CountExact
    BY <2>1, ExpectedConstant DEF CountExact
  <2>5. LimitReached(Len(records))' <=> LimitReached(Len(records))
    BY <2>1, ExpectedConstant DEF LimitReached
  <2>6. QED  BY <2>1, <2>2, <2>3, <2>4, <2>5 DEF RecordsInv
<1>6. QED  BY <1>1, <1>2, <1>3, <1>4, <1>5 DEF Next

\* The workload written is the one the trace as a whole defines.
THEOREM ExtractionCorrect == Spec => []ExtractionExact
<1> DEFINE Inv == TInv /\ ReadingInv /\ RecordsInv
<1>1. Init => Inv
  BY InitTInv, InitReadingInv, InitRecordsInv
<1>2. Inv /\ [Next]_vars => Inv'
  <2> SUFFICES ASSUME Inv, [Next]_vars PROVE Inv'
    OBVIOUS
  <2>1. TInv'
    BY NextTInv
  <2>2. ReadingInv'
    BY NextReadingInv DEF TInv
  <2>3. RecordsInv'
    BY <2>2, NextRecordsInv
  <2>4. QED  BY <2>1, <2>2, <2>3
<1>3. Inv => ExtractionExact
  BY DEF RecordsInv, Sound, CountExact, ExtractionExact
<1>4. QED  BY <1>1, <1>2, <1>3, PTL DEF Spec

=============================================================================
