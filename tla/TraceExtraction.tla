--------------------------- MODULE TraceExtraction ---------------------------
(***************************************************************************)
(* extract_google_v3.py: from a Google Borg trace to a workload of the     *)
(* simulator.  A trace is a set of lines, each an event of an instance;    *)
(* the input files give no order between the lines, so they are read in    *)
(* any.  The events are grouped by instance, the instances then matched    *)
(* one by one in the order their first event was seen, and the records     *)
(* sorted, shifted to start at 0 and written.                              *)
(*                                                                         *)
(* Left out: the scheduling class and the CPU request of a record, which   *)
(* are copied, and what is printed.                                        *)
(***************************************************************************)
EXTENDS Integers, Sequences, FiniteSets

CONSTANTS
  Keys,         \* instances: (collection_id, instance_index)
  Traces,       \* the inputs: sets of lines
  Windows,      \* --time-window in nanoseconds, 0 when there is none
  Limits,       \* --max-tasks, 0 when there is none
  NsPerUs,      \* nanoseconds in a microsecond: 1000
  Priorities    \* V3 priorities of the lines

ASSUME NsPerUsAssumption == NsPerUs \in Nat \ {0}

ASSUME PrioritiesAssumption == Priorities \subseteq Nat

Types == {"submit", "schedule", "finish"}

\* A line of a type the extraction does not use, or that does not parse, is
\* of type "other".
Lines == [type : Types \cup {"other"}, key : Keys, time : Nat, prio : Priorities]

ASSUME TracesAssumption == Traces \subseteq SUBSET Lines

ASSUME OptionsAssumption == Windows \subseteq Nat /\ Limits \subseteq Nat

Outcomes ==
  {"complete", "no_submit", "no_schedule", "no_finish", "negative_burst", "zero_burst"}

VARIABLES
  phase,      \* "args", "reading", "matching", "writing", "written" or "failed"
  trace,      \* the lines of the input files
  window, limit, normalize,   \* the options
  unread,     \* the lines still to come
  tasks,      \* per instance its submit, schedule and finish events
  order,      \* the instances in the order of their first event
  next,       \* the instance to match next, an index of order
  stats,      \* how many instances ended in each outcome
  records,    \* the records so far
  csv         \* the output file, << >> until it is written

vars == <<phase, trace, window, limit, normalize, unread, tasks, order, next,
          stats, records, csv>>

options == <<trace, window, limit, normalize>>

-----------------------------------------------------------------------------
(* The weight of a priority *)

Clamp(low, high, x) == IF x < low THEN low ELSE IF x > high THEN high ELSE x

\* Faulty variant of Nice: one tier maps the wrong way round.
NiceRising(p) ==
  CASE p < 100               -> Clamp(10, 19, 19 - (p * 9) \div 99)
    [] p \in 100 .. 115      -> Clamp(5, 9, 5 + ((p - 100) * 4) \div 15)
    [] p \in 116 .. 119      -> Clamp(1, 4, 4 - ((p - 116) * 3) \div 3)
    [] p \in 120 .. 359      -> Clamp(-10, 0, -(((p - 120) * 10) \div 239))
    [] p > 359               -> Clamp(-20, -11, -11 - ((p - 360) * 9) \div 140)

\* map_priority_to_nice: a linear map within each tier of priorities.
Nice(p) ==
  CASE p < 100               -> Clamp(10, 19, 19 - (p * 9) \div 99)
    [] p \in 100 .. 115      -> Clamp(5, 9, 9 - ((p - 100) * 4) \div 15)
    [] p \in 116 .. 119      -> Clamp(1, 4, 4 - ((p - 116) * 3) \div 3)
    [] p \in 120 .. 359      -> Clamp(-10, 0, -(((p - 120) * 10) \div 239))
    [] p > 359               -> Clamp(-20, -11, -11 - ((p - 360) * 9) \div 140)

\* CFS_WEIGHTS, from nice -20 to nice 19.
Weights ==
  <<88761, 71755, 56483, 46273, 36291, 29154, 23254, 18705, 14949, 11916,
    9548, 7620, 6100, 4904, 3906, 3121, 2501, 1991, 1586, 1277,
    1024, 820, 655, 526, 423, 335, 272, 215, 172, 137,
    110, 87, 70, 56, 45, 36, 29, 23, 18, 15>>

Weight(nice) == Weights[nice + 21]

-----------------------------------------------------------------------------
(* Reading *)

NoEvents == [submit |-> {}, schedule |-> {}, finish |-> {}]

Init ==
  /\ phase = "args"
  /\ trace \in Traces /\ window \in Windows /\ limit \in Limits
  /\ normalize \in BOOLEAN
  /\ unread = trace
  /\ tasks = [k \in Keys |-> NoEvents]
  /\ order = << >> /\ next = 1
  /\ stats = [o \in Outcomes |-> 0]
  /\ records = << >> /\ csv = << >>

\* An input file that does not exist ends the program before any is read.
InputMissing ==
  /\ phase = "args"
  /\ phase' = "failed"
  /\ UNCHANGED <<options, unread, tasks, order, next, stats, records, csv>>

Start ==
  /\ phase = "args"
  /\ phase' = "reading"
  /\ UNCHANGED <<options, unread, tasks, order, next, stats, records, csv>>

\* Faulty variant of Dropped: the window drops events of every type.
DroppedAny(l) ==
  \/ l.type \notin Types
  \/ window # 0 /\ l.time > window

\* The window drops submissions only.
Dropped(l) ==
  \/ l.type \notin Types
  \/ l.type = "submit" /\ window # 0 /\ l.time > window

SkipLine ==
  /\ phase = "reading"
  /\ \E l \in unread : Dropped(l) /\ unread' = unread \ {l}
  /\ UNCHANGED <<phase, options, tasks, order, next, stats, records, csv>>

Known(k) == \E i \in 1 .. Len(order) : order[i] = k

\* An event is filed under its instance, which is created by its first event.
ReadLine ==
  /\ phase = "reading"
  /\ \E l \in unread :
       /\ ~Dropped(l)
       /\ unread' = unread \ {l}
       /\ tasks' = [tasks EXCEPT ![l.key][l.type] =
                      @ \cup {[time |-> l.time, prio |-> l.prio]}]
       /\ order' = IF Known(l.key) THEN order ELSE Append(order, l.key)
  /\ UNCHANGED <<phase, options, next, stats, records, csv>>

EndOfInput ==
  /\ phase = "reading" /\ unread = {}
  /\ phase' = "matching"
  /\ UNCHANGED <<options, unread, tasks, order, next, stats, records, csv>>

-----------------------------------------------------------------------------
(* Matching *)

\* min by time: the first in file order among the earliest, so any of them.
Earliest(events) == {e \in events : \A o \in events : e.time <= o.time}

\* The schedule events from the submission on; all of them when there is none.
SchedulesFrom(events, submit) ==
  LET after == {e \in events.schedule : e.time >= submit.time}
  IN  IF after = {} THEN events.schedule ELSE after

FinishesFrom(events, schedule) == {e \in events.finish : e.time >= schedule.time}

\* What becomes of an instance, with its record when there is one.
Dead(outcome) == [outcome |-> outcome, record |-> << >>]

Burst(schedule, finish) == (finish.time - schedule.time) \div NsPerUs

\* The record of instance k.  Its key and the priority itself are not written.
Record(k, submit, schedule, finish) ==
  [key     |-> k,
   arrival |-> submit.time \div NsPerUs,
   burst   |-> Burst(schedule, finish),
   prio    |-> submit.prio,
   weight  |-> Weight(Nice(submit.prio))]

\* Faulty variant of Judged: a burst of 0 passes.
JudgedZero(k, submit, schedule, finish) ==
  IF Burst(schedule, finish) < 0 THEN Dead("negative_burst")
  ELSE [outcome |-> "complete", record |-> <<Record(k, submit, schedule, finish)>>]

Judged(k, submit, schedule, finish) ==
  LET burst == Burst(schedule, finish)
  IN  CASE burst < 0 -> Dead("negative_burst")
        [] burst = 0 -> Dead("zero_burst")
        [] burst > 0 -> [outcome |-> "complete",
                         record  |-> <<Record(k, submit, schedule, finish)>>]

\* The verdicts on an instance: more than one when its earliest events tie.
Verdicts(k, events) ==
  CASE events.submit = {} -> {Dead("no_submit")}
    [] events.submit # {} /\ events.schedule = {} -> {Dead("no_schedule")}
    [] events.submit # {} /\ events.schedule # {} ->
         UNION {UNION {IF FinishesFrom(events, c) = {} THEN {Dead("no_finish")}
                       ELSE {Judged(k, s, c, f) : f \in Earliest(FinishesFrom(events, c))} :
                       c \in Earliest(SchedulesFrom(events, s))} :
                s \in Earliest(events.submit)}

LimitReached(count) == limit # 0 /\ count >= limit

\* One turn of the loop over the instances, left early at the limit.
MatchTask ==
  /\ phase = "matching" /\ next <= Len(order)
  /\ \E v \in Verdicts(order[next], tasks[order[next]]) :
       /\ stats' = [stats EXCEPT ![v.outcome] = @ + 1]
       /\ records' = records \o v.record
       /\ phase' = IF v.outcome = "complete" /\ LimitReached(stats'["complete"])
                   THEN "writing" ELSE phase
  /\ next' = next + 1
  /\ UNCHANGED <<options, unread, tasks, order, csv>>

EndOfTasks ==
  /\ phase = "matching" /\ next > Len(order)
  /\ phase' = "writing"
  /\ UNCHANGED <<options, unread, tasks, order, next, stats, records, csv>>

-----------------------------------------------------------------------------
(* Writing *)

\* p lists the positions of s by arrival, equal arrivals in their old order:
\* the stable sort.
SortsByArrival(s, p) ==
  \A i, j \in DOMAIN s : i < j =>
    \/ s[p[i]].arrival < s[p[j]].arrival
    \/ s[p[i]].arrival = s[p[j]].arrival /\ p[i] < p[j]

\* normalize_arrival_times, on sorted records.
Normalized(s) ==
  [i \in DOMAIN s |-> [s[i] EXCEPT !.arrival = @ - s[1].arrival]]

\* Faulty variant of WriteCsv: the records stay in the order of matching.
WriteCsvUnsorted ==
  /\ phase = "writing"
  /\ phase' = "written"
  /\ csv' = IF normalize THEN Normalized(records) ELSE records
  /\ UNCHANGED <<options, unread, tasks, order, next, stats, records>>

\* The sort that ends extract_tasks, the shift and write_csv.
WriteCsv ==
  /\ phase = "writing"
  /\ phase' = "written"
  /\ \E p \in [DOMAIN records -> DOMAIN records] :
       /\ SortsByArrival(records, p)
       /\ records' = [i \in DOMAIN records |-> records[p[i]]]
  /\ csv' = IF normalize THEN Normalized(records') ELSE records'
  /\ UNCHANGED <<options, unread, tasks, order, next, stats>>

\* The program has ended.
Ended == phase \in {"written", "failed"} /\ UNCHANGED vars

Next ==
  \/ InputMissing \/ Start \/ SkipLine \/ ReadLine \/ EndOfInput
  \/ MatchTask \/ EndOfTasks \/ WriteCsv \/ Ended

Spec == Init /\ [][Next]_vars

-----------------------------------------------------------------------------
(* Properties *)

Records ==
  [key : Keys, arrival : Nat, burst : Nat \ {0}, prio : Priorities, weight : Nat]

Events == [time : Nat, prio : Priorities]

\* The tables of the extraction hold what the code reads from them: bursts that
\* are never 0, events under existing instances, an output only at the end.
TypeOK ==
  /\ phase \in {"args", "reading", "matching", "writing", "written", "failed"}
  /\ trace \in Traces /\ window \in Windows /\ limit \in Limits
  /\ normalize \in BOOLEAN
  /\ unread \subseteq trace
  /\ tasks \in [Keys -> [submit : SUBSET Events, schedule : SUBSET Events,
                         finish : SUBSET Events]]
  /\ order \in Seq(Keys)
  /\ next \in 1 .. Len(order) + 1
  /\ stats \in [Outcomes -> Nat]
  /\ records \in Seq(Records)
  /\ csv \in Seq(Records)

\* The lines of instance k of one type, in the whole trace.
LinesOf(k, type) == {l \in trace : l.key = k /\ l.type = type}

\* c is the schedule line that starts the attempt submitted at s: the first
\* from s on or, if all came before, the first of all.
Starts(k, s, c) ==
  LET lines == LinesOf(k, "schedule")
  IN  /\ c \in lines
      /\ \/ /\ c.time >= s.time
            /\ ~\E o \in lines : o.time >= s.time /\ o.time < c.time
         \/ \A o \in lines : o.time < s.time /\ c.time <= o.time

\* What time_window_ns is said to select (extract_google_v3.py:103): "only
\* include tasks with SUBMIT time < this value".
WithinWindow(s) == window # 0 => s.time < window

\* What the comparison of line 133 selects besides, against that line.
AtWindowEnd(s) == s.time = window

\* The record of instance k, said of the trace as a whole: the time from the
\* start of its first attempt to the next finish, when that attempt was
\* submitted within the window or at its end and runs for a microsecond at least.
Expected(k) ==
  {r \in {Record(k, s, c, f) : s \in LinesOf(k, "submit"),
                              c \in LinesOf(k, "schedule"),
                              f \in LinesOf(k, "finish")} :
     \E s \in LinesOf(k, "submit"), c \in LinesOf(k, "schedule"),
        f \in LinesOf(k, "finish") :
       /\ r = Record(k, s, c, f)
       /\ ~\E o \in LinesOf(k, "submit") : o.time < s.time
       /\ WithinWindow(s) \/ AtWindowEnd(s)
       /\ Starts(k, s, c)
       /\ f.time - c.time >= NsPerUs
       /\ ~\E o \in LinesOf(k, "finish") : o.time >= c.time /\ o.time < f.time}

Completing == {k \in Keys : Expected(k) # {}}

\* Whatever the order of the lines, the records are those of the trace: one for
\* every instance that completes or, under a limit, for as many of them as it
\* allows.  The window, applied to each submission as it is read, comes to the
\* same as leaving out the instances first submitted after its end, which is
\* one nanosecond later than it is said to be.
ExtractionExact ==
  phase = "written" =>
    /\ \A i \in DOMAIN records : records[i] \in Expected(records[i].key)
    /\ \A i, j \in DOMAIN records : records[i].key = records[j].key => i = j
    /\ LET n == Cardinality(Completing)
       IN  Len(records) = IF limit = 0 \/ limit > n THEN n ELSE limit

\* The file is what the simulator takes for a workload: by arrival, from time 0
\* on unless told not to, with the gaps of the trace, and no task of length 0.
OutputIsWorkload ==
  phase = "written" =>
    /\ \A i, j \in DOMAIN csv : i < j => csv[i].arrival <= csv[j].arrival
    /\ normalize /\ csv # << >> => csv[1].arrival = 0
    /\ \A i, j \in DOMAIN csv :
         csv[i].arrival - csv[j].arrival = records[i].arrival - records[j].arrival
    /\ \A i \in DOMAIN csv : csv[i].burst > 0

\* A task of higher priority in the trace is never given less weight, across
\* the tiers and their boundaries.
PriorityRespected ==
  \A i, j \in DOMAIN csv :
    csv[i].prio >= csv[j].prio => csv[i].weight >= csv[j].weight

=============================================================================
