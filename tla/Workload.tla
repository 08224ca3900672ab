------------------------------ MODULE Workload ------------------------------
(***************************************************************************)
(* tools/gen_workload.py: the rows of a scenario's workload, one step per  *)
(* iteration of the generators' loops.  Every draw takes values at and     *)
(* near both ends of its range.  The rows are sorted by time afterwards    *)
(* with a stable sort, so row order is time first, then generation order.  *)
(***************************************************************************)
EXTENDS Integers, Sequences, FiniteSets

CONSTANTS
  ScenarioNames,   \* the scenarios generated, among SCENARIO_NAMES
  EVENT_CAPACITY,  \* FL_EVENT_CAPACITY
  MAX_STREAMS,     \* FL_MAX_STREAMS
  HORIZON,         \* FL_TIME_HORIZON_MS
  MAX_REL,         \* FL_MAX_REL_MS
  Edge             \* bound: values taken at each end of the range of a draw

ASSUME WorkloadAssumption ==
  /\ ScenarioNames \subseteq {"healthy_light", "alarm_outage", "burst_loss", "ack_loss",
                              "reorder", "overflow", "overload", "tight_deadline"}
  /\ Edge \in Nat \ {0}

VARIABLES
  scenario,
  part,      \* what is being generated: samples, events, trace; or done, failed
  stream, k, \* where the loops are
  batch,     \* the rows appended by the last step
  last       \* the sample before it of the same stream, or <<>>

wvars == <<scenario, part, stream, k, batch, last>>

-----------------------------------------------------------------------------
(* SCENARIOS, the configuration each scenario runs under. *)

\* Mutant: one configuration for all, with the default of 8 attempts.
CommonConfig(scn) ==
  [run_ms |-> 30000, slot_ms |-> 10, ack_timeout_ms |-> 300, max_attempts |-> 8,
   n_streams |-> CASE scn = "alarm_outage" -> 2 [] scn = "tight_deadline" -> 8 [] OTHER -> 4]

Config(scn) ==
  [run_ms |-> 30000, slot_ms |-> 10, ack_timeout_ms |-> 300,
   n_streams |-> CASE scn = "alarm_outage" -> 2 [] scn = "tight_deadline" -> 8 [] OTHER -> 4,
   max_attempts |-> IF scn \in {"alarm_outage", "overflow"} THEN 40 ELSE 8]

RunMs == Config(scenario).run_ms

TIGHT_FIRST  == 2000
TIGHT_PERIOD == 3000
TIGHT_LEN    == 1200

\* tight_outage_starts, and the same outages told by a remainder.
TightStarts == {TIGHT_FIRST + i * TIGHT_PERIOD : i \in 0 .. (30000 - TIGHT_FIRST - 1) \div TIGHT_PERIOD}

InTightOutage(t) == t >= TIGHT_FIRST /\ ((t - TIGHT_FIRST) % TIGHT_PERIOD) < TIGHT_LEN

-----------------------------------------------------------------------------
(* Rows and draws. *)

StateRow(t, s, value) == [time |-> t, action |-> "STATE", stream |-> s, value |-> value]

EventRow(t, action, code, deadline, retention) ==
  [time |-> t, action |-> action, code |-> code, deadline |-> deadline, retention |-> retention]

\* Mutant: only times past the end of the run are clamped.
ClampAbove(t) == IF t >= RunMs THEN RunMs - 1 ELSE t

Clamp(t) == IF t < 0 THEN 0 ELSE IF t >= RunMs THEN RunMs - 1 ELSE t

\* randint(lo, hi), at its ends.
Drawn(lo, hi) == {x \in lo .. lo + Edge - 1 : x <= hi} \cup {x \in hi - Edge + 1 .. hi : x >= lo}

\* Mutant: the period and the jitter change places.
GridSwapped(scn, s) == [period |-> 50, jitter |-> 500]

\* The period and jitter _periodic_stream is called with.
Grid(scn, s) ==
  CASE scn = "alarm_outage"   -> IF s = 0 THEN [period |-> 1000, jitter |-> 0]
                                          ELSE [period |-> 500, jitter |-> 50]
    [] scn = "reorder"        -> [period |-> 200, jitter |-> 20]
    [] scn = "overload"       -> [period |-> 250, jitter |-> 20]
    [] scn = "tight_deadline" -> [period |-> 100, jitter |-> 10]
    [] OTHER                  -> [period |-> 500, jitter |-> 50]

GridTime(s, n) ==
  (s * Grid(scenario, s).period) \div Config(scenario).n_streams + n * Grid(scenario, s).period

\* Mutant: the alarm is off at the last sample before it is cleared.
AlarmShort(t) == IF 10000 <= t /\ t < 11000 THEN 1 ELSE 0

AlarmValue(t) == IF 10000 <= t /\ t < 12000 THEN 1 ELSE 0

\* The value of a sample: the alarm's level, the furthest the temperature has
\* walked, or the index of the sample.
Values(s, n) ==
  IF scenario # "alarm_outage" THEN {n}
  ELSE IF s = 0 THEN {AlarmValue(GridTime(0, n))}
  ELSE {200 - 3 * (n + 1), 200 + 3 * (n + 1)}

\* The explicit samples of the alarm, unless the grid has them.
Explicit ==
  SelectSeq(<<StateRow(10000, 0, 1), StateRow(12000, 0, 0)>>,
            LAMBDA r : /\ \A n \in 0 .. RunMs \div 1000 : GridTime(0, n) # r.time
                       /\ r.time < RunMs)

-----------------------------------------------------------------------------
(* The events of each scenario: the rows the iteration number n may append. *)

PairsOf(n, deadline, retention) ==
  {<<EventRow(t, "RAISE", n + 1, deadline, retention),
     EventRow(t + gap, "CLEAR", n + 1, deadline, retention)>>
     : t \in Drawn(1000, 27000), gap \in Drawn(200, 1500)}

AlarmEvent(n) == IF n = 0 THEN EventRow(10000, "RAISE", 1, 1000, 17000)
                          ELSE EventRow(12000, "CLEAR", 1, 1000, 17000)

OverflowEvent(n) == IF n < 20 THEN EventRow(5100 + 100 * n, "RAISE", n + 1, 2000, 8000)
                              ELSE EventRow(13000 + 100 * (n - 20), "CLEAR", n - 19, 2000, 8000)

OverloadEvent(n) == EventRow(5000 + 8 * n, "RAISE", (n % 250) + 1, 200, 1000)

\* After an outage that ends early enough, an event raised and soon cleared.
TightPair(start) ==
  LET end == start + TIGHT_LEN
  IN  SelectSeq(<<EventRow(end + 10, "RAISE", 1, 400, 3000), EventRow(end + 500, "CLEAR", 1, 400, 3000)>>,
                LAMBDA r : end + 10 < RunMs /\ r.time < RunMs)

\* Mutant: a draw inside an outage is kept.
TightTimesAny == Drawn(1000, 29000) \cup Drawn(TIGHT_FIRST - Edge, TIGHT_FIRST + Edge - 1)

\* Drawn again until the time is outside every outage, also next to one.
TightTimes ==
  {t \in Drawn(1000, 29000) \cup Drawn(TIGHT_FIRST - Edge, TIGHT_FIRST + Edge - 1)
           \cup Drawn(TIGHT_FIRST + TIGHT_LEN - Edge, TIGHT_FIRST + TIGHT_LEN + Edge - 1)
     : ~ InTightOutage(t)}

NOutages == Cardinality(TightStarts)

TightEvents(n) ==
  IF n < NOutages THEN {TightPair(TIGHT_FIRST + n * TIGHT_PERIOD)}
  ELSE {<<EventRow(t, "RAISE", 2, 400, 3000)>> : t \in TightTimes}

\* How often the loops over events iterate, and what an iteration may append.
Iterations ==
  CASE scenario = "burst_loss"     -> 10
    [] scenario = "alarm_outage"   -> 2
    [] scenario = "overflow"       -> 40
    [] scenario = "overload"       -> 2500
    [] scenario = "tight_deadline" -> NOutages + 20
    [] OTHER                       -> 6

EventsOf(n) ==
  CASE scenario = "alarm_outage"   -> {<<AlarmEvent(n)>>}
    [] scenario = "overflow"       -> {<<OverflowEvent(n)>>}
    [] scenario = "overload"       -> {<<OverloadEvent(n)>>}
    [] scenario = "tight_deadline" -> TightEvents(n)
    [] OTHER                       -> PairsOf(n, 1000, 10000)

-----------------------------------------------------------------------------
(* generate_workload. *)

\* What it asserts of a row in the end.
Asserted(r) ==
  /\ 0 <= r.time /\ r.time < RunMs
  /\ IF r.action = "STATE"
     THEN 0 <= r.stream /\ r.stream < Config(scenario).n_streams
     ELSE /\ r.action \in {"RAISE", "CLEAR"}
          /\ 1 <= r.code /\ r.code <= 255 /\ 0 <= r.deadline /\ r.deadline <= r.retention

WInit ==
  /\ scenario \in ScenarioNames
  /\ part = "samples" /\ stream = 0 /\ k = 0
  /\ batch = <<>> /\ last = <<>>

Append1(rows, next) ==
  /\ batch' = rows
  /\ part' = IF \A i \in DOMAIN rows : Asserted(rows[i]) THEN next ELSE "failed"

\* One iteration of _periodic_stream.
Sample ==
  /\ part = "samples"
  /\ LET g    == GridTime(stream, k)
         jit  == Grid(scenario, stream).jitter
         more == GridTime(stream, k + 1) < RunMs
     IN  \E d \in Drawn(-jit, jit), v \in Values(stream, k) :
           LET row == StateRow(IF jit > 0 THEN Clamp(g + d) ELSE g, stream, v)
           IN  /\ Append1(IF ~ more /\ stream = 0 /\ scenario = "alarm_outage"
                          THEN <<row>> \o Explicit ELSE <<row>>,
                          IF ~ more /\ stream + 1 = Config(scenario).n_streams
                          THEN "events" ELSE "samples")
               /\ last' = IF k = 0 THEN <<>> ELSE batch
               /\ k' = IF more THEN k + 1 ELSE 0
               /\ stream' = IF more THEN stream ELSE stream + 1
  /\ UNCHANGED scenario

\* One iteration of a loop over events.
Events ==
  /\ part = "events"
  /\ \E rows \in EventsOf(k) :
       Append1(rows, IF k + 1 < Iterations THEN "events" ELSE "trace")
  /\ k' = IF k + 1 < Iterations THEN k + 1 ELSE 0
  /\ last' = <<>>
  /\ UNCHANGED <<scenario, stream>>

-----------------------------------------------------------------------------
(* Who reads a row. *)

\* load_workload, row by row in time order.
Loaded(r) ==
  /\ r.time <= HORIZON
  /\ IF r.action = "STATE" THEN r.stream < MAX_STREAMS ELSE r.code <= 255

\* sim_run's own check, and fl_sender_post_event's.
InsideRun(r) == r.time < RunMs
RelOk(r) == r.action = "STATE" \/ (r.retention <= MAX_REL /\ r.deadline <= r.retention)
=============================================================================
