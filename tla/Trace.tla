-------------------------------- MODULE Trace --------------------------------
(***************************************************************************)
(* tools/gen_trace.py, one step per slot, after the workload of the same   *)
(* scenario, and what the readers of both files require of them.           *)
(***************************************************************************)
EXTENDS Workload

VARIABLE good   \* the state of the Gilbert-Elliott channel

vars == <<wvars, good>>

DELAY == 20

\* Mutant: the overflow scenario gets the outage of the alarm scenario.
OutageShared(scn, t) ==
  CASE scn \in {"alarm_outage", "overflow"} -> 9000 <= t /\ t < 15000
    [] scn = "tight_deadline"               -> InTightOutage(t)
    [] OTHER                                -> FALSE

\* The slots whose losses are forced, at no cost in draws.
Outage(scn, t) ==
  CASE scn = "alarm_outage"   -> 9000 <= t /\ t < 15000
    [] scn = "overflow"       -> 5000 <= t /\ t < 12000
    [] scn = "tight_deadline" -> InTightOutage(t)
    [] OTHER                  -> FALSE

\* What the generator may draw for the slot at t: every loss has a probability
\* strictly between 0 and 1, except those forced and the alarm's, which has none.
Entries(t) ==
  LET losses == IF Outage(scenario, t) THEN {<<1, 1>>}
                ELSE IF scenario = "alarm_outage" THEN {<<0, 0>>} ELSE {0, 1} \X {0, 1}
      delays == IF scenario = "reorder" THEN {DELAY, 200} ELSE {DELAY}
  IN  {[slot |-> k, data_lost |-> l[1], data_delay |-> dd, ack_lost |-> l[2], ack_delay |-> ad]
         : l \in losses, dd \in delays, ad \in delays}

\* Mutant: the last slot is left out.
NSlotsShort == RunMs \div Config(scenario).slot_ms - 1

NSlots == RunMs \div Config(scenario).slot_ms

TraceRowOk(e) ==
  /\ e.data_lost \in {0, 1} /\ e.ack_lost \in {0, 1}
  /\ e.data_delay >= 1 /\ e.ack_delay >= 1

\* One slot of generate_trace.
TraceSlot ==
  /\ part = "trace"
  /\ \E e \in Entries(k * Config(scenario).slot_ms) :
       /\ batch' = <<e>>
       /\ part' = IF ~ TraceRowOk(e) THEN "failed" ELSE IF k + 1 < NSlots THEN "trace" ELSE "done"
  /\ good' \in (IF scenario = "burst_loss" THEN BOOLEAN ELSE {good})
  /\ k' = k + 1
  /\ UNCHANGED <<scenario, stream, last>>

Init == WInit /\ good = TRUE

Next ==
  \/ Sample /\ UNCHANGED good
  \/ Events /\ UNCHANGED good
  \/ TraceSlot

Spec == Init /\ [][Next]_vars

\* load_trace, with the slots counted from 0, and sim_run, which wants an entry for
\* every slot of the run, the last one incomplete or not.
TraceLoaded(e) == e.slot = k - 1 /\ e.data_delay <= MAX_REL /\ e.ack_delay <= MAX_REL

SlotsNeeded == (RunMs + Config(scenario).slot_ms - 1) \div Config(scenario).slot_ms

-----------------------------------------------------------------------------
(* Properties. *)

IsTrace == batch # <<>> /\ "slot" \in DOMAIN batch[1]
NewRows == IF IsTrace THEN {} ELSE {batch[i] : i \in DOMAIN batch}
NewEvents == {r \in NewRows : r.action # "STATE"}

\* Four readers agree on every row whatever is drawn: the generators' own assertions,
\* the loaders, sim_run and the sender's argument check (gen_workload.py:340-350,
\* gen_trace.py:163-164, csvio.c:117-141, 193-202, sim.c:143-165); the trace is as
\* long as the run needs; and jitter never makes a sample overtake an earlier one of
\* its stream in the sorted file, nor a CLEAR its RAISE.
RowsAccepted ==
  /\ part # "failed"
  /\ \A r \in NewRows : Loaded(r) /\ InsideRun(r) /\ RelOk(r)
  /\ IsTrace => TraceLoaded(batch[1])
  /\ part = "done" => k >= SlotsNeeded
  /\ last # <<>> => last[1].time <= batch[1].time
  /\ NewEvents # {} /\ Len(batch) = 2 => batch[1].time < batch[2].time

\* The end of the outage that covers t.
OutageEnd(t) ==
  CASE scenario = "alarm_outage" -> 15000
    [] scenario = "overflow"     -> 12000
    [] OTHER -> CHOOSE e \in {s + TIGHT_LEN : s \in TightStarts} : t < e /\ e - t <= TIGHT_LEN

\* Whether the slot of event e may be free again at t: it expired, it had time for
\* all its attempts, or one of them had a chance to arrive.
MayBeFree(e, t) ==
  \/ t >= e.time + e.retention
  \/ t >= e.time + Config(scenario).max_attempts * Config(scenario).ack_timeout_ms
  \/ \E slot \in (e.time \div 10) .. (t \div 10) : ~ Outage(scenario, 10 * slot)

\* The two generators keep the appointments the scenarios are about, though each
\* computes its times on its own.  An event raised in an outage lasts beyond it, for
\* its retention and for its attempts (gen_workload.py:93-94).  Events 9 to 20 of
\* overflow find the table full of the first eight, none of which can have left it
\* (gen_workload.py:255-260).  tight_deadline raises nothing inside an outage, and the
\* trace loses both directions of exactly the outages the workload lists by their
\* starts.  The alarm's stream has one sample at the RAISE, the first that is 1, and
\* one at the CLEAR, the first that is 0 again (gen_workload.py:210-216).
AppointmentsKept ==
  /\ \A r \in NewEvents : Outage(scenario, r.time) =>
       /\ scenario # "tight_deadline"
       /\ r.time + r.retention > OutageEnd(r.time) + 2 * DELAY
       /\ r.time + Config(scenario).max_attempts * Config(scenario).ack_timeout_ms > OutageEnd(r.time)
  /\ \A r \in NewEvents :
       scenario = "overflow" /\ r.action = "RAISE" /\ r.code > EVENT_CAPACITY =>
         Cardinality({n \in 0 .. r.code - 2 : ~ MayBeFree(OverflowEvent(n), r.time)}) >= EVENT_CAPACITY
  /\ IsTrace /\ scenario = "tight_deadline" =>
       LET t == 10 * batch[1].slot
       IN  IF \E s \in TightStarts : s <= t /\ t < s + TIGHT_LEN
           THEN batch[1].data_lost = 1 /\ batch[1].ack_lost = 1
           ELSE ~ Outage(scenario, t)
  /\ \A r \in NewEvents : scenario = "alarm_outage" =>
       LET level == IF r.action = "RAISE" THEN 1 ELSE 0
           at    == {n \in 0 .. RunMs \div 1000 : GridTime(0, n) = r.time}
       IN  /\ Cardinality(at) + Cardinality({i \in DOMAIN Explicit : Explicit[i].time = r.time}) = 1
           /\ \A n \in at : AlarmValue(r.time) = level /\ AlarmValue(GridTime(0, n - 1)) # level
=============================================================================
