------------------------------- MODULE Metrics -------------------------------
(***************************************************************************)
(* What sim_run reports of a run: the AoI accumulators, the counts per     *)
(* stream, the times in the event ledger, and the summary made of them     *)
(* when the loop has ended.  The metrics watch the steps of System and     *)
(* change nothing of it.                                                   *)
(***************************************************************************)
EXTENDS System, FiniteSetsExt

CONSTANT AoiThreshold    \* cfg->aoi_threshold_ms

\* It is an unsigned number of milliseconds.
ASSUME ThresholdAssumption == AoiThreshold \in Nat

VARIABLES
  aoi,       \* out->aoi
  sc,        \* out->sc: published, sent, applied, stale_dropped per stream
  times,     \* out->events: gen_time and terminal_time per id
  rxlog,     \* the snapshots applied per stream, as in out->rxlog: <<t, gen_time>>
  summary    \* the totals computed at the end

metricVars == <<aoi, sc, times, rxlog, summary>>
allVars    == <<vars, metricVars>>

A == INSTANCE Aoi WITH Threshold <- AoiThreshold

NoSummary == [reported |-> FALSE]

MetricsInit ==
  /\ Init
  /\ aoi = [s \in Snd!Stream |-> A!AoiInit]
  /\ sc = [s \in Snd!Stream |-> [published |-> 0, sent |-> 0, applied |-> 0, stale_dropped |-> 0]]
  /\ times = <<>>
  /\ rxlog = [s \in Snd!Stream |-> <<>>]
  /\ summary = NoSummary

-----------------------------------------------------------------------------
(* What a step of System did to stream s. *)

Published(s) == snd_streams'[s].latest_seq # snd_streams[s].latest_seq

\* A STATE decision for s, first or again.
Sent(s) == snd_streams'[s].last_tx # snd_streams[s].last_tx

Applied(s) == rcv_streams'[s] # rcv_streams[s]

Stale(s) ==
  /\ \E m \in data_link \ data_link' : m.frame.type = "STATE" /\ m.frame.stream = s
  /\ ~ Applied(s)

One(b) == IF b THEN 1 ELSE 0

TimesAfter ==
  [id \in 1 .. Len(outcome') |->
     IF id > Len(outcome)
     THEN [gen |-> t, terminal |-> IF outcome'[id] = "PENDING" THEN TIME_NONE ELSE t]
     ELSE [times[id] EXCEPT !.terminal = IF outcome'[id] # outcome[id] THEN t ELSE @]]

\* A step of the run, and what the metrics make of it.
Observed ==
  /\ Next
  /\ aoi' = [s \in Snd!Stream |->
       IF Applied(s) THEN A!AoiApply(aoi[s], t, rcv_streams'[s].gen) ELSE aoi[s]]
  /\ rxlog' = [s \in Snd!Stream |->
       IF Applied(s) THEN Append(rxlog[s], <<t, rcv_streams'[s].gen>>) ELSE rxlog[s]]
  /\ sc' = [s \in Snd!Stream |->
       [published     |-> sc[s].published     + One(Published(s)),
        sent          |-> sc[s].sent          + One(Sent(s)),
        applied       |-> sc[s].applied       + One(Applied(s)),
        stale_dropped |-> sc[s].stale_dropped + One(Stale(s))]]
  /\ times' = TimesAfter
  /\ UNCHANGED summary

-----------------------------------------------------------------------------
(* The end of the run. *)

Received == {id \in DOMAIN ledger : ledger[id].rx_first # TIME_NONE}
Acked    == {id \in DOMAIN outcome : outcome[id] = "ACKED"}

Latency(id)      == ledger[id].rx_first - times[id].gen
Confirmation(id) == times[id].terminal - times[id].gen

\* Mutant: an event that ended otherwise is not looked at.
UnackedPending == {id \in Received : outcome[id] = "PENDING"}

\* Delivered, and not known to be.
Unacked == Received \ Acked

Largest(values) == Max(values \cup {0})

Totals ==
  [reported |-> TRUE,
   ev_pending_end        |-> Cardinality({id \in DOMAIN outcome : outcome[id] = "PENDING"}),
   delivered_but_unacked |-> Cardinality(Unacked),
   lat_n    |-> Cardinality(Received),
   lat_sum  |-> SumFunction([id \in Received |-> Latency(id)]),
   lat_max  |-> Largest({Latency(id) : id \in Received}),
   conf_n   |-> Cardinality(Acked),
   conf_sum |-> SumFunction([id \in Acked |-> Confirmation(id)]),
   conf_max |-> Largest({Confirmation(id) : id \in Acked})]

CloseMetrics ==
  /\ phase = "end" /\ ~ summary.reported
  /\ aoi' = [s \in Snd!Stream |-> A!AoiFinish(aoi[s], RUN_MS)]
  /\ summary' = Totals
  /\ UNCHANGED <<vars, sc, times, rxlog>>

MetricsNext == Observed \/ CloseMetrics

MetricsSpec == MetricsInit /\ [][MetricsNext]_allVars /\ WF_allVars(MetricsNext)

-----------------------------------------------------------------------------
(* Properties. *)

\* What a receive log gives, millisecond by millisecond, up to the time end: the
\* milliseconds in which a snapshot was held, the age in the one from x to x + 1, twice
\* the area, the time over the threshold, and the ages at the end of a millisecond or
\* just before a snapshot.
Known(log, end) == IF log = <<>> THEN {} ELSE log[1][1] .. end - 1

Age(log, x) == x - log[Max({i \in DOMAIN log : log[i][1] <= x})][2]

Area2(log, end)  == SumFunction([x \in Known(log, end) |-> 2 * Age(log, x) + 1])
OverMs(log, end) == Cardinality({x \in Known(log, end) : Age(log, x) >= AoiThreshold})
Peaks(log, end)  == {Age(log, x) + 1 : x \in Known(log, end)}
                      \cup {log[i + 1][1] - log[i][2] : i \in 1 .. Len(log) - 1}

\* The accumulator is exact: its area, time over the threshold, peak, unknown time
\* and final age are those the receive log gives millisecond by millisecond
\* (DESIGN.md 8.6), the peak taking in the age just before each snapshot.
AoiExact ==
  summary.reported =>
    \A s \in Snd!Stream :
      LET log == rxlog[s]
      IN  /\ aoi[s].area2 = Area2(log, RUN_MS)
          /\ aoi[s].over_ms = OverMs(log, RUN_MS)
          /\ aoi[s].peak = Largest(Peaks(log, RUN_MS))
          /\ aoi[s].unknown_ms = RUN_MS - Cardinality(Known(log, RUN_MS))
          /\ log # <<>> => aoi[s].final_age = Age(log, RUN_MS)

\* The counts of a stream and the reported totals agree with both cores: no snapshot
\* is applied that was not sent, nor twice; an event is confirmed only after it was
\* delivered, later than it was, and the delivered are the confirmed and the
\* unconfirmed.
SummaryReconciles ==
  /\ \A s \in Snd!Stream :
       /\ sc[s].published = snd_streams[s].latest_seq
       /\ sc[s].applied <= Cardinality({q \in 1 .. sc[s].published : <<s, q>> \in sent})
       /\ sc[s].applied + sc[s].stale_dropped <= sc[s].sent
       /\ sc[s].applied > 0 <=> Held(s) > 0
  /\ SumFunction([s \in Snd!Stream |-> sc[s].sent]) = snd_stats["state_tx"]
  /\ summary.reported =>
    /\ summary.lat_n = rcv_stats["ev_delivered"]
    /\ summary.conf_n = snd_stats["events_acked"]
    /\ summary.lat_n = summary.conf_n + summary.delivered_but_unacked
    /\ summary.ev_pending_end = Cardinality(Snd!UsedSlots)
    /\ summary.conf_sum >= SumFunction([id \in Acked |-> Latency(id)]) + summary.conf_n
    /\ summary.conf_max <= RUN_MS - 1 /\ summary.lat_max <= RUN_MS - 1
=============================================================================
