------------------------------- MODULE Matched -------------------------------
(***************************************************************************)
(* Two runs on the same inputs, as tools/run_matrix.py makes and compares  *)
(* them: the same workload and, slot by slot, the same entry of the trace, *)
(* under two configurations.  The runs go through the phases of each       *)
(* millisecond together; what a slot carries, and so what its entry does,  *)
(* may differ.  Before them come the fixtures of ledger_preflight, single  *)
(* runs with fixed inputs.                                                 *)
(***************************************************************************)
EXTENDS System

CONSTANTS
  Pairs,      \* the configurations compared, <<first, second>>
  Ablations,  \* those pairs that may differ in nothing at all
  Fixtures,   \* fixed runs: [name, cfgs, run_ms, slot_ms, at, row, entry]
  AckEntries, \* bound on the entries for ACK frames
  LastRow     \* bound on the times of rows in a matched pair

VARIABLES
  plan,       \* what is run: "pair" or the name of a fixture
  b_cfg, b_snd_now, b_rr_next, b_snd_streams, b_events, b_snd_stats, b_outcome, b_sent,
  b_rcv_now, b_rcv_streams, b_highest_id, b_dedup_bits, b_ack_ring,
  b_ack_state_pending, b_ack_rr_next, b_rcv_stats, b_delivered,
  b_data_link, b_ack_link, b_count, b_ledger, b_calm_since

bVars ==
  <<b_cfg, b_snd_now, b_rr_next, b_snd_streams, b_events, b_snd_stats, b_outcome, b_sent,
    b_rcv_now, b_rcv_streams, b_highest_id, b_dedup_bits, b_ack_ring,
    b_ack_state_pending, b_ack_rr_next, b_rcv_stats, b_delivered,
    b_data_link, b_ack_link, b_count, b_ledger, b_calm_since>>

\* The second run; t, phase and rows are common to both.
B == INSTANCE System WITH
       cfg <- b_cfg, snd_now <- b_snd_now, rr_next <- b_rr_next, snd_streams <- b_snd_streams,
       events <- b_events, snd_stats <- b_snd_stats, outcome <- b_outcome, sent <- b_sent,
       rcv_now <- b_rcv_now, rcv_streams <- b_rcv_streams, highest_id <- b_highest_id,
       dedup_bits <- b_dedup_bits, ack_ring <- b_ack_ring,
       ack_state_pending <- b_ack_state_pending, ack_rr_next <- b_ack_rr_next,
       rcv_stats <- b_rcv_stats, delivered <- b_delivered, data_link <- b_data_link,
       ack_link <- b_ack_link, count <- b_count, ledger <- b_ledger, calm_since <- b_calm_since

AllConfigs == UNION {{p[1], p[2]} : p \in Pairs} \cup UNION {f.cfgs : f \in Fixtures}

MatchedInit ==
  /\ Init /\ B!Init
  /\ \/ plan = "pair" /\ <<cfg, b_cfg>> \in Pairs
     \/ \E f \in Fixtures : plan = f.name /\ cfg \in f.cfgs /\ b_cfg = cfg

-----------------------------------------------------------------------------
(* A matched pair of runs. *)

PairForward == \E e \in Entries : ForwardOn(e) /\ B!ForwardOn(e)
PairReverse == \E e \in AckEntries : ReverseOn(e) /\ B!ReverseOn(e)

\* Frames arrive in either run; they leave the phase together.
PairStep ==
  \/ t <= LastRow /\ \E row \in StateRows \cup EventRows : TakeRow(row) /\ B!TakeRow(row)
  \/ WorkloadDone /\ B!WorkloadDone
  \/ DataArrival /\ UNCHANGED bVars
  \/ B!DataArrival /\ ~ Due(data_link) /\ UNCHANGED <<sndVars, rcvVars, data_link, ack_link, count, ledger, calm_since>>
  \/ DataDone /\ B!DataDone
  \/ AckArrival /\ UNCHANGED bVars
  \/ B!AckArrival /\ ~ Due(ack_link) /\ UNCHANGED <<sndVars, rcvVars, data_link, ack_link, count, ledger, calm_since>>
  \/ AckDone /\ B!AckDone
  \/ PairForward
  \/ PairReverse
  \/ EndOfMs /\ B!EndOfMs

-----------------------------------------------------------------------------
(* ledger_preflight: one row at a given time, the same entry in every slot. *)

FixtureStep(f) ==
  LET S == INSTANCE System WITH RUN_MS <- f.run_ms, SLOT_MS <- f.slot_ms, MaxRows <- 1
  IN  \/ t = f.at /\ S!TakeRow(f.row)
      \/ (t # f.at \/ rows = 1) /\ S!WorkloadDone
      \/ S!DataArrival \/ S!DataDone \/ S!AckArrival \/ S!AckDone
      \/ S!ForwardOn(f.entry) \/ S!ReverseOn(1)
      \/ S!EndOfMs

MatchedNext ==
  /\ \/ plan = "pair" /\ PairStep
     \/ \E f \in Fixtures : plan = f.name /\ FixtureStep(f) /\ UNCHANGED bVars
  /\ UNCHANGED plan

MatchedVars == <<vars, bVars, plan>>

MatchedSpec == MatchedInit /\ [][MatchedNext]_MatchedVars /\ WF_MatchedVars(MatchedNext)

-----------------------------------------------------------------------------
(* What the tool compares. *)

\* compare_event_slots, on the slot about to be used.
SameEventSlot ==
  LET a == Snd!StepView(t).events
      b == B!Snd!StepView(t).events
  IN  /\ Cardinality(a) = Cardinality(b)
      /\ a # {} => Snd!Choices(t) = B!Snd!Choices(t)

\* compare_bytes and compare_summaries: everything but the names.
SameRun ==
  <<snd_now, rr_next, snd_streams, events, snd_stats, outcome, sent, rcvVars,
    data_link, ack_link, count, ledger>>
  = <<b_snd_now, b_rr_next, b_snd_streams, b_events, b_snd_stats, b_outcome, b_sent,
      <<b_rcv_now, b_rcv_streams, b_highest_id, b_dedup_bits, b_ack_ring,
        b_ack_state_pending, b_ack_rr_next, b_rcv_stats, b_delivered>>,
      b_data_link, b_ack_link, b_count, b_ledger>>

Pending == Cardinality({id \in DOMAIN outcome : outcome[id] = "PENDING"})

AccountingIdentity ==
  snd_stats["events_generated"] =
    snd_stats["events_rejected_full"] + snd_stats["events_acked"]
      + snd_stats["events_retry_exhausted"] + snd_stats["events_retention_expired"] + Pending

\* What fixture f expects of a run, as the tool spells it out.
Expected(name) ==
  CASE name = "F2" -> [generated |-> 0, pending |-> 0, event_tx |-> 0, data_frames |-> 1, first_tx |-> <<>>]
    [] name = "F3" -> [generated |-> 1, pending |-> 1, event_tx |-> 0, data_frames |-> 0, first_tx |-> <<TIME_NONE>>]
    [] name = "F4" -> [generated |-> 1, pending |-> 1, event_tx |-> 1, data_frames |-> 1, first_tx |-> <<0>>]
    [] name = "F5" -> [generated |-> 1, pending |-> 1, event_tx |-> 3, data_frames |-> 3, first_tx |-> <<0>>]

\* What is read off the ledger and the counters for it.
Seen ==
  [generated |-> Len(ledger), pending |-> Pending,
   event_tx |-> SumFunction([id \in DOMAIN ledger |-> ledger[id].attempts]),
   data_frames |-> count["data_frames"],
   first_tx |-> [id \in DOMAIN ledger |-> ledger[id].first_tx]]

-----------------------------------------------------------------------------
(* Properties. *)

\* The state ranking never reaches the events (run_matrix.py:495-503): on matched
\* inputs the two policies have the same number of eligible events in every slot and,
\* when there is one, make the same decision, although their state frames, the state
\* acknowledgements and so what a lost entry hits differ from slot to slot.
EventSlotsAgree == plan = "pair" /\ phase = "forward" => SameEventSlot

\* The candidate without its permission to defer is fresh_nodefer (run_matrix.py:546):
\* the whole runs agree after every phase, frames under way included.
AblationIdentical ==
  plan = "pair" /\ <<cfg, b_cfg>> \in Ablations /\ phase \notin {"data", "ack"} => SameRun

\* The fixtures come out as ledger_preflight expects under every policy: attempts cut
\* off by the end of the run are counted, an event after the last slot is pending and
\* never sent, a run without events has no record; and the accounting identity holds
\* in every run however it is cut off.
FixturesHold ==
  /\ AccountingIdentity
  /\ plan # "pair" /\ phase = "end" =>
       /\ Seen = Expected(plan)
       /\ snd_stats["event_tx"] = Seen.event_tx
       /\ snd_stats["event_first_tx"] = Cardinality({id \in DOMAIN ledger : ledger[id].first_tx # TIME_NONE})
       /\ snd_stats["events_retry_exhausted"] = 0 /\ rcv_stats["ev_delivered"] = 0
       /\ plan # "F2" => count["ack_frames"] = 0
  /\ plan \in {"F4", "F5"} /\ phase = "forward" =>
       \A c \in Snd!Choices(t) :
         c.kind = "EVENT" /\ c.reason = IF cfg.policy.family = "FIFO" THEN "FIFO_OLDEST" ELSE "EVENT_EDF"
=============================================================================
