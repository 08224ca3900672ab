------------------------------ MODULE MCSender ------------------------------
(***************************************************************************)
(* Sender, bounded for TLC: SEQ_MAX and ID_MAX are small, so the exhausted *)
(* counters are reached.  The acknowledgements are any at all, not only    *)
(* those an honest receiver would send.  The bounds depend on the policy:  *)
(* under FRESH many events, one snapshot and one ACK of an event, under    *)
(* EDF_RR many snapshots, one short event and two ACKs of any kind.        *)
(***************************************************************************)
EXTENDS Sender

Timing(p, timeout, attempts) ==
  [policy |-> [family |-> p.family, defer |-> p.defer, late_demote |-> p.late_demote,
               starvation_override |-> p.starvation_override, event_service_ms |-> 1,
               slack_guard_ms |-> 0, state_stale_ms |-> 2, state_starvation_ms |-> 2],
   ack_timeout |-> timeout, max_attempts |-> attempts]

MCConfigs ==
  {Timing(Preset("EDF_RR", FALSE, TRUE, FALSE), 1, 2)}
    \cup {Timing(Preset("FRESH", TRUE, FALSE, TRUE), 1, 2)}

EventAcks(ids) == {[type |-> "ACK_EVENT", id |-> i, flags |-> "NONE"] : i \in ids}
StateAcks(ss, qs, gs) == [type : {"ACK_STATE"}, stream : ss, seq : qs, gen : gs]
Garbage == {[type |-> "BAD", err |-> e] : e \in {"SESSION", "MAGIC"}}
             \cup {[type |-> "STATE", stream |-> 0, seq |-> 1, gen |-> 0]}

\* Deadline 0 and retention beyond it; long-lived; refused, the deadline being later.
MCLifetimes == {<<0, 1>>, <<1, 3>>, <<2, 1>>}

EventRunAcks == EventAcks(0 .. 4)
StateRunAcks == StateAcks({0}, 0 .. 3, 0 .. 2) \cup EventAcks({1}) \cup Garbage
                  \cup StateAcks({7}, {1}, {0})
MCAcks == EventRunAcks \cup StateRunAcks

AcksSeen == stats["acks_ok"] + stats["acks_unmatched"] + stats["acks_impossible"]
              + stats["acks_rejected_frame"] + stats["acks_session_mismatch"]

AcksLeft ==
  IF cfg.policy.family = "FRESH"
  THEN {f \in EventRunAcks : AcksSeen < 1}
  ELSE {f \in StateRunAcks : AcksSeen < 2}

InBounds ==
  IF cfg.policy.family = "FRESH"
  THEN stats["state_published"] <= 1
  ELSE /\ last_now \in {0, 1, 2, TIME_NONE}
       /\ stats["events_generated"] <= 1
       /\ \A i \in Slot : events[i].used => events[i].retention = events[i].gen + 1

BoundedNext ==
  /\ \E now \in Times : Calls(now) \/ \E f \in AcksLeft : IngestAck(now, f)
  /\ InBounds'
MCSpec == Init /\ [][BoundedNext]_vars
=============================================================================
