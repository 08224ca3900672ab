------------------------------ MODULE MCSystem ------------------------------
(***************************************************************************)
(* The system on short runs: the ACK timeout is shorter than the round     *)
(* trip of the slowest frames, so retries race late acknowledgements.      *)
(***************************************************************************)
EXTENDS System

Policy(f, d, so) ==
  [family |-> f, defer |-> d, late_demote |-> FALSE, starvation_override |-> so,
   event_service_ms |-> 1, slack_guard_ms |-> 0, state_stale_ms |-> 2, state_starvation_ms |-> 2]

Candidate == [policy |-> Policy("FRESH", TRUE, FALSE), ack_timeout |-> 2, max_attempts |-> 2]
Baseline  == [policy |-> Policy("EDF_RR", FALSE, FALSE), ack_timeout |-> 2, max_attempts |-> 2]

BothConfigs == {Candidate, Baseline}

OneLifetime  == {<<1, 4>>}

TwoLifetimes == {<<1, 4>>, <<3, 6>>}

\* Retries as fast as the link: one attempt a slot while nothing else is waiting.
Eager       == [policy |-> Policy("EDF_RR", FALSE, FALSE), ack_timeout |-> 1, max_attempts |-> 2]
EagerConfig == {Eager}

\* What DESIGN.md 7.2 says of an event a copy of which was refused as out of
\* window: "the event ends as RETENTION_EXPIRED or RETRY_EXHAUSTED".  Refuted:
\* the copy refused may be a retry whose predecessor was delivered and whose
\* acknowledgement, still under way, then ends the event as ACKED.
RefusedNeverAcked ==
  [][\A id \in DOMAIN ledger :
       ledger[id].rx_oow > 0 /\ outcome[id] = "PENDING" => outcome'[id] # "ACKED"]_vars

\* Slots enough, without losses and without new rows, for the newest snapshot to
\* be sent, to arrive, and for its acknowledgement to come back.
CONSTANT Settle

\* The aim of the protocol: once losses and publications stop, the receiver comes
\* to hold the newest snapshot of every stream and the sender to know it.
Converges ==
  (phase \in {"check", "end"} /\ t >= calm_since + Settle) =>
    \A s \in Snd!Stream :
      snd_streams[s].latest_valid =>
        Held(s) = snd_streams[s].latest_seq /\ snd_streams[s].last_acked_seq = Held(s)
=============================================================================
