------------------------------ MODULE MCMetrics ------------------------------
(***************************************************************************)
(* Short runs and what is reported of them: frames overtake each other,    *)
(* and retries race late acknowledgements.                                 *)
(***************************************************************************)
EXTENDS Metrics

Policy == [family |-> "FRESH", defer |-> TRUE, late_demote |-> FALSE,
           starvation_override |-> FALSE, event_service_ms |-> 1, slack_guard_ms |-> 0,
           state_stale_ms |-> 2, state_starvation_ms |-> 2]

\* Impatient, an event sent at once runs out of attempts, one sent later out of
\* retention; patient, two events take turns.
RunConfigs ==
  {[policy |-> Policy, ack_timeout |-> 1, max_attempts |-> 3],
   [policy |-> Policy, ack_timeout |-> 2, max_attempts |-> 2]}

OneLifetime == {<<1, 4>>}
=============================================================================
