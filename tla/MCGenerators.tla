---------------------------- MODULE MCGenerators ----------------------------
(***************************************************************************)
(* All eight scenarios with their real numbers.                            *)
(***************************************************************************)
EXTENDS Trace

AllScenarios ==
  {"healthy_light", "alarm_outage", "burst_loss", "ack_loss",
   "reorder", "overflow", "overload", "tight_deadline"}
=============================================================================
