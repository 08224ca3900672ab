---------------------------- MODULE MCScheduler ----------------------------
(***************************************************************************)
(* Views for TLC: now = 5, up to three events with ids in order of         *)
(* generation, up to two streams, every preset.  With a service time of 2  *)
(* and a guard of 1, deadline 3 is late, 5 is due and urgent, 9 is urgent  *)
(* behind another event only, and 12 never is.                             *)
(***************************************************************************)
EXTENDS Scheduler

Now == 5

\* An absent item is {}; a present one is a singleton.
Maybe(S) == {{}} \cup {{x} : x \in S}

Event(id, deadlines, gen) == Maybe([id : {id}, deadline : deadlines, gen : {gen}])

EventSets ==
  {a \cup b \cup c : a \in Event(1, {3, 5, 9}, 1), b \in Event(2, {3, 5, 9}, 2), c \in Event(3, {9, 12}, 2)}

\* Never transmitted, just transmitted, starved; never acknowledged, fresh, stale.
Stream(s, gens) ==
  Maybe([stream : {s}, latest_gen : gens, last_tx : {TIME_NONE, 1, 4}, acked_gen : {TIME_NONE, 0, 3}])

StreamSets == {a \cup b : a \in Stream(0, {2}), b \in Stream(1, {1, 4})}

Params ==
  {[family |-> p.family, defer |-> p.defer, late_demote |-> p.late_demote,
    starvation_override |-> p.starvation_override, event_service_ms |-> 2,
    slack_guard_ms |-> 1, state_stale_ms |-> 4, state_starvation_ms |-> 3] : p \in Presets}

\* Only edf_rr looks at the cursor.
Cursor(p) == IF p.family = "EDF_RR" THEN {0, 1} ELSE {0}

MCViews ==
  UNION {[now : {Now}, params : {p}, rr_next : Cursor(p), n_streams_total : {2},
          events : EventSets, streams : StreamSets] : p \in Params}
=============================================================================
