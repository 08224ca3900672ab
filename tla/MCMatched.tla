----------------------------- MODULE MCMatched -----------------------------
(***************************************************************************)
(* The pairs run_matrix.py compares, and its fixtures under every policy.  *)
(***************************************************************************)
EXTENDS Matched

Pol == INSTANCE Policy

Cfg(p, timeout, attempts) ==
  [policy |-> [family |-> p.family, defer |-> p.defer, late_demote |-> p.late_demote,
               starvation_override |-> p.starvation_override, event_service_ms |-> 1,
               slack_guard_ms |-> 0, state_stale_ms |-> 2, state_starvation_ms |-> 2],
   ack_timeout |-> timeout, max_attempts |-> attempts]

EdfRr        == Cfg(Pol!Preset("EDF_RR", FALSE, FALSE, FALSE), 1, 2)
FreshNodefer == Cfg(Pol!Preset("FRESH_NODEFER", FALSE, FALSE, FALSE), 1, 2)
FreshDefer0  == Cfg(Pol!Preset("FRESH", FALSE, FALSE, FALSE), 1, 2)

MatrixPairs   == {<<EdfRr, FreshNodefer>>, <<FreshDefer0, FreshNodefer>>}
AblationPairs == {<<FreshDefer0, FreshNodefer>>}

Lives == {<<3, 4>>}

Event(life) == [action |-> "EVENT", life |-> life]

DefaultConfigs == {Cfg(p, 9, 8) : p \in Pol!Presets}
EagerConfigs   == {Cfg(p, 1, 3) : p \in Pol!Presets}

Fixture(name, cfgs, run, slot, at, row, entry) ==
  [name |-> name, cfgs |-> cfgs, run_ms |-> run, slot_ms |-> slot, at |-> at, row |-> row, entry |-> entry]

EdfDefault == {Cfg(Pol!Preset("EDF_RR", FALSE, FALSE, FALSE), 9, 8)}

LedgerFixtures ==
  {Fixture("F2", EdfDefault, 10, 10, 0, [action |-> "STATE", stream |-> 0], 1),
   Fixture("F3", EdfDefault, 10, 10, 9, Event(<<5, 10>>), 1),
   Fixture("F4", DefaultConfigs, 1, 1, 0, Event(<<5, 10>>), Lost),
   Fixture("F5", EagerConfigs, 3, 1, 0, Event(<<5, 10>>), Lost)}
=============================================================================
