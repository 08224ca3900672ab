------------------------------- MODULE Policy -------------------------------
(***************************************************************************)
(* The scheduling policies, core/fl_policy.c: which eligible event or      *)
(* state stream the next transmit opportunity is given to.  Pure operators *)
(* over the view v the sender builds (fl_sched_view_t):                    *)
(*   v.now, v.params, v.rr_next, v.n_streams_total,                        *)
(*   v.events   set of [id, deadline, gen]                                 *)
(*   v.streams  set of [stream, latest_gen, last_tx, acked_gen]            *)
(* Every ranking is stated as the set of its winners; ties are broken the  *)
(* way the code's loops do, so the set is a singleton unless it ranks      *)
(* nothing, and Select(v) is the set that holds the one choice.            *)
(***************************************************************************)
EXTENDS Integers, FiniteSets

CONSTANT TIME_NONE      \* FL_TIME_NONE = UINT32_MAX: "no such time"

ASSUME TimeNoneAssumption == TIME_NONE \in Nat

\* fl_pol_family and the option bits of a preset (fl_policy_params_t).
Family == {"EDF_RR", "FRESH_NODEFER", "FRESH", "FIFO"}

Preset(f, d, ld, so) ==
  [family |-> f, defer |-> d, late_demote |-> ld, starvation_override |-> so]

\* fl_policy_family_from_name: the nine names a configuration may use.
Presets ==
  { Preset("EDF_RR", FALSE, FALSE, FALSE),        \* edf_rr
    Preset("EDF_RR", FALSE, TRUE, FALSE),         \* edf_rr_ld
    Preset("FRESH_NODEFER", FALSE, FALSE, FALSE), \* fresh_nodefer
    Preset("FRESH_NODEFER", FALSE, TRUE, FALSE),  \* fresh_nodefer_ld
    Preset("FRESH", TRUE, FALSE, FALSE),          \* fresh
    Preset("FRESH", TRUE, TRUE, FALSE),           \* fresh_ld
    Preset("FRESH", TRUE, FALSE, TRUE),           \* fresh_so
    Preset("FIFO", FALSE, FALSE, FALSE),          \* fifo
    Preset("FIFO", FALSE, TRUE, FALSE) }          \* fifo_ld

\* The view handed to fl_policy_select: what fl_sender_build_view puts in it.
ViewOK(v) ==
  /\ v.now \in Nat /\ v.now < TIME_NONE
  /\ v.params.family \in Family
  /\ v.params.defer \in BOOLEAN /\ v.params.late_demote \in BOOLEAN
  /\ v.params.starvation_override \in BOOLEAN
  /\ v.params.event_service_ms \in Nat /\ v.params.slack_guard_ms \in Nat
  /\ v.params.state_stale_ms \in Nat /\ v.params.state_starvation_ms \in Nat
  /\ v.n_streams_total \in Nat \ {0} /\ v.rr_next \in 0 .. v.n_streams_total - 1
  /\ v.events \subseteq [id : Nat, deadline : Nat, gen : Nat]
  /\ \A a, b \in v.events : a.id = b.id => a = b
  /\ v.streams \subseteq [stream : 0 .. v.n_streams_total - 1, latest_gen : Nat,
                          last_tx : 0 .. v.now \cup {TIME_NONE},
                          acked_gen : 0 .. v.now \cup {TIME_NONE}]
  /\ \A a, b \in v.streams : a.stream = b.stream => a = b

-----------------------------------------------------------------------------
(* Shared definitions (DESIGN.md 9.0). *)

\* Unsigned 32-bit subtraction; TIME_NONE is the largest value of the type.
Elapsed(now, t) == (now - t) % (TIME_NONE + 1)

Late(v, e) == e.deadline < v.now

Remaining(v, e) == IF e.deadline > v.now THEN e.deadline - v.now ELSE 0

\* Infinite (TIME_NONE) for a stream never acknowledged, or never transmitted.
EstAoi(v, s)  == IF s.acked_gen = TIME_NONE THEN TIME_NONE ELSE Elapsed(v.now, s.acked_gen)
SinceTx(v, s) == IF s.last_tx = TIME_NONE THEN TIME_NONE ELSE Elapsed(v.now, s.last_tx)

\* Mutant: events in order of generation, whatever their deadlines.
BeforeById(a, b) == a.id < b.id

\* The order the sender lists events in: by deadline, then by id.
Before(a, b) == a.deadline < b.deadline \/ (a.deadline = b.deadline /\ a.id < b.id)

EdfFirst(E) == {e \in E : \A o \in E \ {e} : Before(e, o)}

\* Position of e in E, counted from 0.
EdfRank(E, e) == Cardinality({o \in E : Before(o, e)})

\* Mutant: a tie between streams is left open.
PickFreshOpen(v) == {s \in v.streams : \A o \in v.streams : EstAoi(v, s) >= EstAoi(v, o)}

\* Largest estimate, lowest stream on a tie.
PickFresh(v) ==
  {s \in v.streams : \A o \in v.streams \ {s} :
     \/ EstAoi(v, s) > EstAoi(v, o)
     \/ EstAoi(v, s) = EstAoi(v, o) /\ s.stream < o.stream}

\* First eligible stream at or after the round-robin cursor.
FromCursor(v, s) == (s.stream - v.rr_next + v.n_streams_total) % v.n_streams_total

PickRr(v) == {s \in v.streams : \A o \in v.streams : FromCursor(v, s) <= FromCursor(v, o)}

Starved(v, s) ==
  SinceTx(v, s) = TIME_NONE \/ SinceTx(v, s) >= v.params.state_starvation_ms

\* Mutant: the guard is triggered by one stream and served to the stalest.
PickStarvedByAoi(v) == {s \in PickFresh(v) : \E o \in v.streams : Starved(v, o)}

\* Among the starved, the longest without a transmission; lowest stream on a tie.
PickStarved(v) ==
  LET starved == {s \in v.streams : Starved(v, s)}
  IN  {s \in starved : \A o \in starved \ {s} :
         \/ SinceTx(v, s) > SinceTx(v, o)
         \/ SinceTx(v, s) = SinceTx(v, o) /\ s.stream < o.stream}

AnyStale(v) ==
  \E s \in v.streams :
    EstAoi(v, s) = TIME_NONE \/ EstAoi(v, s) >= v.params.state_stale_ms

\* Less time left than serving the event in its turn is declared to take.
Urgent(v, E, e) ==
  Remaining(v, e) <= (EdfRank(E, e) + 1) * v.params.event_service_ms + v.params.slack_guard_ms

AnyUrgent(v, E) == \E e \in E : Urgent(v, E, e)

-----------------------------------------------------------------------------
(* Choices. *)

Idle == [kind |-> "NONE", reason |-> "IDLE"]

EventChoice(v, e, reason) ==
  [kind |-> "EVENT", id |-> e.id, reason |-> IF Late(v, e) THEN "EVENT_LATE" ELSE reason]

StateChoice(s, reason) == [kind |-> "STATE", stream |-> s.stream, reason |-> reason]

\* split_events: demoted events are those past their deadline, if the option is on.
Demoted(v)   == {e \in v.events : v.params.late_demote /\ Late(v, e)}
Undemoted(v) == v.events \ Demoted(v)

ServeEvent(v, reason) == {EventChoice(v, e, reason) : e \in EdfFirst(Undemoted(v))}
ServeStream(S, reason) == {StateChoice(s, reason) : s \in S}

\* Mutant: demoted events still go before the streams.
SelectEdfRrLateFirst(v) ==
  IF Undemoted(v) # {} THEN ServeEvent(v, "EVENT_EDF")
  ELSE IF Demoted(v) # {} THEN {EventChoice(v, e, "EVENT_EDF") : e \in EdfFirst(Demoted(v))}
  ELSE ServeStream(PickRr(v), "STATE_RR")

SelectEdfRr(v) ==
  IF Undemoted(v) # {} THEN ServeEvent(v, "EVENT_EDF")
  ELSE ServeStream(PickRr(v), "STATE_RR")

\* Mutant: a stream never sent goes before the events.
SelectNodeferStarved(v) ==
  IF PickStarved(v) # {} THEN ServeStream(PickStarved(v), "STATE_FRESH")
  ELSE IF Undemoted(v) # {} THEN ServeEvent(v, "EVENT_EDF")
  ELSE ServeStream(PickFresh(v), "STATE_FRESH")

SelectFreshNodefer(v) ==
  IF Undemoted(v) # {} THEN ServeEvent(v, "EVENT_EDF")
  ELSE ServeStream(PickFresh(v), "STATE_FRESH")

\* Mutant: staleness is looked at before urgency.
DeferStaleFirst(v) ==
  IF AnyStale(v) THEN ServeStream(PickFresh(v), "STATE_STALE")
  ELSE IF AnyUrgent(v, Undemoted(v)) THEN ServeEvent(v, "EVENT_URGENT")
  ELSE ServeEvent(v, "EVENT_SLACK_OK")

\* The candidate's decision when it may defer and both kinds are waiting; the
\* override swaps the order of the first two guards.
Defer(v) ==
  LET urgent  == AnyUrgent(v, Undemoted(v))
      starved == PickStarved(v) # {}
  IN  IF starved /\ (v.params.starvation_override \/ ~ urgent)
      THEN ServeStream(PickStarved(v), "STATE_STARVATION")
      ELSE IF urgent THEN ServeEvent(v, "EVENT_URGENT")
      ELSE IF AnyStale(v) THEN ServeStream(PickFresh(v), "STATE_STALE")
      ELSE ServeEvent(v, "EVENT_SLACK_OK")

\* Mutant: the permission to defer is not consulted.
SelectFreshAlwaysDefers(v) ==
  IF Undemoted(v) # {} /\ v.streams # {} THEN Defer(v)
  ELSE IF Undemoted(v) # {} THEN ServeEvent(v, "EVENT_EDF")
  ELSE ServeStream(PickFresh(v), "STATE_FRESH")

SelectFresh(v) ==
  IF Undemoted(v) # {} /\ v.streams # {} /\ v.params.defer THEN Defer(v)
  ELSE IF Undemoted(v) # {} THEN ServeEvent(v, "EVENT_EDF")
  ELSE ServeStream(PickFresh(v), "STATE_FRESH")

\* One key across kinds: generation time; the event wins a tie.
FifoEvent(v) ==
  {e \in Undemoted(v) : \A o \in Undemoted(v) \ {e} :
     e.gen < o.gen \/ (e.gen = o.gen /\ e.id < o.id)}
FifoStream(v) ==
  {s \in v.streams : \A o \in v.streams \ {s} :
     s.latest_gen < o.latest_gen \/ (s.latest_gen = o.latest_gen /\ s.stream < o.stream)}

SelectFifo(v) ==
  LET due == {e \in FifoEvent(v) : \A s \in FifoStream(v) : e.gen <= s.latest_gen}
  IN  IF due # {} THEN {EventChoice(v, e, "FIFO_OLDEST") : e \in due}
      ELSE ServeStream(FifoStream(v), "FIFO_OLDEST")

ByFamily(v) ==
  CASE v.params.family = "EDF_RR"        -> SelectEdfRr(v)
    [] v.params.family = "FRESH_NODEFER" -> SelectFreshNodefer(v)
    [] v.params.family = "FRESH"         -> SelectFresh(v)
    [] v.params.family = "FIFO"          -> SelectFifo(v)

\* Mutant: demoted events are never served.
SelectNoFallback(v) == IF ByFamily(v) # {} THEN ByFamily(v) ELSE {Idle}

\* fl_policy_select: a family that would idle serves the demoted events.
Select(v) ==
  IF ByFamily(v) # {} THEN ByFamily(v)
  ELSE IF Demoted(v) # {}
  THEN {[kind |-> "EVENT", id |-> e.id, reason |-> "EVENT_LATE_DEMOTED"] : e \in EdfFirst(Demoted(v))}
  ELSE {Idle}

\* Mutant: the cursor runs past the last stream.
RrNextNoWrap(v, c) == IF c.reason = "STATE_RR" THEN c.stream + 1 ELSE v.rr_next

\* The round-robin cursor after choice c: only pick_rr moves it.
RrNext(v, c) ==
  IF c.reason = "STATE_RR" THEN (c.stream + 1) % v.n_streams_total ELSE v.rr_next
=============================================================================
