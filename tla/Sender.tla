------------------------------- MODULE Sender -------------------------------
(***************************************************************************)
(* The transmitter core, core/fl_sender.c: per-stream latest-value slots   *)
(* with one frame in flight each, a fixed table of event slots with        *)
(* retries, deadlines and retention, and the validation of incoming        *)
(* acknowledgements.  One action per outcome of the four calls             *)
(* publish_state, post_event, step and ingest_ack.                         *)
(*                                                                         *)
(* A call whose time is refused by check_time, or whose arguments are      *)
(* refused before it, changes nothing and is a stuttering step.            *)
(***************************************************************************)
EXTENDS Frame, Policy, Sequences

CONSTANTS
  N_STREAMS,       \* cfg.n_streams
  EVENT_CAPACITY,  \* FL_EVENT_CAPACITY
  HORIZON,         \* FL_TIME_HORIZON_MS
  MAX_REL,         \* FL_MAX_REL_MS
  SEQ_MAX,         \* UINT32_MAX as the sequence number that is never assigned
  ID_MAX,          \* UINT32_MAX as the event id that is never assigned
  Configs,         \* the configurations fl_sender_init may be given
  Times,           \* the values of `now' the host may pass
  Lifetimes,       \* the <<deadline_rel, retention_rel>> the host may pass
  Acks             \* the frames the reverse link may hand over

Stream == 0 .. N_STREAMS - 1
Slot   == 0 .. EVENT_CAPACITY - 1

PolicyParams ==
  [family : Family, defer : BOOLEAN, late_demote : BOOLEAN, starvation_override : BOOLEAN,
   event_service_ms : 0 .. MAX_REL, slack_guard_ms : 0 .. MAX_REL,
   state_stale_ms : 0 .. MAX_REL, state_starvation_ms : 0 .. MAX_REL]

\* What fl_sender_init accepts.
Config == [policy : PolicyParams, ack_timeout : 1 .. MAX_REL, max_attempts : 1 .. 255]

ASSUME SenderAssumption ==
  /\ N_STREAMS \in Nat \ {0} /\ EVENT_CAPACITY \in Nat \ {0}
  /\ HORIZON \in Nat /\ MAX_REL \in Nat
  /\ TIME_NONE > HORIZON + MAX_REL
  /\ SEQ_MAX \in Nat \ {0} /\ ID_MAX \in Nat \ {0}
  /\ Configs \subseteq Config
  /\ Times \subseteq Nat
  /\ Lifetimes \subseteq Nat \X Nat
  /\ Acks \subseteq AnyFrame

VARIABLES
  cfg,        \* the configuration, fixed by fl_sender_init
  last_now,   \* time of the last accepted call, or TIME_NONE
  rr_next,    \* round-robin cursor of the policy
  streams,    \* fl_sender_stream_t per stream
  events,     \* fl_sender_event_t per slot
  stats,      \* fl_sender_stats_t
  outcome,    \* history: the terminal outcome reported for each id so far
  sent        \* history: the <<stream, seq>> handed to the transport

vars == <<cfg, last_now, rr_next, streams, events, stats, outcome, sent>>

NoFlight == [valid |-> FALSE]
Free     == [used |-> FALSE]

Counter == {"events_generated", "events_admitted", "events_rejected_full",
            "events_acked", "events_retry_exhausted", "events_retention_expired",
            "event_tx", "event_first_tx", "state_published", "state_superseded",
            "state_tx", "state_ack_timeouts", "acks_ok", "acks_unmatched",
            "acks_impossible", "acks_rejected_frame", "acks_session_mismatch"}

Init ==
  /\ cfg \in Configs
  /\ last_now = TIME_NONE
  /\ rr_next = 0
  /\ streams = [s \in Stream |->
       [latest_valid |-> FALSE, latest_seq |-> 0, latest_gen |-> 0,
        inflight |-> NoFlight, last_acked_seq |-> 0, last_acked_gen |-> TIME_NONE,
        max_sent_seq |-> 0, max_sent_gen |-> TIME_NONE, last_tx |-> TIME_NONE,
        next_seq |-> 1]]
  /\ events = [i \in Slot |-> Free]
  /\ stats = [c \in Counter |-> 0]
  /\ outcome = <<>>
  /\ sent = {}

-----------------------------------------------------------------------------
(* Helpers. *)

\* check_time accepts the call and remembers its time.
TimeOk(now) ==
  /\ now <= HORIZON
  /\ last_now = TIME_NONE \/ now >= last_now
  /\ last_now' = now

\* Add d[c] to every counter c that d mentions.
Count(d) ==
  stats' = [c \in Counter |-> IF c \in DOMAIN d THEN stats[c] + d[c] ELSE stats[c]]

UsedSlots == {i \in Slot : events[i].used}
FreeSlots == Slot \ UsedSlots

\* The used slot that holds id, if any.
SlotOf(evs, id) == {i \in Slot : evs[i].used /\ evs[i].id = id}

-----------------------------------------------------------------------------
(* fl_sender_publish_state. *)

SeqExhausted(s) == streams[s].next_seq = SEQ_MAX

\* Mutant: a snapshot that was sent but not acknowledged counts as waiting.
WaitingUnacked(s) == streams[s].latest_valid /\ streams[s].latest_seq > streams[s].last_acked_seq

\* A newest snapshot that was never transmitted is superseded by the next one.
Waiting(s) == streams[s].latest_valid /\ streams[s].latest_seq > streams[s].max_sent_seq

PublishState(now, s) ==
  /\ TimeOk(now)
  /\ ~ SeqExhausted(s)
  /\ streams' = [streams EXCEPT ![s].latest_valid = TRUE,
                                ![s].latest_seq = streams[s].next_seq,
                                ![s].latest_gen = now,
                                ![s].next_seq = @ + 1]
  /\ Count([state_published |-> 1, state_superseded |-> IF Waiting(s) THEN 1 ELSE 0])
  /\ UNCHANGED <<cfg, rr_next, events, outcome, sent>>

\* FL_ERR_SEQ_EXHAUSTED comes after check_time, so the time is remembered.
PublishExhausted(now, s) ==
  /\ TimeOk(now)
  /\ SeqExhausted(s)
  /\ UNCHANGED <<cfg, rr_next, streams, events, stats, outcome, sent>>

-----------------------------------------------------------------------------
(* fl_sender_post_event. *)

RelOk(life) == life[2] <= MAX_REL /\ life[1] <= life[2]

NextId == stats["events_generated"] + 1

IdExhausted == stats["events_generated"] >= ID_MAX - 1

LowestFree == {i \in FreeSlots : \A j \in FreeSlots : i <= j}

NewEvent(now, life) ==
  [used |-> TRUE, id |-> NextId, gen |-> now, deadline |-> now + life[1],
   retention |-> now + life[2], attempts |-> 0, in_flight |-> FALSE, sent_time |-> TIME_NONE]

PostAdmitted(now, life) ==
  /\ RelOk(life)
  /\ TimeOk(now)
  /\ ~ IdExhausted
  /\ \E i \in LowestFree : events' = [events EXCEPT ![i] = NewEvent(now, life)]
  /\ Count([events_generated |-> 1, events_admitted |-> 1])
  /\ outcome' = Append(outcome, "PENDING")
  /\ UNCHANGED <<cfg, rr_next, streams, sent>>

\* A full table rejects the event but burns its id.
PostRejected(now, life) ==
  /\ RelOk(life)
  /\ TimeOk(now)
  /\ ~ IdExhausted
  /\ FreeSlots = {}
  /\ Count([events_generated |-> 1, events_rejected_full |-> 1])
  /\ outcome' = Append(outcome, "REJECTED_FULL")
  /\ UNCHANGED <<cfg, rr_next, streams, events, sent>>

PostExhausted(now, life) ==
  /\ RelOk(life)
  /\ TimeOk(now)
  /\ IdExhausted
  /\ UNCHANGED <<cfg, rr_next, streams, events, stats, outcome, sent>>

-----------------------------------------------------------------------------
(* fl_sender_step: housekeeping, then the view, then one transmission. *)

\* Mutant: an event is still alive at its retention time.
RetentionOverLate(now, i) == events[i].used /\ now > events[i].retention

RetentionOver(now, i) == events[i].used /\ now >= events[i].retention

\* Looked at after retention: an expired event is no longer used.
AckOverdue(now, i) ==
  /\ events[i].used /\ ~ RetentionOver(now, i)
  /\ events[i].in_flight /\ now - events[i].sent_time >= cfg.ack_timeout

\* Mutant: one attempt too many is left.
OutOfRetriesLate(now, i) == AckOverdue(now, i) /\ events[i].attempts > cfg.max_attempts

OutOfRetries(now, i) == AckOverdue(now, i) /\ events[i].attempts >= cfg.max_attempts

StateOverdue(now, s) ==
  streams[s].inflight.valid /\ now - streams[s].inflight.sent_time >= cfg.ack_timeout

Expired(now)   == {i \in Slot : RetentionOver(now, i)}
Exhausted(now) == {i \in Slot : OutOfRetries(now, i)}
TimedOut(now)  == {s \in Stream : StateOverdue(now, s)}

\* Mutant: the slot of an exhausted event is not freed.
KeptEventsExhausted(now) ==
  [i \in Slot |->
     IF RetentionOver(now, i) THEN Free
     ELSE IF AckOverdue(now, i) THEN [events[i] EXCEPT !.in_flight = FALSE]
     ELSE events[i]]

\* The event slots and the streams as housekeeping leaves them.
KeptEvents(now) ==
  [i \in Slot |->
     IF RetentionOver(now, i) \/ OutOfRetries(now, i) THEN Free
     ELSE IF AckOverdue(now, i) THEN [events[i] EXCEPT !.in_flight = FALSE]
     ELSE events[i]]

KeptStreams(now) ==
  [s \in Stream |->
     IF StateOverdue(now, s) THEN [streams[s] EXCEPT !.inflight = NoFlight] ELSE streams[s]]

\* The terminal notes of the step, entered in the host's ledger.
NotedOutcomes(now) ==
  [id \in 1 .. Len(outcome) |->
     IF \E i \in Expired(now) : events[i].id = id THEN "RETENTION_EXPIRED"
     ELSE IF \E i \in Exhausted(now) : events[i].id = id THEN "RETRY_EXHAUSTED"
     ELSE outcome[id]]

\* Mutant: an event in flight may be sent again.
EligibleInFlight(now, e) == e.used /\ now < e.retention

\* Mutant: a snapshot is sent once, acknowledged or not.
EligibleUnsent(st) == st.latest_valid /\ st.latest_seq > st.max_sent_seq /\ ~ st.inflight.valid

EligibleEvent(now, e)  == e.used /\ ~ e.in_flight /\ now < e.retention
EligibleStream(st)     == st.latest_valid /\ st.latest_seq > st.last_acked_seq /\ ~ st.inflight.valid

\* fl_sender_build_view.
View(now, evs, sts) ==
  [now |-> now, params |-> cfg.policy, rr_next |-> rr_next, n_streams_total |-> N_STREAMS,
   events  |-> {[id |-> evs[i].id, deadline |-> evs[i].deadline, gen |-> evs[i].gen] :
                  i \in {j \in Slot : EligibleEvent(now, evs[j])}},
   streams |-> {[stream |-> s, latest_gen |-> sts[s].latest_gen, last_tx |-> sts[s].last_tx,
                 acked_gen |-> sts[s].last_acked_gen] :
                  s \in {r \in Stream : EligibleStream(sts[r])}}]

StepView(now) == View(now, KeptEvents(now), KeptStreams(now))

\* Counters housekeeping and the choice c add to.
StepCounts(now, c, first) ==
  [events_retention_expired |-> Cardinality(Expired(now)),
   events_retry_exhausted   |-> Cardinality(Exhausted(now)),
   state_ack_timeouts       |-> Cardinality(TimedOut(now)),
   event_tx                 |-> IF c.kind = "EVENT" THEN 1 ELSE 0,
   event_first_tx           |-> IF first THEN 1 ELSE 0,
   state_tx                 |-> IF c.kind = "STATE" THEN 1 ELSE 0]

\* What fl_sender_step insists on before it encodes the chosen frame; anything
\* else is FL_ERR_ARG, "policy chose something not eligible: bug".
Sendable(evs, sts, c) ==
  /\ c.kind = "EVENT" => \E i \in SlotOf(evs, c.id) :
                            ~ evs[i].in_flight /\ evs[i].attempts < cfg.max_attempts
  /\ c.kind = "STATE" => c.stream \in Stream /\ EligibleStream(sts[c.stream])

StepEvent(now, c) ==
  /\ c.kind = "EVENT"
  /\ Sendable(KeptEvents(now), KeptStreams(now), c)
  /\ \E i \in SlotOf(KeptEvents(now), c.id) :
       /\ events' = [KeptEvents(now) EXCEPT ![i].attempts = @ + 1,
                                            ![i].in_flight = TRUE,
                                            ![i].sent_time = now]
       /\ Count(StepCounts(now, c, events[i].attempts = 0))
  /\ streams' = KeptStreams(now)
  /\ UNCHANGED sent

StepState(now, c) ==
  /\ c.kind = "STATE"
  /\ Sendable(KeptEvents(now), KeptStreams(now), c)
  /\ LET st == KeptStreams(now)[c.stream]
     IN  /\ streams' = [KeptStreams(now) EXCEPT ![c.stream] =
              [st EXCEPT !.inflight = [valid |-> TRUE, seq |-> st.latest_seq,
                                       gen |-> st.latest_gen, sent_time |-> now],
                         !.max_sent_seq = st.latest_seq,
                         !.max_sent_gen = st.latest_gen,
                         !.last_tx = now]]
         /\ sent' = sent \cup {<<c.stream, st.latest_seq>>}
  /\ Count(StepCounts(now, c, FALSE))
  /\ events' = KeptEvents(now)

StepIdle(now, c) ==
  /\ c.kind = "NONE"
  /\ events' = KeptEvents(now)
  /\ streams' = KeptStreams(now)
  /\ Count(StepCounts(now, c, FALSE))
  /\ UNCHANGED sent

\* The frame written for choice c, none if it is idle.
FramesSent(now, c) ==
  CASE c.kind = "EVENT" ->
         {[type |-> "EVENT", id |-> c.id, gen |-> events[i].gen, deadline |-> events[i].deadline] :
            i \in SlotOf(events, c.id)}
    [] c.kind = "STATE" ->
         {[type |-> "STATE", stream |-> c.stream, seq |-> streams[c.stream].latest_seq,
           gen |-> streams[c.stream].latest_gen]}
    [] c.kind = "NONE" -> {}

\* The rest of the call, once check_time has accepted it.
StepWith(now, c) ==
  /\ rr_next' = RrNext(StepView(now), c)
  /\ StepEvent(now, c) \/ StepState(now, c) \/ StepIdle(now, c)
  /\ outcome' = NotedOutcomes(now)
  /\ UNCHANGED cfg

Choices(now) == Select(StepView(now))

Step(now) == TimeOk(now) /\ \E c \in Choices(now) : StepWith(now, c)

-----------------------------------------------------------------------------
(* fl_sender_ingest_ack. *)

\* Refused bytes, a data frame, or a stream this end does not have.
AckRefused(now, f) ==
  /\ \/ f.type \in {"BAD", "STATE", "EVENT"}
     \/ f.type = "ACK_STATE" /\ f.stream \notin Stream
  /\ TimeOk(now)
  /\ IF f.type = "BAD" /\ f.err = "SESSION"
     THEN Count([acks_session_mismatch |-> 1])
     ELSE Count([acks_rejected_frame |-> 1])
  /\ UNCHANGED <<cfg, rr_next, streams, events, outcome, sent>>

\* Mutant: a snapshot published but never sent may be acknowledged.
ImpossibleUnpublished(now, f) == f.seq > streams[f.stream].latest_seq \/ f.gen > now

\* Mutant: an acknowledgement overtaken by a newer one is refused as well.
ImpossibleOvertaken(now, f) ==
  f.seq > streams[f.stream].max_sent_seq \/ f.seq < streams[f.stream].last_acked_seq

\* Beyond anything ever sent, from the future, or at odds with a known pair.
ImpossibleState(now, f) ==
  LET st == streams[f.stream]
  IN  \/ f.seq > st.max_sent_seq
      \/ f.gen > now
      \/ st.max_sent_gen # TIME_NONE /\ f.gen > st.max_sent_gen
      \/ f.seq = st.last_acked_seq /\ f.seq # 0 /\ f.gen # st.last_acked_gen
      \/ st.inflight.valid /\ f.seq = st.inflight.seq /\ f.gen # st.inflight.gen

AckStateImpossible(now, f) ==
  /\ f.type = "ACK_STATE" /\ f.stream \in Stream
  /\ ImpossibleState(now, f)
  /\ TimeOk(now)
  /\ Count([acks_impossible |-> 1])
  /\ UNCHANGED <<cfg, rr_next, streams, events, outcome, sent>>

\* Mutant: the generation time is taken from every acknowledgement.
LearnedLatest(st, f) ==
  [st EXCEPT !.last_acked_seq = IF f.seq > @ THEN f.seq ELSE @, !.last_acked_gen = f.gen]

\* Knowledge only advances.
Learned(st, f) ==
  IF f.seq > st.last_acked_seq
  THEN [st EXCEPT !.last_acked_seq = f.seq, !.last_acked_gen = f.gen]
  ELSE st

\* The frame in flight is settled by any ACK at least as new.
Settled(st, f) ==
  IF st.inflight.valid /\ f.seq >= st.inflight.seq THEN [st EXCEPT !.inflight = NoFlight] ELSE st

AckStateAccepted(now, f) ==
  /\ f.type = "ACK_STATE" /\ f.stream \in Stream
  /\ ~ ImpossibleState(now, f)
  /\ TimeOk(now)
  /\ streams' = [streams EXCEPT ![f.stream] = Settled(Learned(@, f), f)]
  /\ Count([acks_ok |-> 1])
  /\ UNCHANGED <<cfg, rr_next, events, outcome, sent>>

\* An id never generated, or admitted and never transmitted.
ImpossibleEvent(f) ==
  \/ f.id = 0 \/ f.id > stats["events_generated"]
  \/ \E i \in SlotOf(events, f.id) : events[i].attempts = 0

AckEventImpossible(now, f) ==
  /\ f.type = "ACK_EVENT"
  /\ ImpossibleEvent(f)
  /\ TimeOk(now)
  /\ Count([acks_impossible |-> 1])
  /\ UNCHANGED <<cfg, rr_next, streams, events, outcome, sent>>

\* Mutant: a late acknowledgement overturns the outcome.
AckEventUnmatchedApplied(now, f) ==
  /\ f.type = "ACK_EVENT"
  /\ ~ ImpossibleEvent(f)
  /\ SlotOf(events, f.id) = {}
  /\ TimeOk(now)
  /\ outcome' = [outcome EXCEPT ![f.id] = "ACKED"]
  /\ Count([acks_ok |-> 1])
  /\ UNCHANGED <<cfg, rr_next, streams, events, sent>>

\* Already terminal, or rejected at admission.
AckEventUnmatched(now, f) ==
  /\ f.type = "ACK_EVENT"
  /\ ~ ImpossibleEvent(f)
  /\ SlotOf(events, f.id) = {}
  /\ TimeOk(now)
  /\ Count([acks_unmatched |-> 1])
  /\ UNCHANGED <<cfg, rr_next, streams, events, outcome, sent>>

AckEventAccepted(now, f) ==
  /\ f.type = "ACK_EVENT"
  /\ ~ ImpossibleEvent(f)
  /\ TimeOk(now)
  /\ \E i \in SlotOf(events, f.id) : events' = [events EXCEPT ![i] = Free]
  /\ outcome' = [outcome EXCEPT ![f.id] = "ACKED"]
  /\ Count([events_acked |-> 1, acks_ok |-> 1])
  /\ UNCHANGED <<cfg, rr_next, streams, sent>>

IngestAck(now, f) ==
  \/ AckRefused(now, f)
  \/ AckStateImpossible(now, f)
  \/ AckStateAccepted(now, f)
  \/ AckEventImpossible(now, f)
  \/ AckEventUnmatched(now, f)
  \/ AckEventAccepted(now, f)

Publish(now, s) == PublishState(now, s) \/ PublishExhausted(now, s)
Post(now, life) == PostAdmitted(now, life) \/ PostRejected(now, life) \/ PostExhausted(now, life)

\* What the host calls of its own accord.
Calls(now) ==
  \/ \E s \in Stream : Publish(now, s)
  \/ \E life \in Lifetimes : Post(now, life)
  \/ Step(now)

Next == \E now \in Times : Calls(now) \/ \E f \in Acks : IngestAck(now, f)

Spec == Init /\ [][Next]_vars

-----------------------------------------------------------------------------
(* Properties. *)

Outcome == {"PENDING", "REJECTED_FULL", "ACKED", "RETRY_EXHAUSTED", "RETENTION_EXPIRED"}

EventSlot ==
  {Free} \cup [used : {TRUE}, id : Nat \ {0}, gen : Nat, deadline : Nat, retention : Nat,
               attempts : Nat, in_flight : BOOLEAN, sent_time : Nat]

Flight == {NoFlight} \cup [valid : {TRUE}, seq : Nat, gen : Nat, sent_time : Nat]

StreamSlot ==
  [latest_valid : BOOLEAN, latest_seq : Nat, latest_gen : Nat, inflight : Flight,
   last_acked_seq : Nat, last_acked_gen : Nat, max_sent_seq : Nat, max_sent_gen : Nat,
   last_tx : Nat, next_seq : Nat]

\* Types of the sender's fields (fl_sender_t).
TypeOK ==
  /\ cfg \in Configs
  /\ last_now \in Nat
  /\ rr_next \in Stream
  /\ streams \in [Stream -> StreamSlot]
  /\ events \in [Slot -> EventSlot]
  /\ stats \in [Counter -> Nat]
  /\ outcome \in Seq(Outcome)
  /\ sent \subseteq Stream \X Nat

\* What the event slots satisfy at every instant, whatever acknowledgements come
\* in: an event awaiting (re)transmission has an attempt left, no attempt was
\* made at or after retention, and the k-th attempt comes no sooner than k-1
\* acknowledgement timeouts after the event was generated (fl_sender.c:177-207).
RetryDiscipline ==
  \A i \in UsedSlots :
    LET e == events[i]
    IN  /\ e.attempts <= cfg.max_attempts
        /\ ~ e.in_flight => e.attempts < cfg.max_attempts
        /\ e.in_flight => e.attempts > 0
        /\ e.attempts > 0 =>
             /\ e.gen + (e.attempts - 1) * cfg.ack_timeout <= e.sent_time
             /\ e.sent_time <= last_now /\ e.sent_time < e.retention

\* fl_sender_step never takes its "bug" returns (fl_sender.c:281-283, 309-315):
\* whatever the policy chooses, in every state, may be sent.
StepNeverFaults ==
  \A now \in Times :
    (now <= HORIZON /\ (last_now = TIME_NONE \/ now >= last_now))
      => \A c \in Choices(now) : Sendable(KeptEvents(now), KeptStreams(now), c)

\* Every generated id has exactly one fate (DESIGN.md 6.5): the outcomes reported to
\* the host agree with the slots, an id pending precisely while one slot holds it and
\* no two slots holding the same, and with what the counters say of each outcome.
\* Every published snapshot was superseded unsent, transmitted at least once, or is
\* the one waiting; retransmissions of a snapshot do not count twice.
LedgerExact ==
  /\ Len(outcome) = stats["events_generated"]
  /\ \A i \in UsedSlots : events[i].id \in 1 .. Len(outcome)
  /\ \A id \in 1 .. Len(outcome) :
       outcome[id] = "PENDING" <=> \E i \in UsedSlots : events[i].id = id
  /\ \A i, j \in UsedSlots : events[i].id = events[j].id => i = j
  /\ LET ended(o) == Cardinality({id \in 1 .. Len(outcome) : outcome[id] = o})
     IN  /\ ended("REJECTED_FULL") = stats["events_rejected_full"]
         /\ ended("ACKED") = stats["events_acked"]
         /\ ended("RETRY_EXHAUSTED") = stats["events_retry_exhausted"]
         /\ ended("RETENTION_EXPIRED") = stats["events_retention_expired"]
         /\ stats["events_admitted"] + stats["events_rejected_full"] = Len(outcome)
  /\ stats["state_published"] = stats["state_superseded"] + Cardinality(sent)
       + Cardinality({s \in Stream : streams[s].latest_seq > streams[s].max_sent_seq})

\* What the sender knows of the receiver stays within what it sent, and what it
\* sent within what was published, under any acknowledgement whatever; a frame
\* in flight is newer than that knowledge, so its ACK is never taken for stale
\* (fl_sender.c:378-391).  A generation time it ages is never in the future, so
\* the policy's unsigned subtraction cannot wrap.
KnowledgeChain ==
  \A s \in Stream :
    LET st == streams[s]
    IN  /\ st.last_acked_seq <= st.max_sent_seq
        /\ st.max_sent_seq <= st.latest_seq /\ st.latest_seq + 1 = st.next_seq
        /\ st.inflight.valid => /\ st.last_acked_seq < st.inflight.seq
                                /\ st.inflight.seq = st.max_sent_seq
                                /\ st.inflight.gen = st.max_sent_gen
        /\ st.last_acked_seq > 0 => /\ st.last_acked_gen <= st.max_sent_gen
                                    /\ st.max_sent_gen <= last_now
        /\ st.last_acked_seq = 0 => st.last_acked_gen = TIME_NONE

\* A terminal outcome is final: acknowledgements that come late, twice or for a
\* rejected id change nothing, and knowledge of a stream never regresses.  An event
\* that is out of retries and out of retention in the same step ends as
\* RETENTION_EXPIRED (DESIGN.md 6.3): exhaustion implies there was time left.
KeepsOutcomes ==
  /\ \A id \in 1 .. Len(outcome) : outcome[id] # "PENDING" => outcome'[id] = outcome[id]
  /\ \A s \in Stream : streams'[s].last_acked_seq >= streams[s].last_acked_seq
  /\ \A i \in UsedSlots :
       outcome'[events[i].id] = "RETRY_EXHAUSTED" => last_now' < events[i].retention

\* Every call keeps them.
OutcomesFinal == [][KeepsOutcomes]_vars
=============================================================================
