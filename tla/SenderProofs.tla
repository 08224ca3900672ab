---------------------------- MODULE SenderProofs ----------------------------
(***************************************************************************)
(* Theorems about module Sender for every number of streams and slots,     *)
(* every configuration, horizon and bound on ids and sequence numbers, and *)
(* for any acknowledgements whatever the reverse link may hand over.  The  *)
(* lemmas are stated per call, for any time and any frame, so that a       *)
(* module that drives the sender can cite them.                            *)
(***************************************************************************)
EXTENDS Sender, PolicyProofs, FiniteSetTheorems

-----------------------------------------------------------------------------
(* The inductive invariant. *)

\* x is the time of an accepted call, and t that of a later one or the same.
Past(x, t) == x <= t /\ t <= HORIZON

\* What holds of a stream at time t: what is acknowledged was sent, what was sent
\* was published, generation times follow the sequence numbers, and only the
\* newest snapshot sent is in flight.
StreamOK(st, t) ==
  /\ ~ st.latest_valid => st.latest_seq = 0
  /\ st.last_acked_seq <= st.max_sent_seq /\ st.max_sent_seq <= st.latest_seq
  /\ st.latest_seq + 1 = st.next_seq
  /\ st.latest_valid => Past(st.latest_gen, t)
  /\ st.max_sent_seq > 0 => st.max_sent_gen <= st.latest_gen
  /\ st.last_acked_seq > 0 => st.last_acked_gen <= st.max_sent_gen
  /\ st.last_acked_seq = 0 => st.last_acked_gen = TIME_NONE
  /\ st.inflight.valid => /\ st.last_acked_seq < st.inflight.seq
                          /\ st.inflight.seq = st.max_sent_seq
                          /\ st.inflight.gen = st.max_sent_gen
  /\ st.last_tx = TIME_NONE \/ Past(st.last_tx, t)

\* What holds of a used event slot at time t under configuration c.  The last line
\* makes it inductive: between attempts a whole acknowledgement timeout has passed.
EventOK(e, c, t) ==
  /\ e.attempts <= c.max_attempts
  /\ ~ e.in_flight => e.attempts < c.max_attempts
  /\ e.in_flight => e.attempts > 0
  /\ Past(e.gen, t)
  /\ e.attempts > 0 =>
       /\ e.gen + (e.attempts - 1) * c.ack_timeout <= e.sent_time
       /\ Past(e.sent_time, t) /\ e.sent_time < e.retention
       /\ ~ e.in_flight => e.sent_time + c.ack_timeout <= t

StreamsOK == \A s \in Stream : StreamOK(streams[s], last_now)
EventsOK  == \A i \in Slot : events[i].used => EventOK(events[i], cfg, last_now)

\* The part of LedgerExact that is about slots.
SlotsExact ==
  /\ Len(outcome) = stats["events_generated"]
  /\ \A i \in UsedSlots : events[i].id \in 1 .. Len(outcome)
  /\ \A id \in 1 .. Len(outcome) :
       outcome[id] = "PENDING" <=> \E i \in UsedSlots : events[i].id = id
  /\ \A i, j \in UsedSlots : events[i].id = events[j].id => i = j

Safe == TypeOK /\ StreamsOK /\ EventsOK /\ SlotsExact

\* check_time lets a call at time now pass.
Accepts(now) == now <= HORIZON /\ (last_now = TIME_NONE \/ now >= last_now)

-----------------------------------------------------------------------------
(* Types of the parts. *)

\* A used slot, as a record of its own.
UsedEvent == [used : {TRUE}, id : Nat \ {0}, gen : Nat, deadline : Nat, retention : Nat,
              attempts : Nat, in_flight : BOOLEAN, sent_time : Nat]

\* A slot is free or holds an event.
LEMMA SlotShapes ==
  ASSUME NEW e \in EventSlot
  PROVE  /\ e.used \in BOOLEAN
         /\ e.used => e \in UsedEvent
         /\ ~ e.used => e = Free
<1>1. CASE e = Free
  <2>1. e.used = FALSE
    BY <1>1 DEF Free
  <2> QED
    BY <1>1, <2>1
<1>2. CASE e \in UsedEvent
  <2>1. e.used = TRUE
    BY <1>2 DEF UsedEvent
  <2> QED
    BY <1>2, <2>1
<1> QED
  BY <1>1, <1>2 DEF EventSlot, UsedEvent

\* A frame in flight, or none.
LEMMA FlightShapes ==
  ASSUME NEW fl \in Flight
  PROVE  /\ fl.valid \in BOOLEAN
         /\ fl.valid => fl.seq \in Nat /\ fl.gen \in Nat /\ fl.sent_time \in Nat
<1>1. CASE fl = NoFlight
  <2>1. fl.valid = FALSE
    BY <1>1 DEF NoFlight
  <2> QED
    BY <2>1
<1>2. CASE fl \in [valid : {TRUE}, seq : Nat, gen : Nat, sent_time : Nat]
  <2>1. fl.valid = TRUE /\ fl.seq \in Nat /\ fl.gen \in Nat /\ fl.sent_time \in Nat
    BY <1>2
  <2> QED
    BY <2>1
<1> QED
  BY <1>1, <1>2 DEF Flight

\* The numbers of a configuration.
LEMMA ConfigTypes ==
  ASSUME TypeOK
  PROVE  /\ cfg \in Config
         /\ cfg.ack_timeout \in Nat \ {0} /\ cfg.max_attempts \in Nat \ {0}
         /\ cfg.policy \in PolicyParams
         /\ TIME_NONE \in Nat /\ HORIZON \in Nat /\ HORIZON < TIME_NONE
         /\ N_STREAMS \in Nat \ {0} /\ EVENT_CAPACITY \in Nat \ {0}
<1>1. cfg \in Config
  BY SenderAssumption DEF TypeOK
<1>2. /\ cfg.ack_timeout \in Nat \ {0} /\ cfg.max_attempts \in Nat \ {0}
      /\ cfg.policy \in PolicyParams
  BY <1>1, SenderAssumption DEF Config
<1>3. TIME_NONE \in Nat /\ HORIZON \in Nat /\ HORIZON < TIME_NONE
  BY SenderAssumption, TimeNoneAssumption
<1> QED
  BY <1>1, <1>2, <1>3, SenderAssumption

\* Counters stay natural numbers.
LEMMA CountTypes ==
  ASSUME stats \in [Counter -> Nat], NEW d, Count(d),
         \A k \in DOMAIN d : d[k] \in Nat
  PROVE  stats' \in [Counter -> Nat]
  BY DEF Count

\* Frames of the reverse link are of the one shape their tag says.
LEMMA AckShapes ==
  ASSUME NEW f \in AnyFrame
  PROVE  /\ f.type \in {"STATE", "EVENT", "ACK_STATE", "ACK_EVENT", "BAD"}
         /\ f.type = "ACK_STATE" => f.stream \in Nat /\ f.seq \in Nat /\ f.gen \in Nat
         /\ f.type = "ACK_EVENT" => f.id \in Nat
  BY DEF AnyFrame, StateFrame, EventFrame, AckStateFrame, AckEventFrame, BadFrame

-----------------------------------------------------------------------------
(* Time. *)

\* An accepted call moves the clock to now, not past the horizon.
LEMMA TimeAccepted ==
  ASSUME TypeOK, NEW now \in Nat, TimeOk(now)
  PROVE  Accepts(now) /\ last_now' = now /\ last_now' \in Nat
  BY DEF TimeOk, Accepts

\* What is past stays past.
LEMMA PastStays ==
  ASSUME TypeOK, NEW now \in Nat, Accepts(now)
  PROVE  /\ last_now <= HORIZON => last_now <= now
         /\ \A x \in Nat : Past(x, last_now) => Past(x, now)
         /\ Past(now, now)
  BY ConfigTypes DEF TypeOK, Accepts, Past

\* A stream left alone is still in order at a later time.
LEMMA StreamKeeps ==
  ASSUME TypeOK, NEW now \in Nat, Accepts(now),
         NEW st \in StreamSlot, StreamOK(st, last_now)
  PROVE  StreamOK(st, now)
  BY PastStays DEF StreamOK, StreamSlot

\* So is an event.
LEMMA EventKeeps ==
  ASSUME TypeOK, NEW now \in Nat, Accepts(now),
         NEW e \in UsedEvent, EventOK(e, cfg, last_now)
  PROVE  EventOK(e, cfg, now)
<1>1. Past(e.gen, now)
  BY PastStays DEF EventOK, UsedEvent
<1>2. ASSUME e.attempts > 0
      PROVE  Past(e.sent_time, now) /\ (~ e.in_flight => e.sent_time + cfg.ack_timeout <= now)
  <2>1. Past(e.sent_time, last_now) /\ last_now <= now
    BY <1>2, PastStays DEF EventOK, UsedEvent, Past
  <2>2. e.sent_time \in Nat /\ last_now \in Nat /\ cfg.ack_timeout \in Nat
    BY ConfigTypes DEF UsedEvent, TypeOK
  <2>3. Past(e.sent_time, now)
    BY <2>1, <2>2, PastStays
  <2>4. ~ e.in_flight => e.sent_time + cfg.ack_timeout <= last_now
    BY <1>2 DEF EventOK
  <2> QED
    BY <2>1, <2>2, <2>3, <2>4
<1> QED
  BY <1>1, <1>2 DEF EventOK

\* A call that leaves streams, events and outcomes alone and counts no generated
\* event keeps everything in order.
LEMMA LeftAlone ==
  ASSUME Safe, NEW now \in Nat, TimeOk(now), stats' \in [Counter -> Nat],
         stats'["events_generated"] = stats["events_generated"],
         UNCHANGED <<cfg, rr_next, streams, events, outcome, sent>>
  PROVE  Safe'
<1>1. TypeOK'
  BY TimeAccepted DEF Safe, TypeOK
<1>2. StreamsOK'
  BY TimeAccepted, StreamKeeps DEF Safe, StreamsOK, TypeOK
<1>3. EventsOK'
  BY TimeAccepted, EventKeeps, SlotShapes DEF Safe, EventsOK, TypeOK
<1>4. SlotsExact'
  BY DEF Safe, SlotsExact, UsedSlots
<1> QED
  BY <1>1, <1>2, <1>3, <1>4 DEF Safe

-----------------------------------------------------------------------------
(* fl_sender_publish_state. *)

\* A stream is still one after a snapshot is written into it.
LEMMA PublishedType ==
  ASSUME NEW st \in StreamSlot, NEW q \in Nat, NEW g \in Nat, NEW n \in Nat
  PROVE  [st EXCEPT !.latest_valid = TRUE, !.latest_seq = q, !.latest_gen = g, !.next_seq = n]
           \in StreamSlot
  BY Zenon DEF StreamSlot

\* A published snapshot is the newest of its stream and nothing else changes.
LEMMA PublishSafe ==
  ASSUME Safe, NEW now \in Nat, NEW s \in Stream, Publish(now, s)
  PROVE  Safe'
<1>1. CASE PublishState(now, s)
  <2>1. TimeOk(now) /\ Accepts(now) /\ last_now' = now /\ last_now' \in Nat /\ cfg' = cfg
    BY <1>1, TimeAccepted DEF PublishState, Safe
  <2>2. streams[s] \in StreamSlot /\ StreamOK(streams[s], last_now)
    BY DEF Safe, TypeOK, StreamsOK
  <2> DEFINE st == [streams[s] EXCEPT !.latest_valid = TRUE, !.latest_seq = streams[s].next_seq,
                                      !.latest_gen = now, !.next_seq = @ + 1]
  <2>3. streams' = [streams EXCEPT ![s] = st]
    <3>1. streams \in [Stream -> StreamSlot]
      BY DEF Safe, TypeOK
    <3>2. /\ \A r \in Stream : r # s => streams'[r] = streams[r]
          /\ streams' = [r \in Stream |-> streams'[r]]
      BY <1>1, <3>1 DEF PublishState
    <3>3. streams'[s] = st
      BY <1>1, <3>1 DEF PublishState
    <3> HIDE DEF st
    <3> QED
      BY <3>1, <3>2, <3>3
  <2>4. st \in StreamSlot
    <3>1. streams[s].next_seq \in Nat /\ streams[s].next_seq + 1 \in Nat
      BY <2>2 DEF StreamSlot
    <3> QED
      BY <2>2, <3>1, PublishedType
  <2>5. StreamOK(st, now)
    <3>1. StreamOK(streams[s], now)
      BY <2>1, <2>2, StreamKeeps DEF Safe
    <3>2. Past(now, now)
      BY <2>1, PastStays DEF Safe
    <3>3. streams[s].max_sent_seq > 0 => streams[s].latest_valid /\ streams[s].max_sent_gen <= now
      BY <2>2, <3>1 DEF StreamOK, StreamSlot, Past
    <3> QED
      BY <2>2, <3>1, <3>2, <3>3 DEF StreamOK, StreamSlot
  <2>6. stats' \in [Counter -> Nat] /\ stats'["events_generated"] = stats["events_generated"]
    <3>1. Count([state_published |-> 1, state_superseded |-> IF Waiting(s) THEN 1 ELSE 0])
      BY <1>1 DEF PublishState
    <3>2. stats' \in [Counter -> Nat]
      BY <3>1, CountTypes DEF Safe, TypeOK
    <3> QED
      BY <3>1, <3>2 DEF Count, Counter, Safe, TypeOK
  <2>7. UNCHANGED <<rr_next, events, outcome, sent>>
    BY <1>1 DEF PublishState
  <2>8. TypeOK'
    BY <2>1, <2>3, <2>4, <2>6, <2>7 DEF Safe, TypeOK
  <2>9. StreamsOK'
    BY <2>1, <2>3, <2>5, StreamKeeps DEF Safe, TypeOK, StreamsOK
  <2>10. EventsOK'
    BY <2>1, <2>7, EventKeeps, SlotShapes DEF Safe, EventsOK, TypeOK
  <2>11. SlotsExact'
    BY <2>6, <2>7 DEF Safe, SlotsExact, UsedSlots
  <2> QED
    BY <2>8, <2>9, <2>10, <2>11 DEF Safe
<1>2. CASE PublishExhausted(now, s)
  BY <1>2, LeftAlone DEF PublishExhausted, Safe, TypeOK
<1> QED
  BY <1>1, <1>2 DEF Publish

-----------------------------------------------------------------------------
(* fl_sender_post_event. *)

\* One more id, with its outcome at the end of the ledger.
LEMMA OutcomeAppended ==
  ASSUME outcome \in Seq(Outcome), NEW o \in Outcome, outcome' = Append(outcome, o)
  PROVE  /\ outcome' \in Seq(Outcome) /\ Len(outcome') = Len(outcome) + 1
         /\ \A id \in 1 .. Len(outcome) : outcome'[id] = outcome[id]
         /\ outcome'[Len(outcome) + 1] = o
         /\ \A id \in 1 .. Len(outcome') : id \in 1 .. Len(outcome) \/ id = Len(outcome) + 1
  OBVIOUS

\* An admitted event takes one free slot, a fresh id and no attempt.
LEMMA AdmittedSafe ==
  ASSUME Safe, NEW now \in Nat, NEW life \in Nat \X Nat, PostAdmitted(now, life)
  PROVE  Safe'
<1>1. TimeOk(now) /\ Accepts(now) /\ last_now' = now /\ last_now' \in Nat
  BY TimeAccepted DEF PostAdmitted, Safe
<1>2. UNCHANGED <<cfg, rr_next, streams, sent>>
  BY DEF PostAdmitted
<1>3. PICK i \in LowestFree : events' = [events EXCEPT ![i] = NewEvent(now, life)]
  BY DEF PostAdmitted
<1>4. i \in Slot /\ ~ events[i].used
  BY <1>3 DEF LowestFree, FreeSlots, UsedSlots
<1>5. stats' \in [Counter -> Nat] /\ stats'["events_generated"] = stats["events_generated"] + 1
  <2>1. Count([events_generated |-> 1, events_admitted |-> 1])
    BY DEF PostAdmitted
  <2>2. stats' \in [Counter -> Nat]
    BY <2>1, CountTypes DEF Safe, TypeOK
  <2> QED
    BY <2>1, <2>2 DEF Count, Counter, Safe, TypeOK
<1>6. Len(outcome) = stats["events_generated"] /\ NextId = Len(outcome) + 1 /\ NextId \in Nat \ {0}
  BY DEF Safe, SlotsExact, NextId, TypeOK
<1>7. /\ outcome' \in Seq(Outcome) /\ Len(outcome') = Len(outcome) + 1
      /\ \A id \in 1 .. Len(outcome) : outcome'[id] = outcome[id]
      /\ outcome'[Len(outcome) + 1] = "PENDING"
      /\ \A id \in 1 .. Len(outcome') : id \in 1 .. Len(outcome) \/ id = Len(outcome) + 1
  <2>1. "PENDING" \in Outcome /\ outcome' = Append(outcome, "PENDING")
    BY DEF PostAdmitted, Outcome
  <2> QED
    BY <2>1, OutcomeAppended DEF Safe, TypeOK
<1>8. NewEvent(now, life) \in UsedEvent /\ NewEvent(now, life).used /\ NewEvent(now, life).id = NextId
  <2>1. /\ NextId \in Nat \ {0} /\ TIME_NONE \in Nat
        /\ now + life[1] \in Nat /\ now + life[2] \in Nat
    BY <1>6, TimeNoneAssumption
  <2> QED
    BY <2>1 DEF NewEvent, UsedEvent
<1>9. EventOK(NewEvent(now, life), cfg, now)
  BY <1>1, PastStays, ConfigTypes DEF EventOK, NewEvent, Safe
<1>10. TypeOK'
  BY <1>1, <1>2, <1>3, <1>4, <1>5, <1>7, <1>8 DEF Safe, TypeOK, EventSlot, UsedEvent
<1>11. StreamsOK'
  BY <1>1, <1>2, StreamKeeps DEF Safe, StreamsOK, TypeOK
<1>12. EventsOK'
  <2> SUFFICES ASSUME NEW j \in Slot, events'[j].used
               PROVE  EventOK(events'[j], cfg', last_now')
    BY DEF EventsOK
  <2>1. CASE j = i
    BY <1>1, <1>2, <1>3, <1>4, <1>9, <2>1 DEF Safe, TypeOK
  <2>2. CASE j # i
    <3>1. events'[j] = events[j]
      BY <1>3, <1>4, <2>2 DEF Safe, TypeOK
    <3>2. EventOK(events[j], cfg, now)
      BY <1>1, <3>1, EventKeeps, SlotShapes DEF Safe, EventsOK, TypeOK
    <3> QED
      BY <1>1, <1>2, <3>1, <3>2
  <2> QED
    BY <2>1, <2>2
<1>13. SlotsExact'
  <2>1. UsedSlots' = UsedSlots \cup {i} /\ i \notin UsedSlots
    BY <1>3, <1>4, <1>8 DEF UsedSlots, Safe, TypeOK
  <2>2. events'[i].id = Len(outcome) + 1 /\ \A j \in UsedSlots : events'[j].id = events[j].id
    BY <1>3, <1>4, <1>6, <1>8, <2>1 DEF UsedSlots, Safe, TypeOK
  <2>3. /\ \A j \in UsedSlots : events[j].id \in 1 .. Len(outcome)
        /\ \A id \in 1 .. Len(outcome) :
             outcome[id] = "PENDING" <=> \E j \in UsedSlots : events[j].id = id
        /\ \A j, k \in UsedSlots : events[j].id = events[k].id => j = k
        /\ Len(outcome) \in Nat
    BY DEF Safe, SlotsExact, TypeOK
  <2>4. \A j \in UsedSlots' : events'[j].id \in 1 .. Len(outcome')
    BY <1>7, <2>1, <2>2, <2>3
  <2>5. \A id \in 1 .. Len(outcome') :
          outcome'[id] = "PENDING" <=> \E j \in UsedSlots' : events'[j].id = id
    <3> SUFFICES ASSUME NEW id \in 1 .. Len(outcome')
                 PROVE  outcome'[id] = "PENDING" <=> \E j \in UsedSlots' : events'[j].id = id
      OBVIOUS
    <3>1. CASE id = Len(outcome) + 1
      BY <1>7, <2>1, <2>2, <3>1
    <3>2. CASE id \in 1 .. Len(outcome)
      <4>1. id # Len(outcome) + 1
        BY <2>3, <3>2
      <4>2. (\E j \in UsedSlots' : events'[j].id = id) <=> (\E j \in UsedSlots : events[j].id = id)
        BY <2>1, <2>2, <4>1
      <4> QED
        BY <1>7, <2>3, <3>2, <4>2
    <3> QED
      BY <1>7, <3>1, <3>2
  <2>6. \A j, k \in UsedSlots' : events'[j].id = events'[k].id => j = k
    BY <2>1, <2>2, <2>3
  <2>7. Len(outcome') = stats'["events_generated"]
    BY <1>5, <1>6, <1>7
  <2> QED
    BY <2>4, <2>5, <2>6, <2>7 DEF SlotsExact
<1> QED
  BY <1>10, <1>11, <1>12, <1>13 DEF Safe

\* A rejected event takes an id and no slot.
LEMMA RejectedSafe ==
  ASSUME Safe, NEW now \in Nat, NEW life \in Nat \X Nat, PostRejected(now, life)
  PROVE  Safe'
<1>1. TimeOk(now) /\ Accepts(now) /\ last_now' = now /\ last_now' \in Nat
  BY TimeAccepted DEF PostRejected, Safe
<1>2. UNCHANGED <<cfg, rr_next, streams, events, sent>>
  BY DEF PostRejected
<1>3. stats' \in [Counter -> Nat] /\ stats'["events_generated"] = stats["events_generated"] + 1
  <2>1. Count([events_generated |-> 1, events_rejected_full |-> 1])
    BY DEF PostRejected
  <2>2. stats' \in [Counter -> Nat]
    BY <2>1, CountTypes DEF Safe, TypeOK
  <2> QED
    BY <2>1, <2>2 DEF Count, Counter, Safe, TypeOK
<1>4. /\ outcome' \in Seq(Outcome) /\ Len(outcome') = Len(outcome) + 1
      /\ \A id \in 1 .. Len(outcome) : outcome'[id] = outcome[id]
      /\ outcome'[Len(outcome) + 1] = "REJECTED_FULL"
      /\ \A id \in 1 .. Len(outcome') : id \in 1 .. Len(outcome) \/ id = Len(outcome) + 1
  <2>1. "REJECTED_FULL" \in Outcome /\ outcome' = Append(outcome, "REJECTED_FULL")
    BY DEF PostRejected, Outcome
  <2> QED
    BY <2>1, OutcomeAppended DEF Safe, TypeOK
<1>5. TypeOK'
  BY <1>1, <1>2, <1>3, <1>4 DEF Safe, TypeOK
<1>6. StreamsOK'
  BY <1>1, <1>2, StreamKeeps DEF Safe, StreamsOK, TypeOK
<1>7. EventsOK'
  BY <1>1, <1>2, EventKeeps, SlotShapes DEF Safe, EventsOK, TypeOK
<1>8. SlotsExact'
  <2>1. UsedSlots' = UsedSlots
    BY <1>2 DEF UsedSlots
  <2>2. /\ \A j \in UsedSlots : events[j].id \in 1 .. Len(outcome)
        /\ \A id \in 1 .. Len(outcome) :
             outcome[id] = "PENDING" <=> \E j \in UsedSlots : events[j].id = id
        /\ \A j, k \in UsedSlots : events[j].id = events[k].id => j = k
        /\ Len(outcome) = stats["events_generated"] /\ Len(outcome) \in Nat
    BY DEF Safe, SlotsExact, TypeOK
  <2>3. \A j \in UsedSlots' : events'[j].id \in 1 .. Len(outcome')
    BY <1>2, <1>4, <2>1, <2>2
  <2>4. \A id \in 1 .. Len(outcome') :
          outcome'[id] = "PENDING" <=> \E j \in UsedSlots' : events'[j].id = id
    <3> SUFFICES ASSUME NEW id \in 1 .. Len(outcome')
                 PROVE  outcome'[id] = "PENDING" <=> \E j \in UsedSlots : events[j].id = id
      BY <1>2, <2>1
    <3>1. CASE id = Len(outcome) + 1
      BY <1>4, <2>2, <3>1
    <3>2. CASE id \in 1 .. Len(outcome)
      <4>1. outcome'[id] = outcome[id]
        BY <1>4, <3>2
      <4>2. outcome[id] = "PENDING" <=> \E j \in UsedSlots : events[j].id = id
        BY <2>2, <3>2
      <4> QED
        BY <4>1, <4>2
    <3> QED
      BY <1>4, <3>1, <3>2
  <2>5. \A j, k \in UsedSlots' : events'[j].id = events'[k].id => j = k
    BY <1>2, <2>1, <2>2
  <2> QED
    BY <1>3, <1>4, <2>2, <2>3, <2>4, <2>5 DEF SlotsExact
<1> QED
  BY <1>5, <1>6, <1>7, <1>8 DEF Safe

\* Whatever becomes of the event, the sender stays in order.
LEMMA PostSafe ==
  ASSUME Safe, NEW now \in Nat, NEW life \in Nat \X Nat, Post(now, life)
  PROVE  Safe'
<1>1. CASE PostExhausted(now, life)
  BY <1>1, LeftAlone DEF PostExhausted, Safe, TypeOK
<1> QED
  BY <1>1, AdmittedSafe, RejectedSafe DEF Post

-----------------------------------------------------------------------------
(* fl_sender_ingest_ack. *)

\* What the sender knows of a stream after an acknowledgement that is possible.
LEMMA LearnedOK ==
  ASSUME TypeOK, NEW now \in Nat, now <= HORIZON,
         NEW f, f.seq \in Nat, f.gen \in Nat,
         NEW s \in Stream, f.stream = s, ~ ImpossibleState(now, f),
         StreamOK(streams[s], now)
  PROVE  LET st == Settled(Learned(streams[s], f), f)
         IN  /\ st \in StreamSlot /\ StreamOK(st, now)
             /\ st.last_acked_seq >= streams[s].last_acked_seq
<1> DEFINE old == streams[s]
           mid == Learned(old, f)
           st  == Settled(mid, f)
<1>1. old \in StreamSlot /\ StreamOK(old, now) /\ old.inflight \in Flight
      /\ TIME_NONE \in Nat /\ HORIZON \in Nat /\ HORIZON < TIME_NONE
  BY ConfigTypes DEF TypeOK, StreamSlot
<1>2. /\ f.seq <= old.max_sent_seq
      /\ old.max_sent_gen # TIME_NONE => f.gen <= old.max_sent_gen
  BY <1>1 DEF ImpossibleState, StreamSlot
<1>3. old.max_sent_seq > 0 => old.max_sent_gen <= HORIZON
  BY <1>1 DEF StreamOK, StreamSlot, Past
<1>4. /\ mid \in StreamSlot /\ mid.inflight = old.inflight
      /\ mid.last_acked_seq = IF f.seq > old.last_acked_seq THEN f.seq ELSE old.last_acked_seq
      /\ mid.last_acked_gen = IF f.seq > old.last_acked_seq THEN f.gen ELSE old.last_acked_gen
      /\ \A x \in {"latest_valid", "latest_seq", "latest_gen", "max_sent_seq", "max_sent_gen",
                   "last_tx", "next_seq"} : mid[x] = old[x]
  <2>1. CASE f.seq > old.last_acked_seq
    <3>1. mid = [old EXCEPT !.last_acked_seq = f.seq, !.last_acked_gen = f.gen]
      BY <2>1 DEF Learned
    <3>2. mid \in StreamSlot
      BY <1>1, <3>1, Zenon DEF StreamSlot
    <3> QED
      BY <1>1, <2>1, <3>1, <3>2 DEF StreamSlot
  <2>2. CASE ~ (f.seq > old.last_acked_seq)
    BY <1>1, <2>2 DEF Learned
  <2> QED
    BY <2>1, <2>2
<1>5. /\ st \in StreamSlot
      /\ st.inflight = IF mid.inflight.valid /\ f.seq >= mid.inflight.seq THEN NoFlight
                       ELSE mid.inflight
      /\ \A x \in {"latest_valid", "latest_seq", "latest_gen", "max_sent_seq", "max_sent_gen",
                   "last_tx", "next_seq", "last_acked_seq", "last_acked_gen"} : st[x] = mid[x]
  <2>1. CASE mid.inflight.valid /\ f.seq >= mid.inflight.seq
    <3>1. st = [mid EXCEPT !.inflight = NoFlight]
      BY <2>1 DEF Settled
    <3>2. NoFlight \in Flight
      BY DEF Flight
    <3>3. st \in StreamSlot
      BY <1>4, <3>1, <3>2, Zenon DEF StreamSlot
    <3> QED
      BY <1>4, <2>1, <3>1, <3>3 DEF StreamSlot
  <2>2. CASE ~ (mid.inflight.valid /\ f.seq >= mid.inflight.seq)
    BY <1>4, <2>2 DEF Settled
  <2> QED
    BY <2>1, <2>2
<1>6. st.inflight.valid => /\ st.inflight = old.inflight /\ old.inflight.valid
                           /\ ~ (f.seq >= old.inflight.seq) /\ old.inflight.seq \in Nat
  <2>1. NoFlight.valid = FALSE
    BY DEF NoFlight
  <2> QED
    BY <1>1, <1>4, <1>5, <2>1, FlightShapes
<1>7. /\ st.latest_valid = old.latest_valid /\ st.latest_seq = old.latest_seq
      /\ st.latest_gen = old.latest_gen /\ st.max_sent_seq = old.max_sent_seq
      /\ st.max_sent_gen = old.max_sent_gen /\ st.last_tx = old.last_tx
      /\ st.next_seq = old.next_seq
      /\ st.last_acked_seq = (IF f.seq > old.last_acked_seq THEN f.seq ELSE old.last_acked_seq)
      /\ st.last_acked_gen = (IF f.seq > old.last_acked_seq THEN f.gen ELSE old.last_acked_gen)
  BY <1>4, <1>5
<1>8. /\ old.last_acked_seq \in Nat /\ old.max_sent_seq \in Nat /\ old.max_sent_gen \in Nat
      /\ old.last_acked_gen \in Nat /\ old.latest_seq \in Nat /\ old.latest_gen \in Nat
  BY <1>1 DEF StreamSlot
<1>9. st.last_acked_seq >= old.last_acked_seq /\ st.last_acked_seq <= st.max_sent_seq
  BY <1>1, <1>2, <1>7, <1>8 DEF StreamOK
<1>10. /\ st.last_acked_seq > 0 => st.last_acked_gen <= st.max_sent_gen
       /\ st.last_acked_seq = 0 => st.last_acked_gen = TIME_NONE
  BY <1>1, <1>2, <1>3, <1>7, <1>8 DEF StreamOK
<1>11. st.inflight.valid => /\ st.last_acked_seq < st.inflight.seq
                            /\ st.inflight.seq = st.max_sent_seq
                            /\ st.inflight.gen = st.max_sent_gen
  BY <1>1, <1>6, <1>7, <1>8 DEF StreamOK
<1>12. StreamOK(st, now)
  <2> HIDE DEF st, mid
  <2> QED
    BY <1>1, <1>7, <1>9, <1>10, <1>11 DEF StreamOK
<1> QED
  BY <1>5, <1>9, <1>12

\* An accepted acknowledgement of a snapshot.
LEMMA AckStateSafe ==
  ASSUME Safe, NEW now \in Nat, NEW f \in AnyFrame, AckStateAccepted(now, f)
  PROVE  Safe' /\ \A s \in Stream : streams'[s].last_acked_seq >= streams[s].last_acked_seq
<1>1. TimeOk(now) /\ Accepts(now) /\ last_now' = now /\ last_now' \in Nat /\ now <= HORIZON
  BY TimeAccepted DEF AckStateAccepted, Safe, Accepts
<1>2. UNCHANGED <<cfg, rr_next, events, outcome, sent>>
  BY DEF AckStateAccepted
<1>3. stats' \in [Counter -> Nat] /\ stats'["events_generated"] = stats["events_generated"]
  <2>1. Count([acks_ok |-> 1])
    BY DEF AckStateAccepted
  <2>2. stats' \in [Counter -> Nat]
    BY <2>1, CountTypes DEF Safe, TypeOK
  <2> QED
    BY <2>1, <2>2 DEF Count, Counter, Safe, TypeOK
<1>4. f.stream \in Stream /\ f.seq \in Nat /\ f.gen \in Nat /\ ~ ImpossibleState(now, f)
  BY AckShapes DEF AckStateAccepted
<1>5. \A s \in Stream : streams[s] \in StreamSlot /\ StreamOK(streams[s], now)
  BY <1>1, StreamKeeps DEF Safe, StreamsOK, TypeOK
<1> DEFINE st == Settled(Learned(streams[f.stream], f), f)
<1>6. /\ st \in StreamSlot /\ StreamOK(st, now)
      /\ st.last_acked_seq >= streams[f.stream].last_acked_seq
  BY <1>1, <1>4, <1>5, LearnedOK DEF Safe
<1>7. streams' = [streams EXCEPT ![f.stream] = st]
  BY DEF AckStateAccepted
<1> HIDE DEF st
<1>8. streams \in [Stream -> StreamSlot]
  BY DEF Safe, TypeOK
<1>9. TypeOK'
  BY <1>1, <1>2, <1>3, <1>6, <1>7, <1>8 DEF Safe, TypeOK
<1>10. StreamsOK'
  BY <1>1, <1>4, <1>5, <1>6, <1>7, <1>8 DEF StreamsOK
<1>11. EventsOK'
  BY <1>1, <1>2, EventKeeps, SlotShapes DEF Safe, EventsOK, TypeOK
<1>12. SlotsExact'
  BY <1>2, <1>3 DEF Safe, SlotsExact, UsedSlots
<1>13. \A s \in Stream : streams'[s].last_acked_seq >= streams[s].last_acked_seq
  <2>1. \A s \in Stream : streams[s].last_acked_seq \in Nat
    BY <1>8 DEF StreamSlot
  <2> QED
    BY <1>6, <1>7, <1>8, <2>1
<1> QED
  BY <1>9, <1>10, <1>11, <1>12, <1>13 DEF Safe

\* An accepted acknowledgement of an event frees its slot and settles its outcome.
LEMMA AckEventSafe ==
  ASSUME Safe, NEW now \in Nat, NEW f \in AnyFrame, AckEventAccepted(now, f)
  PROVE  Safe'
<1>1. TimeOk(now) /\ Accepts(now) /\ last_now' = now /\ last_now' \in Nat
  BY TimeAccepted DEF AckEventAccepted, Safe
<1>2. UNCHANGED <<cfg, rr_next, streams, sent>>
  BY DEF AckEventAccepted
<1>3. stats' \in [Counter -> Nat] /\ stats'["events_generated"] = stats["events_generated"]
  <2>1. Count([events_acked |-> 1, acks_ok |-> 1])
    BY DEF AckEventAccepted
  <2>2. stats \in [Counter -> Nat]
    BY DEF Safe, TypeOK
  <2> QED
    BY <2>1, <2>2 DEF Count, Counter
<1>4. PICK i \in SlotOf(events, f.id) : events' = [events EXCEPT ![i] = Free]
  BY DEF AckEventAccepted
<1>5. i \in Slot /\ events[i].used /\ events[i].id = f.id
  BY <1>4 DEF SlotOf
<1>6. Free \in EventSlot /\ ~ Free.used
  <2>1. Free.used = FALSE
    BY DEF Free
  <2> QED
    BY <2>1 DEF EventSlot
<1>7. events \in [Slot -> EventSlot] /\ outcome \in Seq(Outcome)
  BY DEF Safe, TypeOK
<1>8. f.id \in 1 .. Len(outcome)
  BY <1>5 DEF Safe, SlotsExact, UsedSlots
<1>9. /\ outcome' \in Seq(Outcome) /\ Len(outcome') = Len(outcome)
      /\ outcome'[f.id] = "ACKED"
      /\ \A id \in 1 .. Len(outcome) : id # f.id => outcome'[id] = outcome[id]
  BY <1>7, <1>8 DEF AckEventAccepted, Outcome
<1>10. TypeOK'
  BY <1>1, <1>2, <1>3, <1>4, <1>5, <1>6, <1>7, <1>9 DEF Safe, TypeOK
<1>11. StreamsOK'
  BY <1>1, <1>2, StreamKeeps DEF Safe, StreamsOK, TypeOK
<1>12. \A j \in Slot : events'[j] = IF j = i THEN Free ELSE events[j]
  BY <1>4, <1>7
<1>13. EventsOK'
  BY <1>1, <1>2, <1>6, <1>12, EventKeeps, SlotShapes DEF Safe, EventsOK, TypeOK
<1>14. SlotsExact'
  <2>1. UsedSlots' = UsedSlots \ {i} /\ i \in UsedSlots
    BY <1>5, <1>6, <1>12 DEF UsedSlots
  <2>2. /\ \A j \in UsedSlots : events[j].id \in 1 .. Len(outcome)
        /\ \A id \in 1 .. Len(outcome) :
             outcome[id] = "PENDING" <=> \E j \in UsedSlots : events[j].id = id
        /\ \A j, k \in UsedSlots : events[j].id = events[k].id => j = k
        /\ Len(outcome) = stats["events_generated"]
    BY DEF Safe, SlotsExact
  <2>3. \A j \in UsedSlots' : events'[j] = events[j]
    BY <1>12, <2>1 DEF UsedSlots
  <2>4. \A id \in 1 .. Len(outcome') :
          outcome'[id] = "PENDING" <=> \E j \in UsedSlots' : events'[j].id = id
    <3> SUFFICES ASSUME NEW id \in 1 .. Len(outcome)
                 PROVE  outcome'[id] = "PENDING" <=> \E j \in UsedSlots' : events'[j].id = id
      BY <1>9
    <3>1. CASE id = f.id
      BY <1>5, <1>9, <2>1, <2>2, <2>3, <3>1
    <3>2. CASE id # f.id
      BY <1>5, <1>9, <2>1, <2>2, <2>3, <3>2
    <3> QED
      BY <3>1, <3>2
  <2> QED
    BY <1>3, <1>9, <2>1, <2>2, <2>3, <2>4 DEF SlotsExact
<1> QED
  BY <1>10, <1>11, <1>13, <1>14 DEF Safe

\* Whatever frame comes in, the sender stays in order.
LEMMA IngestAckSafe ==
  ASSUME Safe, NEW now \in Nat, NEW f \in AnyFrame, IngestAck(now, f)
  PROVE  Safe'
<1>0. stats \in [Counter -> Nat]
  BY DEF Safe, TypeOK
<1>1. CASE AckRefused(now, f)
  <2>1. \/ Count([acks_session_mismatch |-> 1]) \/ Count([acks_rejected_frame |-> 1])
    BY <1>1 DEF AckRefused
  <2>2. stats' \in [Counter -> Nat] /\ stats'["events_generated"] = stats["events_generated"]
    BY <1>0, <2>1 DEF Count, Counter
  <2> QED
    BY <1>1, <2>2, LeftAlone DEF AckRefused
<1>2. CASE AckStateImpossible(now, f)
  <2>1. stats' \in [Counter -> Nat] /\ stats'["events_generated"] = stats["events_generated"]
    BY <1>0, <1>2 DEF AckStateImpossible, Count, Counter
  <2> QED
    BY <1>2, <2>1, LeftAlone DEF AckStateImpossible
<1>3. CASE AckEventImpossible(now, f)
  <2>1. stats' \in [Counter -> Nat] /\ stats'["events_generated"] = stats["events_generated"]
    BY <1>0, <1>3 DEF AckEventImpossible, Count, Counter
  <2> QED
    BY <1>3, <2>1, LeftAlone DEF AckEventImpossible
<1>4. CASE AckEventUnmatched(now, f)
  <2>1. stats' \in [Counter -> Nat] /\ stats'["events_generated"] = stats["events_generated"]
    BY <1>0, <1>4 DEF AckEventUnmatched, Count, Counter
  <2> QED
    BY <1>4, <2>1, LeftAlone DEF AckEventUnmatched
<1> QED
  BY <1>1, <1>2, <1>3, <1>4, AckStateSafe, AckEventSafe DEF IngestAck

-----------------------------------------------------------------------------
(* fl_sender_step: housekeeping. *)

\* A slot after housekeeping is free, or holds the same event, with time left.
LEMMA KeptEventsOK ==
  ASSUME Safe, NEW now \in Nat, Accepts(now), NEW i \in Slot
  PROVE  LET k == KeptEvents(now)[i]
         IN  /\ k \in EventSlot
             /\ k.used <=> events[i].used /\ i \notin Expired(now) /\ i \notin Exhausted(now)
             /\ k.used => /\ k \in UsedEvent /\ EventOK(k, cfg, now) /\ now < k.retention
                          /\ k.id = events[i].id /\ k.gen = events[i].gen
                          /\ k.deadline = events[i].deadline /\ k.attempts = events[i].attempts
<1> DEFINE e == events[i]
           k == KeptEvents(now)[i]
<1>1. e \in EventSlot /\ Free \in EventSlot
  BY DEF Safe, TypeOK, EventSlot
<1>2. ~ Free.used
  <2>1. Free.used = FALSE
    BY DEF Free
  <2> QED
    BY <2>1
<1>3. k = IF RetentionOver(now, i) \/ OutOfRetries(now, i) THEN Free
          ELSE IF AckOverdue(now, i) THEN [e EXCEPT !.in_flight = FALSE] ELSE e
  BY DEF KeptEvents
<1>4. /\ i \in Expired(now) <=> RetentionOver(now, i)
      /\ i \in Exhausted(now) <=> OutOfRetries(now, i)
  BY DEF Expired, Exhausted
<1>5. CASE RetentionOver(now, i) \/ OutOfRetries(now, i)
  BY <1>1, <1>2, <1>3, <1>4, <1>5
<1>6. ASSUME ~ RetentionOver(now, i), ~ OutOfRetries(now, i), e.used
      PROVE  /\ k \in UsedEvent /\ EventOK(k, cfg, now) /\ now < k.retention
             /\ k.id = e.id /\ k.gen = e.gen /\ k.deadline = e.deadline /\ k.attempts = e.attempts
  <2>1. e \in UsedEvent /\ EventOK(e, cfg, last_now) /\ EventOK(e, cfg, now)
    <3>1. e \in UsedEvent
      BY <1>1, <1>6, SlotShapes
    <3>2. EventOK(e, cfg, last_now)
      BY <1>6 DEF Safe, EventsOK
    <3> QED
      BY <3>1, <3>2, EventKeeps DEF Safe
  <2>2. now < e.retention
    <3>1. e.retention \in Nat
      BY <2>1 DEF UsedEvent
    <3>2. ~ (now >= e.retention)
      BY <1>6 DEF RetentionOver
    <3> QED
      BY <3>1, <3>2
  <2>3. CASE AckOverdue(now, i)
    <3>1. k = [e EXCEPT !.in_flight = FALSE]
      BY <1>3, <1>6, <2>3
    <3>2. k \in UsedEvent
      BY <2>1, <3>1, Zenon DEF UsedEvent
    <3>3. /\ k.in_flight = FALSE /\ k.id = e.id /\ k.gen = e.gen /\ k.deadline = e.deadline
          /\ k.retention = e.retention /\ k.attempts = e.attempts /\ k.sent_time = e.sent_time
      BY <2>1, <3>1 DEF UsedEvent
    <3>4. e.attempts < cfg.max_attempts /\ e.sent_time + cfg.ack_timeout <= now
      <4>1. /\ e.attempts \in Nat /\ e.sent_time \in Nat
            /\ cfg.max_attempts \in Nat /\ cfg.ack_timeout \in Nat
        BY <2>1, ConfigTypes DEF UsedEvent, Safe
      <4>2. ~ (e.attempts >= cfg.max_attempts)
        BY <1>6, <2>3 DEF OutOfRetries
      <4>3. now - e.sent_time >= cfg.ack_timeout
        BY <2>3 DEF AckOverdue
      <4> QED
        BY <4>1, <4>2, <4>3
    <3>5. EventOK(k, cfg, now)
      <4> HIDE DEF k
      <4> QED
        BY <2>1, <3>3, <3>4 DEF EventOK
    <3> QED
      BY <2>2, <3>2, <3>3, <3>5
  <2>4. CASE ~ AckOverdue(now, i)
    <3>1. k = e
      BY <1>3, <1>6, <2>4
    <3> QED
      BY <2>1, <2>2, <3>1
  <2> QED
    BY <2>3, <2>4
<1>7. CASE ~ RetentionOver(now, i) /\ ~ OutOfRetries(now, i) /\ e.used
  <2>1. k.used
    <3>1. k.used = TRUE
      BY <1>6, <1>7 DEF UsedEvent
    <3> QED
      BY <3>1
  <2>2. k \in EventSlot
    BY <1>6, <1>7 DEF UsedEvent, EventSlot
  <2> QED
    BY <1>4, <1>6, <1>7, <2>1, <2>2
<1>8. CASE ~ e.used
  <2>1. k = e
    BY <1>3, <1>8 DEF RetentionOver, OutOfRetries, AckOverdue
  <2> QED
    BY <1>1, <1>8, <2>1
<1> QED
  BY <1>5, <1>7, <1>8

\* A stream after housekeeping is as it was, its frame in flight given up or not.
LEMMA KeptStreamsOK ==
  ASSUME Safe, NEW now \in Nat, Accepts(now), NEW s \in Stream
  PROVE  LET k == KeptStreams(now)[s]
         IN  /\ k \in StreamSlot /\ StreamOK(k, now)
             /\ \A x \in {"latest_valid", "latest_seq", "latest_gen", "max_sent_seq",
                          "max_sent_gen", "last_tx", "next_seq", "last_acked_seq",
                          "last_acked_gen"} : k[x] = streams[s][x]
<1> DEFINE st == streams[s]
           k == KeptStreams(now)[s]
<1>1. st \in StreamSlot /\ StreamOK(st, now)
  BY StreamKeeps DEF Safe, TypeOK, StreamsOK
<1>2. k = IF StateOverdue(now, s) THEN [st EXCEPT !.inflight = NoFlight] ELSE st
  BY DEF KeptStreams
<1>3. CASE StateOverdue(now, s)
  <2>1. NoFlight \in Flight /\ ~ NoFlight.valid
    <3>1. NoFlight.valid = FALSE
      BY DEF NoFlight
    <3> QED
      BY <3>1 DEF Flight
  <2>2. k = [st EXCEPT !.inflight = NoFlight]
    BY <1>2, <1>3
  <2>3. k \in StreamSlot
    BY <1>1, <2>1, <2>2, Zenon DEF StreamSlot
  <2>4. /\ k.inflight = NoFlight
        /\ k.latest_valid = st.latest_valid /\ k.latest_seq = st.latest_seq
        /\ k.latest_gen = st.latest_gen /\ k.max_sent_seq = st.max_sent_seq
        /\ k.max_sent_gen = st.max_sent_gen /\ k.last_tx = st.last_tx
        /\ k.next_seq = st.next_seq /\ k.last_acked_seq = st.last_acked_seq
        /\ k.last_acked_gen = st.last_acked_gen
    BY <1>1, <2>2 DEF StreamSlot
  <2>5. StreamOK(k, now)
    <3> HIDE DEF k
    <3> QED
      BY <1>1, <2>1, <2>4 DEF StreamOK
  <2> QED
    BY <2>3, <2>4, <2>5
<1>4. CASE ~ StateOverdue(now, s)
  BY <1>1, <1>2, <1>4
<1> QED
  BY <1>3, <1>4

-----------------------------------------------------------------------------
(* The view, and what the policy makes of it. *)

\* The parameters a policy is given.
LEMMA PolicyTypes ==
  ASSUME TypeOK
  PROVE  LET p == cfg.policy
         IN  /\ p.family \in Family /\ p.defer \in BOOLEAN /\ p.late_demote \in BOOLEAN
             /\ p.starvation_override \in BOOLEAN
             /\ p.event_service_ms \in Nat /\ p.slack_guard_ms \in Nat
             /\ p.state_stale_ms \in Nat /\ p.state_starvation_ms \in Nat
<1>1. cfg.policy \in PolicyParams /\ MAX_REL \in Nat
  BY ConfigTypes, SenderAssumption
<1> QED
  BY <1>1 DEF PolicyParams

\* Every view the sender builds is of the shape the policies are proved for: the
\* assumption of module Scheduler is what fl_sender_build_view delivers.
THEOREM StepViewOK ==
  ASSUME Safe, NEW now \in Nat, Accepts(now)
  PROVE  ViewOK(StepView(now))
<1> DEFINE v == StepView(now)
           EV == {i \in Slot : EligibleEvent(now, KeptEvents(now)[i])}
           ST == {s \in Stream : EligibleStream(KeptStreams(now)[s])}
           ev(i) == [id |-> KeptEvents(now)[i].id, deadline |-> KeptEvents(now)[i].deadline,
                     gen |-> KeptEvents(now)[i].gen]
           st(s) == [stream |-> s, latest_gen |-> KeptStreams(now)[s].latest_gen,
                     last_tx |-> KeptStreams(now)[s].last_tx,
                     acked_gen |-> KeptStreams(now)[s].last_acked_gen]
<1>1. /\ v.now = now /\ v.params = cfg.policy /\ v.rr_next = rr_next
      /\ v.n_streams_total = N_STREAMS
      /\ v.events = {ev(i) : i \in EV} /\ v.streams = {st(s) : s \in ST}
  BY DEF StepView, View
<1>2. now < TIME_NONE /\ N_STREAMS \in Nat \ {0} /\ TIME_NONE \in Nat /\ HORIZON \in Nat
  BY ConfigTypes DEF Accepts, Safe
<1>3. rr_next \in 0 .. N_STREAMS - 1
  BY DEF Safe, TypeOK, Stream
<1>4. \A i \in EV : /\ ev(i) \in [id : Nat, deadline : Nat, gen : Nat]
                    /\ ev(i).id = events[i].id /\ i \in UsedSlots
  <2> SUFFICES ASSUME NEW i \in EV
               PROVE  /\ ev(i) \in [id : Nat, deadline : Nat, gen : Nat]
                      /\ ev(i).id = events[i].id /\ i \in UsedSlots
    OBVIOUS
  <2>1. KeptEvents(now)[i].used /\ i \in Slot
    BY DEF EligibleEvent
  <2>2. KeptEvents(now)[i] \in UsedEvent /\ events[i].used /\ KeptEvents(now)[i].id = events[i].id
    BY <2>1, KeptEventsOK
  <2> QED
    BY <2>1, <2>2 DEF UsedEvent, UsedSlots
<1>5. \A i, j \in EV : ev(i).id = ev(j).id => i = j
  BY <1>4 DEF Safe, SlotsExact
<1>6. \A s \in ST : st(s) \in [stream : 0 .. N_STREAMS - 1, latest_gen : Nat,
                               last_tx : 0 .. now \cup {TIME_NONE},
                               acked_gen : 0 .. now \cup {TIME_NONE}]
  <2> SUFFICES ASSUME NEW s \in ST
               PROVE  /\ s \in 0 .. N_STREAMS - 1
                      /\ KeptStreams(now)[s].latest_gen \in Nat
                      /\ KeptStreams(now)[s].last_tx \in 0 .. now \cup {TIME_NONE}
                      /\ KeptStreams(now)[s].last_acked_gen \in 0 .. now \cup {TIME_NONE}
    OBVIOUS
  <2> DEFINE k == KeptStreams(now)[s]
  <2>1. s \in Stream /\ k \in StreamSlot /\ StreamOK(k, now)
    BY KeptStreamsOK
  <2> HIDE DEF k
  <2>2. /\ k.last_tx \in Nat /\ k.last_acked_gen \in Nat /\ k.latest_gen \in Nat
        /\ k.max_sent_gen \in Nat /\ k.last_acked_seq \in Nat /\ k.max_sent_seq \in Nat
        /\ k.latest_seq \in Nat
    BY <2>1 DEF StreamSlot
  <2>3. k.last_tx \in 0 .. now \cup {TIME_NONE}
    BY <1>2, <2>1, <2>2 DEF StreamOK, Past
  <2>4. k.last_acked_gen \in 0 .. now \cup {TIME_NONE}
    BY <1>2, <2>1, <2>2 DEF StreamOK, Past
  <2> QED
    BY <2>1, <2>2, <2>3, <2>4 DEF k, Stream
<1>7. \A r, s \in ST : st(r).stream = st(s).stream => r = s
  OBVIOUS
<1> HIDE DEF v, EV, ST, ev, st
<1>8. \A a, b \in v.events : a.id = b.id => a = b
  BY <1>1, <1>5
<1>9. \A a, b \in v.streams : a.stream = b.stream => a = b
  BY <1>1, <1>7
<1>10. /\ v.events \subseteq [id : Nat, deadline : Nat, gen : Nat]
       /\ v.streams \subseteq [stream : 0 .. N_STREAMS - 1, latest_gen : Nat,
                               last_tx : 0 .. now \cup {TIME_NONE},
                               acked_gen : 0 .. now \cup {TIME_NONE}]
  BY <1>1, <1>4, <1>6
<1>11. ViewOK(v)
  BY <1>1, <1>2, <1>3, <1>8, <1>9, <1>10, PolicyTypes DEF ViewOK, Safe
<1> QED
  BY <1>11 DEF v

\* What fl_policy_select chooses, in terms of the slots and streams: an event that
\* waits and has an attempt left, a stream with news to send, or nothing.
LEMMA ChoiceOK ==
  ASSUME Safe, NEW now \in Nat, Accepts(now), NEW c \in Choices(now)
  PROVE  /\ \/ /\ c.kind = "EVENT"
               /\ \E i \in SlotOf(KeptEvents(now), c.id) : EligibleEvent(now, KeptEvents(now)[i])
            \/ /\ c.kind = "STATE" /\ c.stream \in Stream
               /\ EligibleStream(KeptStreams(now)[c.stream])
            \/ c.kind = "NONE"
         /\ RrNext(StepView(now), c) \in Stream
<1> DEFINE v == StepView(now)
<1>1. ViewOK(v)
  BY StepViewOK
<1>2. Answer(v, c)
  BY <1>1, SelectDetermined DEF Choices
<1>3. /\ v.rr_next = rr_next /\ v.n_streams_total = N_STREAMS
      /\ v.events  = {[id |-> KeptEvents(now)[i].id, deadline |-> KeptEvents(now)[i].deadline,
                       gen |-> KeptEvents(now)[i].gen] :
                        i \in {j \in Slot : EligibleEvent(now, KeptEvents(now)[j])}}
      /\ v.streams = {[stream |-> s, latest_gen |-> KeptStreams(now)[s].latest_gen,
                       last_tx |-> KeptStreams(now)[s].last_tx,
                       acked_gen |-> KeptStreams(now)[s].last_acked_gen] :
                        s \in {r \in Stream : EligibleStream(KeptStreams(now)[r])}}
  BY DEF StepView, View
<1>4. rr_next \in Stream /\ N_STREAMS \in Nat \ {0}
  BY ConfigTypes DEF Safe, TypeOK
<1> HIDE DEF v
<1>5. CASE c.kind = "EVENT" /\ c.reason # "STATE_RR" /\ \E e \in v.events : c.id = e.id
  <2>1. PICK i \in Slot : EligibleEvent(now, KeptEvents(now)[i]) /\ c.id = KeptEvents(now)[i].id
    BY <1>3, <1>5
  <2>2. i \in SlotOf(KeptEvents(now), c.id)
    BY <2>1 DEF EligibleEvent, SlotOf
  <2>3. RrNext(v, c) \in Stream
    BY <1>3, <1>4, <1>5 DEF RrNext
  <2> QED
    BY <1>5, <2>1, <2>2, <2>3 DEF v
<1>6. CASE c.kind = "STATE" /\ \E s \in v.streams : c.stream = s.stream
  <2>1. PICK s \in v.streams : c.stream = s.stream
    BY <1>6
  <2>2. s.stream \in Stream /\ EligibleStream(KeptStreams(now)[s.stream])
    BY <1>3
  <2>3. (c.stream + 1) % N_STREAMS \in Stream
    BY <1>4, <2>1, <2>2, SMT DEF Stream
  <2>4. RrNext(v, c) \in Stream
    BY <1>3, <1>4, <2>3 DEF RrNext
  <2> QED
    BY <1>6, <2>1, <2>2, <2>4 DEF v
<1>7. CASE c = Idle
  <2>1. c.kind = "NONE" /\ c.reason # "STATE_RR"
    BY <1>7 DEF Idle
  <2>2. RrNext(v, c) \in Stream
    BY <1>3, <1>4, <2>1 DEF RrNext
  <2> QED
    BY <2>1, <2>2 DEF v
<1> QED
  BY <1>1, <1>2, <1>5, <1>6, <1>7, AnswerInView

\* The chosen frame passes every test fl_sender_step makes of it.
LEMMA ChoiceSendable ==
  ASSUME Safe, NEW now \in Nat, Accepts(now), NEW c \in Choices(now)
  PROVE  Sendable(KeptEvents(now), KeptStreams(now), c)
<1>1. ASSUME c.kind = "EVENT"
      PROVE  \E i \in SlotOf(KeptEvents(now), c.id) :
               ~ KeptEvents(now)[i].in_flight /\ KeptEvents(now)[i].attempts < cfg.max_attempts
  <2>1. PICK i \in SlotOf(KeptEvents(now), c.id) : EligibleEvent(now, KeptEvents(now)[i])
    BY <1>1, ChoiceOK
  <2>2. i \in Slot /\ KeptEvents(now)[i].used
    BY DEF SlotOf
  <2>3. EventOK(KeptEvents(now)[i], cfg, now)
    BY <2>2, KeptEventsOK
  <2> QED
    BY <2>1, <2>3 DEF EligibleEvent, EventOK
<1>2. c.kind = "STATE" => c.stream \in Stream /\ EligibleStream(KeptStreams(now)[c.stream])
  BY ChoiceOK
<1> QED
  BY <1>1, <1>2 DEF Sendable

-----------------------------------------------------------------------------
(* fl_sender_step. *)

\* The outcomes noted: exactly the events housekeeping dropped are no longer pending.
LEMMA NotedOK ==
  ASSUME Safe, NEW now \in Nat, Accepts(now)
  PROVE  /\ NotedOutcomes(now) \in Seq(Outcome)
         /\ Len(NotedOutcomes(now)) = Len(outcome)
         /\ \A id \in 1 .. Len(outcome) :
              NotedOutcomes(now)[id] = "PENDING" <=>
                \E i \in Slot : KeptEvents(now)[i].used /\ KeptEvents(now)[i].id = id
<1>1. outcome \in Seq(Outcome) /\ Len(outcome) \in Nat
  BY DEF Safe, TypeOK
<1>2. NotedOutcomes(now) \in [1 .. Len(outcome) -> Outcome]
  <2>1. \A id \in 1 .. Len(outcome) : outcome[id] \in Outcome
    BY <1>1
  <2>2. "RETENTION_EXPIRED" \in Outcome /\ "RETRY_EXHAUSTED" \in Outcome
    BY DEF Outcome
  <2> QED
    BY <2>1, <2>2 DEF NotedOutcomes
<1>3. NotedOutcomes(now) \in Seq(Outcome) /\ Len(NotedOutcomes(now)) = Len(outcome)
  BY <1>1, <1>2
<1>4. ASSUME NEW id \in 1 .. Len(outcome)
      PROVE  NotedOutcomes(now)[id] = "PENDING" <=>
                \E i \in Slot : KeptEvents(now)[i].used /\ KeptEvents(now)[i].id = id
  <2>1. /\ Expired(now) \subseteq UsedSlots /\ Exhausted(now) \subseteq UsedSlots
        /\ \A i, j \in UsedSlots : events[i].id = events[j].id => i = j
        /\ outcome[id] = "PENDING" <=> \E i \in UsedSlots : events[i].id = id
    BY DEF Expired, Exhausted, RetentionOver, OutOfRetries, AckOverdue, UsedSlots, Safe, SlotsExact
  <2>2. \A i \in Slot :
          /\ KeptEvents(now)[i].used <=>
               i \in UsedSlots /\ i \notin Expired(now) /\ i \notin Exhausted(now)
          /\ KeptEvents(now)[i].used => KeptEvents(now)[i].id = events[i].id
    BY KeptEventsOK DEF UsedSlots
  <2>3. NotedOutcomes(now)[id] = IF \E i \in Expired(now) : events[i].id = id THEN "RETENTION_EXPIRED"
                                 ELSE IF \E i \in Exhausted(now) : events[i].id = id
                                 THEN "RETRY_EXHAUSTED" ELSE outcome[id]
    BY DEF NotedOutcomes
  <2>4. NotedOutcomes(now)[id] = "PENDING" <=>
          /\ outcome[id] = "PENDING"
          /\ ~ \E i \in Expired(now) \cup Exhausted(now) : events[i].id = id
    BY <2>3
  <2>5. UsedSlots \subseteq Slot
    BY DEF UsedSlots
  <2> QED
    BY <2>1, <2>2, <2>4, <2>5
<1> QED
  BY <1>3, <1>4

\* Slots that are used as housekeeping leaves them, under the outcomes it noted.
LEMMA StepSlotsExact ==
  ASSUME Safe, NEW now \in Nat, Accepts(now), outcome' = NotedOutcomes(now),
         stats'["events_generated"] = stats["events_generated"],
         \A i \in Slot : events'[i].used <=> KeptEvents(now)[i].used,
         \A i \in Slot : KeptEvents(now)[i].used => events'[i].id = KeptEvents(now)[i].id
  PROVE  SlotsExact'
<1>1. Len(outcome') = Len(outcome) /\ Len(outcome') = stats'["events_generated"]
  BY NotedOK DEF Safe, SlotsExact
<1>2. \A i \in UsedSlots' : i \in UsedSlots /\ events'[i].id = events[i].id
  BY KeptEventsOK DEF UsedSlots
<1>3. /\ \A i \in UsedSlots : events[i].id \in 1 .. Len(outcome)
      /\ \A i, j \in UsedSlots : events[i].id = events[j].id => i = j
  BY DEF Safe, SlotsExact
<1>4. \A id \in 1 .. Len(outcome') :
        outcome'[id] = "PENDING" <=> \E i \in UsedSlots' : events'[i].id = id
  BY <1>1, NotedOK DEF UsedSlots
<1> QED
  BY <1>1, <1>2, <1>3, <1>4 DEF SlotsExact

\* The counts of a step are naturals and generate no id.
LEMMA StepCountsOK ==
  ASSUME stats \in [Counter -> Nat], NEW now, NEW c, NEW first,
         Cardinality(Expired(now)) \in Nat, Cardinality(Exhausted(now)) \in Nat,
         Cardinality(TimedOut(now)) \in Nat,
         Count(StepCounts(now, c, first))
  PROVE  stats' \in [Counter -> Nat] /\ stats'["events_generated"] = stats["events_generated"]
  BY DEF Count, StepCounts, Counter

\* Housekeeping is over finitely many slots and streams.
LEMMA SlotsFinite ==
  /\ IsFiniteSet(Slot) /\ IsFiniteSet(Stream)
  /\ \A now : /\ IsFiniteSet(Expired(now)) /\ Cardinality(Expired(now)) \in Nat
              /\ IsFiniteSet(Exhausted(now)) /\ Cardinality(Exhausted(now)) \in Nat
              /\ IsFiniteSet(TimedOut(now)) /\ Cardinality(TimedOut(now)) \in Nat
<1>1. IsFiniteSet(Slot) /\ IsFiniteSet(Stream)
  BY SenderAssumption, FS_Interval DEF Slot, Stream
<1>2. \A now : /\ Expired(now) \in SUBSET Slot /\ Exhausted(now) \in SUBSET Slot
               /\ TimedOut(now) \in SUBSET Stream
  BY DEF Expired, Exhausted, TimedOut
<1> QED
  BY <1>1, <1>2, FS_Subset, FS_CardinalityType

\* An attempt keeps its event within the discipline: the first comes when the event
\* is there, a later one a whole timeout after the one before.
LEMMA AttemptOK ==
  ASSUME TypeOK, NEW now \in Nat, now <= HORIZON,
         NEW k \in UsedEvent, EventOK(k, cfg, now), ~ k.in_flight, now < k.retention
  PROVE  LET e == [k EXCEPT !.attempts = k.attempts + 1, !.in_flight = TRUE, !.sent_time = now]
         IN  e \in UsedEvent /\ EventOK(e, cfg, now) /\ e.id = k.id
<1> DEFINE e == [k EXCEPT !.attempts = k.attempts + 1, !.in_flight = TRUE, !.sent_time = now]
<1>1. /\ k.attempts \in Nat /\ k.attempts + 1 \in Nat /\ k.gen \in Nat /\ k.sent_time \in Nat
      /\ cfg.ack_timeout \in Nat /\ cfg.max_attempts \in Nat
  BY ConfigTypes DEF UsedEvent
<1>2. e \in UsedEvent
  BY <1>1, Zenon DEF UsedEvent
<1>3. /\ e.attempts = k.attempts + 1 /\ e.in_flight = TRUE /\ e.sent_time = now
      /\ e.gen = k.gen /\ e.retention = k.retention /\ e.id = k.id
  BY DEF UsedEvent
<1>4. k.attempts < cfg.max_attempts /\ Past(k.gen, now) /\ k.gen <= now /\ Past(now, now)
  BY DEF EventOK, Past
<1>5. k.gen + k.attempts * cfg.ack_timeout <= now
  <2>1. CASE k.attempts = 0
    BY <1>1, <1>4, <2>1
  <2>2. CASE k.attempts > 0
    <3>1. /\ k.gen + (k.attempts - 1) * cfg.ack_timeout <= k.sent_time
          /\ k.sent_time + cfg.ack_timeout <= now
      BY <2>2 DEF EventOK
    <3>2. (k.attempts - 1) * cfg.ack_timeout + cfg.ack_timeout = k.attempts * cfg.ack_timeout
          /\ (k.attempts - 1) * cfg.ack_timeout \in Int /\ k.attempts * cfg.ack_timeout \in Int
      BY <1>1, SMT
    <3> QED
      BY <1>1, <3>1, <3>2
  <2> QED
    BY <1>1, <2>1, <2>2
<1>6. EventOK(e, cfg, now)
  <2>1. e.gen + (e.attempts - 1) * cfg.ack_timeout <= e.sent_time
    <3>1. e.attempts - 1 = k.attempts
      BY <1>1, <1>3
    <3> QED
      BY <1>3, <1>5, <3>1
  <2>2. e.attempts <= cfg.max_attempts /\ e.attempts > 0
    BY <1>1, <1>3, <1>4
  <2>3. Past(e.gen, now) /\ Past(e.sent_time, now) /\ e.sent_time < e.retention /\ e.in_flight
    BY <1>3, <1>4
  <2> HIDE DEF e
  <2> QED
    BY <2>1, <2>2, <2>3 DEF EventOK
<1> QED
  BY <1>2, <1>3, <1>6

\* An event is transmitted.
LEMMA StepEventSafe ==
  ASSUME Safe, NEW now \in Nat, TimeOk(now), NEW c \in Choices(now), StepWith(now, c),
         StepEvent(now, c)
  PROVE  Safe'
<1>1. Accepts(now) /\ last_now' = now /\ last_now' \in Nat /\ now <= HORIZON
  BY TimeAccepted DEF Safe, Accepts
<1>2. /\ cfg' = cfg /\ sent' = sent /\ rr_next' \in Stream /\ outcome' = NotedOutcomes(now)
      /\ streams' = KeptStreams(now)
  BY <1>1, ChoiceOK DEF StepWith, StepEvent
<1>3. PICK i \in SlotOf(KeptEvents(now), c.id) :
        /\ events' = [KeptEvents(now) EXCEPT ![i].attempts = @ + 1, ![i].in_flight = TRUE,
                                             ![i].sent_time = now]
        /\ Count(StepCounts(now, c, events[i].attempts = 0))
  BY DEF StepEvent
<1>4. stats' \in [Counter -> Nat] /\ stats'["events_generated"] = stats["events_generated"]
  BY <1>3, StepCountsOK, SlotsFinite DEF Safe, TypeOK
<1> DEFINE K == KeptEvents(now)
           e == [K[i] EXCEPT !.attempts = K[i].attempts + 1, !.in_flight = TRUE, !.sent_time = now]
<1>5. /\ \A j \in Slot : /\ K[j] \in EventSlot
                         /\ K[j].used => K[j] \in UsedEvent /\ EventOK(K[j], cfg, now)
                                         /\ now < K[j].retention
      /\ K = [j \in Slot |-> K[j]]
  BY <1>1, KeptEventsOK DEF KeptEvents
<1>6. i \in Slot /\ K[i].used /\ K[i].id = c.id
  BY <1>3 DEF SlotOf
<1>7. ~ K[i].in_flight
  <2>1. PICK j \in SlotOf(K, c.id) : EligibleEvent(now, K[j])
    BY <1>1, ChoiceOK DEF StepEvent
  <2>2. j \in UsedSlots /\ i \in UsedSlots /\ events[j].id = c.id /\ events[i].id = c.id
    BY <1>1, <1>6, <2>1, KeptEventsOK DEF SlotOf, UsedSlots
  <2>3. i = j
    BY <2>2 DEF Safe, SlotsExact
  <2> QED
    BY <2>1, <2>3 DEF EligibleEvent
<1>8. e \in UsedEvent /\ EventOK(e, cfg, now) /\ e.id = K[i].id /\ e \in EventSlot /\ e.used
  <2>1. e \in UsedEvent /\ EventOK(e, cfg, now) /\ e.id = K[i].id
    BY <1>1, <1>5, <1>6, <1>7, AttemptOK DEF Safe
  <2> HIDE DEF e
  <2>2. e.used = TRUE
    BY <2>1 DEF UsedEvent
  <2> QED
    BY <2>1, <2>2 DEF EventSlot, UsedEvent
<1>9. \A j \in Slot : events'[j] = IF j = i THEN e ELSE K[j]
  <2> HIDE DEF K
  <2> QED
    BY <1>3, <1>5, <1>6 DEF K
<1>10. events' = [j \in Slot |-> events'[j]]
  BY <1>3, <1>5
<1> HIDE DEF K, e
<1>11. TypeOK'
  <2>1. events' \in [Slot -> EventSlot]
    BY <1>5, <1>8, <1>9, <1>10
  <2>2. streams' \in [Stream -> StreamSlot]
    BY <1>1, <1>2, KeptStreamsOK DEF KeptStreams
  <2>3. outcome' \in Seq(Outcome)
    BY <1>1, <1>2, NotedOK
  <2> QED
    BY <1>1, <1>2, <1>4, <2>1, <2>2, <2>3 DEF Safe, TypeOK
<1>12. StreamsOK'
  BY <1>1, <1>2, KeptStreamsOK DEF StreamsOK
<1>13. EventsOK'
  BY <1>1, <1>2, <1>5, <1>8, <1>9 DEF EventsOK
<1>14. SlotsExact'
  <2>1. \A j \in Slot : events'[j].used <=> K[j].used
    BY <1>6, <1>8, <1>9
  <2>2. \A j \in Slot : K[j].used => events'[j].id = K[j].id
    BY <1>8, <1>9
  <2> QED
    BY <1>1, <1>2, <1>4, <2>1, <2>2, StepSlotsExact DEF K
<1> QED
  BY <1>11, <1>12, <1>13, <1>14 DEF Safe

\* Housekeeping alone, which an idle step and a state frame share.
LEMMA HousekeepingSafe ==
  ASSUME Safe, NEW now \in Nat, TimeOk(now), cfg' = cfg,
         events' = KeptEvents(now), outcome' = NotedOutcomes(now),
         stats' \in [Counter -> Nat], stats'["events_generated"] = stats["events_generated"]
  PROVE  events' \in [Slot -> EventSlot] /\ outcome' \in Seq(Outcome) /\ EventsOK' /\ SlotsExact'
<1>1. Accepts(now) /\ last_now' = now
  BY TimeAccepted DEF Safe
<1>2. events' \in [Slot -> EventSlot]
  <2>1. \A i \in Slot : KeptEvents(now)[i] \in EventSlot
    BY <1>1, KeptEventsOK
  <2>2. KeptEvents(now) = [i \in Slot |-> KeptEvents(now)[i]]
    BY DEF KeptEvents
  <2> QED
    BY <2>1, <2>2
<1>3. outcome' \in Seq(Outcome)
  BY <1>1, NotedOK
<1>4. EventsOK'
  BY <1>1, KeptEventsOK DEF EventsOK
<1>5. SlotsExact'
  BY <1>1, StepSlotsExact
<1> QED
  BY <1>2, <1>3, <1>4, <1>5

\* A snapshot is transmitted: the newest of its stream, now in flight.
LEMMA SentStreamOK ==
  ASSUME TypeOK, NEW now \in Nat, now <= HORIZON,
         NEW k \in StreamSlot, StreamOK(k, now), EligibleStream(k)
  PROVE  LET st == [k EXCEPT !.inflight = [valid |-> TRUE, seq |-> k.latest_seq,
                                           gen |-> k.latest_gen, sent_time |-> now],
                             !.max_sent_seq = k.latest_seq,
                             !.max_sent_gen = k.latest_gen,
                             !.last_tx = now]
         IN  st \in StreamSlot /\ StreamOK(st, now)
<1> DEFINE fl == [valid |-> TRUE, seq |-> k.latest_seq, gen |-> k.latest_gen, sent_time |-> now]
           st == [k EXCEPT !.inflight = fl, !.max_sent_seq = k.latest_seq,
                           !.max_sent_gen = k.latest_gen, !.last_tx = now]
<1>1. /\ k.latest_seq \in Nat /\ k.latest_gen \in Nat /\ k.max_sent_seq \in Nat
      /\ k.max_sent_gen \in Nat /\ k.last_acked_seq \in Nat /\ k.last_acked_gen \in Nat
  BY DEF StreamSlot
<1>2. fl \in Flight /\ fl.seq = k.latest_seq /\ fl.gen = k.latest_gen
  BY <1>1 DEF Flight
<1>3. st \in StreamSlot
  <2> HIDE DEF fl
  <2> QED
    BY <1>1, <1>2, Zenon DEF StreamSlot
<1>4. /\ st.inflight = fl /\ st.max_sent_seq = k.latest_seq /\ st.max_sent_gen = k.latest_gen
      /\ st.last_tx = now /\ st.latest_valid = k.latest_valid /\ st.latest_seq = k.latest_seq
      /\ st.latest_gen = k.latest_gen /\ st.next_seq = k.next_seq
      /\ st.last_acked_seq = k.last_acked_seq /\ st.last_acked_gen = k.last_acked_gen
  <2> HIDE DEF fl
  <2> QED
    BY DEF StreamSlot
<1>5. k.latest_seq > k.last_acked_seq /\ k.latest_valid /\ Past(now, now)
  BY DEF EligibleStream, Past
<1>6. k.last_acked_seq > 0 => k.last_acked_gen <= k.latest_gen
  BY <1>1 DEF StreamOK
<1>7. StreamOK(st, now)
  <2> HIDE DEF fl, st
  <2> QED
    BY <1>1, <1>2, <1>4, <1>5, <1>6 DEF StreamOK
<1> QED
  BY <1>3, <1>7

\* A snapshot is transmitted.
LEMMA StepStateSafe ==
  ASSUME Safe, NEW now \in Nat, TimeOk(now), NEW c \in Choices(now), StepWith(now, c),
         StepState(now, c)
  PROVE  Safe'
<1>1. Accepts(now) /\ last_now' = now /\ last_now' \in Nat /\ now <= HORIZON
  BY TimeAccepted DEF Safe, Accepts
<1>2. /\ cfg' = cfg /\ rr_next' \in Stream /\ outcome' = NotedOutcomes(now)
      /\ events' = KeptEvents(now)
  BY <1>1, ChoiceOK DEF StepWith, StepState
<1>3. stats' \in [Counter -> Nat] /\ stats'["events_generated"] = stats["events_generated"]
  BY StepCountsOK, SlotsFinite DEF Safe, TypeOK, StepState
<1>4. c.stream \in Stream /\ EligibleStream(KeptStreams(now)[c.stream])
  BY DEF StepState, Sendable
<1> DEFINE K == KeptStreams(now)
           k == K[c.stream]
           st == [k EXCEPT !.inflight = [valid |-> TRUE, seq |-> k.latest_seq,
                                         gen |-> k.latest_gen, sent_time |-> now],
                           !.max_sent_seq = k.latest_seq,
                           !.max_sent_gen = k.latest_gen,
                           !.last_tx = now]
<1>5. \A s \in Stream : K[s] \in StreamSlot /\ StreamOK(K[s], now)
  BY <1>1, KeptStreamsOK
<1>6. K = [s \in Stream |-> K[s]]
  BY DEF KeptStreams
<1>7. st \in StreamSlot /\ StreamOK(st, now)
  <2> HIDE DEF K
  <2> QED
    BY <1>1, <1>4, <1>5, SentStreamOK DEF Safe, K
<1>8. streams' = [K EXCEPT ![c.stream] = st] /\ sent' = sent \cup {<<c.stream, k.latest_seq>>}
  BY DEF StepState
<1>9. k.latest_seq \in Nat
  BY <1>4, <1>5 DEF StreamSlot
<1> HIDE DEF st, k, K
<1>10. streams' \in [Stream -> StreamSlot] /\ StreamsOK'
  BY <1>1, <1>4, <1>5, <1>6, <1>7, <1>8 DEF StreamsOK
<1>11. events' \in [Slot -> EventSlot] /\ outcome' \in Seq(Outcome) /\ EventsOK' /\ SlotsExact'
  BY <1>2, <1>3, HousekeepingSafe
<1>12. sent' \subseteq Stream \X Nat
  BY <1>4, <1>8, <1>9 DEF Safe, TypeOK
<1> QED
  BY <1>1, <1>2, <1>3, <1>10, <1>11, <1>12 DEF Safe, TypeOK

\* A step, whatever it transmits, leaves the sender in order.
LEMMA StepSafe ==
  ASSUME Safe, NEW now \in Nat, TimeOk(now), NEW c \in Choices(now), StepWith(now, c)
  PROVE  Safe'
<1>1. CASE StepIdle(now, c)
  <2>1. Accepts(now) /\ last_now' = now /\ last_now' \in Nat
    BY TimeAccepted DEF Safe
  <2>2. /\ cfg' = cfg /\ rr_next' \in Stream /\ outcome' = NotedOutcomes(now)
        /\ events' = KeptEvents(now) /\ streams' = KeptStreams(now) /\ sent' = sent
    BY <1>1, <2>1, ChoiceOK DEF StepWith, StepIdle
  <2>3. stats' \in [Counter -> Nat] /\ stats'["events_generated"] = stats["events_generated"]
    BY <1>1, StepCountsOK, SlotsFinite DEF Safe, TypeOK, StepIdle
  <2>4. streams' \in [Stream -> StreamSlot] /\ StreamsOK'
    BY <2>1, <2>2, KeptStreamsOK DEF KeptStreams, StreamsOK
  <2>5. events' \in [Slot -> EventSlot] /\ outcome' \in Seq(Outcome) /\ EventsOK' /\ SlotsExact'
    BY <2>2, <2>3, HousekeepingSafe
  <2> QED
    BY <2>1, <2>2, <2>3, <2>4, <2>5 DEF Safe, TypeOK
<1> QED
  BY <1>1, StepEventSafe, StepStateSafe DEF StepWith

-----------------------------------------------------------------------------
(* The theorems. *)

\* What the sender promises before the first call.
LEMMA InitSafe == Init => Safe
<1> SUFFICES ASSUME Init PROVE Safe
  OBVIOUS
<1>1. Free \in EventSlot /\ Free.used = FALSE
  BY DEF EventSlot, Free
<1>2. NoFlight \in Flight /\ NoFlight.valid = FALSE
  BY DEF Flight, NoFlight
<1>3. TIME_NONE \in Nat /\ 0 \in Stream
  BY SenderAssumption, TimeNoneAssumption DEF Stream
<1>4. \A i \in Slot : events[i] = Free
  BY DEF Init
<1>5. TypeOK
  <2>1. streams \in [Stream -> StreamSlot]
    BY <1>2, <1>3 DEF Init, StreamSlot
  <2>2. events \in [Slot -> EventSlot]
    BY <1>1 DEF Init
  <2>3. outcome \in Seq(Outcome) /\ stats \in [Counter -> Nat] /\ sent \subseteq Stream \X Nat
    BY DEF Init
  <2> QED
    BY <1>3, <2>1, <2>2, <2>3 DEF Init, TypeOK
<1>6. StreamsOK
  <2> SUFFICES ASSUME NEW s \in Stream PROVE StreamOK(streams[s], last_now)
    BY DEF StreamsOK
  <2>1. /\ streams[s].latest_seq = 0 /\ streams[s].last_acked_seq = 0
        /\ streams[s].max_sent_seq = 0 /\ streams[s].next_seq = 1
        /\ streams[s].last_acked_gen = TIME_NONE /\ streams[s].last_tx = TIME_NONE
        /\ streams[s].latest_valid = FALSE /\ streams[s].inflight = NoFlight
    BY DEF Init
  <2> QED
    BY <1>2, <2>1 DEF StreamOK
<1>7. EventsOK
  BY <1>1, <1>4 DEF EventsOK
<1>8. SlotsExact
  <2>1. UsedSlots = {}
    BY <1>1, <1>4 DEF UsedSlots
  <2>2. outcome = <<>> /\ stats["events_generated"] = 0
    BY DEF Init, Counter
  <2> QED
    BY <2>1, <2>2 DEF SlotsExact
<1> QED
  BY <1>5, <1>6, <1>7, <1>8 DEF Safe

\* Every call of the interface keeps the sender in order.
LEMMA NextSafe == Safe /\ [Next]_vars => Safe'
<1> SUFFICES ASSUME Safe, [Next]_vars PROVE Safe'
  OBVIOUS
<1>1. ASSUME NEW now \in Times, Calls(now)
      PROVE  Safe'
  <2>1. now \in Nat
    BY SenderAssumption
  <2>2. ASSUME NEW s \in Stream, Publish(now, s) PROVE Safe'
    BY <2>1, <2>2, PublishSafe
  <2>3. ASSUME NEW life \in Lifetimes, Post(now, life) PROVE Safe'
    BY <2>1, <2>3, PostSafe, SenderAssumption
  <2>4. CASE Step(now)
    BY <2>1, <2>4, StepSafe DEF Step
  <2> QED
    BY <1>1, <2>2, <2>3, <2>4 DEF Calls
<1>2. ASSUME NEW now \in Times, NEW f \in Acks, IngestAck(now, f)
      PROVE  Safe'
  BY <1>2, IngestAckSafe, SenderAssumption
<1>3. CASE UNCHANGED vars
  BY <1>3 DEF vars, Safe, TypeOK, StreamsOK, EventsOK, SlotsExact, UsedSlots
<1> QED
  BY <1>1, <1>2, <1>3 DEF Next

\* The inductive invariant holds, so the sender's fields keep their types.
THEOREM SenderSafe == Spec => []Safe
  BY InitSafe, NextSafe, PTL DEF Spec

\* Types of the sender's fields, whatever the host calls and the link hands over.
THEOREM SenderTypes == Spec => []TypeOK
<1>1. Safe => TypeOK
  BY DEF Safe
<1> QED
  BY <1>1, SenderSafe, PTL

\* Attempts, timeouts and retention of an event, at every instant.
THEOREM SenderRetryDiscipline == Spec => []RetryDiscipline
<1>1. Safe => RetryDiscipline
  <2> SUFFICES ASSUME Safe, NEW i \in UsedSlots
               PROVE  EventOK(events[i], cfg, last_now)
    BY DEF RetryDiscipline, EventOK, Past
  <2> QED
    BY DEF Safe, EventsOK, UsedSlots
<1> QED
  BY <1>1, SenderSafe, PTL

\* What the sender knows stays within what it sent, and that within what was
\* published, under any acknowledgement whatever.
THEOREM SenderKnowledgeChain == Spec => []KnowledgeChain
<1>1. Safe => KnowledgeChain
  <2> SUFFICES ASSUME Safe, NEW s \in Stream
               PROVE  LET st == streams[s]
                      IN  /\ st.last_acked_seq <= st.max_sent_seq
                          /\ st.max_sent_seq <= st.latest_seq /\ st.latest_seq + 1 = st.next_seq
                          /\ st.inflight.valid => /\ st.last_acked_seq < st.inflight.seq
                                                  /\ st.inflight.seq = st.max_sent_seq
                                                  /\ st.inflight.gen = st.max_sent_gen
                          /\ st.last_acked_seq > 0 => /\ st.last_acked_gen <= st.max_sent_gen
                                                      /\ st.max_sent_gen <= last_now
                          /\ st.last_acked_seq = 0 => st.last_acked_gen = TIME_NONE
    BY DEF KnowledgeChain
  <2> DEFINE st == streams[s]
  <2>1. st \in StreamSlot /\ StreamOK(st, last_now) /\ last_now \in Nat
    BY DEF Safe, StreamsOK, TypeOK
  <2> HIDE DEF st
  <2>2. /\ st.last_acked_seq \in Nat /\ st.max_sent_seq \in Nat /\ st.latest_seq \in Nat
        /\ st.max_sent_gen \in Nat /\ st.latest_gen \in Nat
    BY <2>1 DEF StreamSlot
  <2>3. st.last_acked_seq > 0 => st.max_sent_gen <= last_now
    BY <2>1, <2>2 DEF StreamOK, Past
  <2> QED
    BY <2>1, <2>3 DEF StreamOK, st
<1> QED
  BY <1>1, SenderSafe, PTL

\* Whatever the policy chooses may be sent: the "bug" returns are dead code.
THEOREM SenderNeverFaults == Spec => []StepNeverFaults
<1>1. Safe => StepNeverFaults
  BY ChoiceSendable, SenderAssumption DEF StepNeverFaults, Accepts
<1> QED
  BY <1>1, SenderSafe, PTL

-----------------------------------------------------------------------------
(* Outcomes are final. *)

\* A call that changes no outcome of an id given out before and no stream.
LEMMA KeepsTrivially ==
  ASSUME Safe, UNCHANGED streams,
         \A id \in 1 .. Len(outcome) : outcome'[id] = outcome[id]
  PROVE  KeepsOutcomes
<1>1. \A s \in Stream : streams[s].last_acked_seq \in Nat
  BY DEF Safe, TypeOK, StreamSlot
<1>2. \A i \in UsedSlots : outcome[events[i].id] = "PENDING" /\ events[i].id \in 1 .. Len(outcome)
  BY DEF Safe, SlotsExact
<1> QED
  BY <1>1, <1>2 DEF KeepsOutcomes

\* What housekeeping notes of an id: nothing of one that is not pending, and
\* exhaustion only of an event that had time left.
LEMMA NotedFinal ==
  ASSUME Safe, NEW now \in Nat, Accepts(now)
  PROVE  /\ \A id \in 1 .. Len(outcome) :
              outcome[id] # "PENDING" => NotedOutcomes(now)[id] = outcome[id]
         /\ \A i \in UsedSlots :
              NotedOutcomes(now)[events[i].id] = "RETRY_EXHAUSTED" => now < events[i].retention
<1>1. /\ Expired(now) \subseteq UsedSlots /\ Exhausted(now) \subseteq UsedSlots
      /\ \A i \in UsedSlots : events[i].id \in 1 .. Len(outcome) /\ outcome[events[i].id] = "PENDING"
  BY DEF Expired, Exhausted, RetentionOver, OutOfRetries, AckOverdue, UsedSlots, Safe, SlotsExact
<1>2. \A id \in 1 .. Len(outcome) :
        NotedOutcomes(now)[id] = IF \E i \in Expired(now) : events[i].id = id THEN "RETENTION_EXPIRED"
                                 ELSE IF \E i \in Exhausted(now) : events[i].id = id
                                 THEN "RETRY_EXHAUSTED" ELSE outcome[id]
  BY DEF NotedOutcomes
<1>3. ASSUME NEW i \in UsedSlots, NotedOutcomes(now)[events[i].id] = "RETRY_EXHAUSTED"
      PROVE  now < events[i].retention
  <2>1. i \notin Expired(now)
    BY <1>1, <1>2, <1>3
  <2>2. events[i] \in UsedEvent
    BY SlotShapes DEF Safe, TypeOK, UsedSlots
  <2>3. events[i].retention \in Nat
    BY <2>2 DEF UsedEvent
  <2> QED
    BY <2>1, <2>3 DEF Expired, RetentionOver, UsedSlots
<1> QED
  BY <1>1, <1>2, <1>3

\* A step notes outcomes and learns nothing of a stream.
LEMMA StepKeeps ==
  ASSUME Safe, NEW now \in Nat, TimeOk(now), NEW c \in Choices(now), StepWith(now, c)
  PROVE  KeepsOutcomes
<1>1. Accepts(now) /\ last_now' = now
  BY TimeAccepted DEF Safe
<1>2. outcome' = NotedOutcomes(now)
  BY DEF StepWith
<1>3. \A s \in Stream : /\ streams[s].last_acked_seq \in Nat
                        /\ KeptStreams(now)[s].last_acked_seq = streams[s].last_acked_seq
                        /\ KeptStreams(now)[s] \in StreamSlot
  BY <1>1, KeptStreamsOK DEF Safe, TypeOK, StreamSlot
<1>4. \A s \in Stream : streams'[s].last_acked_seq = streams[s].last_acked_seq
  <2>1. CASE streams' = KeptStreams(now)
    BY <1>3, <2>1
  <2>2. CASE StepState(now, c)
    <3> DEFINE K == KeptStreams(now)
               k == K[c.stream]
               st == [k EXCEPT !.inflight = [valid |-> TRUE, seq |-> k.latest_seq,
                                             gen |-> k.latest_gen, sent_time |-> now],
                               !.max_sent_seq = k.latest_seq,
                               !.max_sent_gen = k.latest_gen,
                               !.last_tx = now]
    <3>1. streams' = [K EXCEPT ![c.stream] = st] /\ c.stream \in Stream
      BY <2>2 DEF StepState, Sendable
    <3>2. st.last_acked_seq = k.last_acked_seq
      BY <1>3, <3>1 DEF StreamSlot
    <3>3. K = [s \in Stream |-> K[s]]
      BY DEF KeptStreams
    <3>4. \A s \in Stream : K[s].last_acked_seq = streams[s].last_acked_seq
      BY <1>3
    <3> HIDE DEF st, K
    <3> QED
      BY <3>1, <3>2, <3>3, <3>4
  <2> QED
    BY <2>1, <2>2 DEF StepWith, StepEvent, StepIdle
<1> QED
  BY <1>1, <1>2, <1>3, <1>4, NotedFinal DEF KeepsOutcomes

\* So does every acknowledgement: it settles a pending event or moves knowledge on.
LEMMA IngestAckKeeps ==
  ASSUME Safe, NEW now \in Nat, NEW f \in AnyFrame, IngestAck(now, f)
  PROVE  KeepsOutcomes
<1>1. CASE UNCHANGED <<streams, outcome>>
  BY <1>1, KeepsTrivially
<1>2. CASE AckStateAccepted(now, f)
  <2>1. \A s \in Stream : streams'[s].last_acked_seq >= streams[s].last_acked_seq
    BY <1>2, AckStateSafe
  <2>2. outcome' = outcome
    BY <1>2 DEF AckStateAccepted
  <2>3. \A i \in UsedSlots : outcome[events[i].id] = "PENDING" /\ events[i].id \in 1 .. Len(outcome)
    BY DEF Safe, SlotsExact
  <2> QED
    BY <2>1, <2>2, <2>3 DEF KeepsOutcomes
<1>3. CASE AckEventAccepted(now, f)
  <2>1. outcome' = [outcome EXCEPT ![f.id] = "ACKED"] /\ streams' = streams
    BY <1>3 DEF AckEventAccepted
  <2>2. \E i \in SlotOf(events, f.id) : TRUE
    BY <1>3 DEF AckEventAccepted
  <2>3. /\ \A i \in UsedSlots : outcome[events[i].id] = "PENDING" /\ events[i].id \in 1 .. Len(outcome)
        /\ outcome \in Seq(Outcome)
    BY DEF Safe, SlotsExact, TypeOK
  <2>4. outcome[f.id] = "PENDING"
    BY <2>2, <2>3 DEF SlotOf, UsedSlots
  <2>5. \A id \in 1 .. Len(outcome) : outcome'[id] = IF id = f.id THEN "ACKED" ELSE outcome[id]
    BY <2>1, <2>3
  <2>6. \A s \in Stream : streams[s].last_acked_seq \in Nat
    BY DEF Safe, TypeOK, StreamSlot
  <2> QED
    BY <2>1, <2>3, <2>4, <2>5, <2>6 DEF KeepsOutcomes
<1> QED
  BY <1>1, <1>2, <1>3 DEF IngestAck, AckRefused, AckStateImpossible, AckEventImpossible,
                          AckEventUnmatched

\* Terminal outcomes never change, knowledge never regresses, and retention wins
\* over exhaustion.
THEOREM SenderOutcomesFinal == Spec => OutcomesFinal
<1>1. Safe /\ [Next]_vars => [KeepsOutcomes]_vars
  <2> SUFFICES ASSUME Safe, Next PROVE KeepsOutcomes
    OBVIOUS
  <2>1. ASSUME NEW now \in Times, Calls(now)
        PROVE  KeepsOutcomes
    <3>1. now \in Nat
      BY SenderAssumption
    <3>2. ASSUME NEW s \in Stream, PublishState(now, s) PROVE KeepsOutcomes
      <4>1. \A r \in Stream : streams'[r].last_acked_seq = streams[r].last_acked_seq
        BY <3>2 DEF PublishState, Safe, TypeOK, StreamSlot
      <4>2. /\ \A r \in Stream : streams[r].last_acked_seq \in Nat
            /\ outcome' = outcome
            /\ \A i \in UsedSlots : outcome[events[i].id] = "PENDING"
        BY <3>2 DEF PublishState, Safe, TypeOK, StreamSlot, SlotsExact
      <4> QED
        BY <4>1, <4>2 DEF KeepsOutcomes
    <3>3. ASSUME NEW s \in Stream, PublishExhausted(now, s) PROVE KeepsOutcomes
      BY <3>3, KeepsTrivially DEF PublishExhausted
    <3>4. ASSUME NEW life \in Lifetimes, Post(now, life) PROVE KeepsOutcomes
      <4>1. streams' = streams
        BY <3>4 DEF Post, PostAdmitted, PostRejected, PostExhausted
      <4>2. outcome' = outcome \/ \E o \in Outcome : outcome' = Append(outcome, o)
        BY <3>4 DEF Post, PostAdmitted, PostRejected, PostExhausted, Outcome
      <4>3. \A id \in 1 .. Len(outcome) : outcome'[id] = outcome[id]
        BY <4>2, OutcomeAppended DEF Safe, TypeOK
      <4> QED
        BY <4>1, <4>3, KeepsTrivially
    <3>5. CASE Step(now)
      BY <3>1, <3>5, StepKeeps DEF Step
    <3> QED
      BY <2>1, <3>2, <3>3, <3>4, <3>5 DEF Calls, Publish
  <2>2. ASSUME NEW now \in Times, NEW f \in Acks, IngestAck(now, f)
        PROVE  KeepsOutcomes
    BY <2>2, IngestAckKeeps, SenderAssumption
  <2> QED
    BY <2>1, <2>2 DEF Next
<1> QED
  BY <1>1, SenderSafe, PTL DEF Spec, OutcomesFinal

-----------------------------------------------------------------------------
(* The ledger. *)

\* The ids reported with outcome o.
Ended(o) == {id \in 1 .. Len(outcome) : outcome[id] = o}

\* The part of LedgerExact that is about outcomes and their counters.
EndsExact ==
  /\ Cardinality(Ended("REJECTED_FULL")) = stats["events_rejected_full"]
  /\ Cardinality(Ended("ACKED")) = stats["events_acked"]
  /\ Cardinality(Ended("RETRY_EXHAUSTED")) = stats["events_retry_exhausted"]
  /\ Cardinality(Ended("RETENTION_EXPIRED")) = stats["events_retention_expired"]
  /\ stats["events_admitted"] + stats["events_rejected_full"] = Len(outcome)

\* The streams whose newest snapshot was never sent.
Unsent == {s \in Stream : streams[s].latest_seq > streams[s].max_sent_seq}

\* The part of LedgerExact that is about snapshots.
PublishedExact ==
  stats["state_published"] = stats["state_superseded"] + Cardinality(sent) + Cardinality(Unsent)

\* The history of transmissions agrees with the largest number sent of each
\* stream; without it PublishedExact is not inductive.
SentOK ==
  /\ IsFiniteSet(sent)
  /\ \A s \in Stream, q \in Nat : <<s, q>> \in sent => q <= streams[s].max_sent_seq
  /\ \A s \in Stream : streams[s].max_sent_seq > 0 => <<s, streams[s].max_sent_seq>> \in sent

Ledger == EndsExact /\ PublishedExact /\ SentOK

\* The counters of outcomes, and of snapshots.
EndCounter == {"events_rejected_full", "events_acked", "events_retry_exhausted",
               "events_retention_expired", "events_admitted"}
StateCounter == {"state_published", "state_superseded"}

\* No outcome reported, none counted.
LEMMA EndsKept ==
  ASSUME EndsExact, outcome' = outcome, \A k \in EndCounter : stats'[k] = stats[k]
  PROVE  EndsExact'
  BY DEF EndsExact, Ended, EndCounter

\* Nothing published, sent or superseded, nothing counted.
LEMMA PublishedKept ==
  ASSUME PublishedExact, SentOK, sent' = sent,
         \A s \in Stream : /\ streams'[s].latest_seq = streams[s].latest_seq
                           /\ streams'[s].max_sent_seq = streams[s].max_sent_seq,
         \A k \in StateCounter : stats'[k] = stats[k]
  PROVE  PublishedExact' /\ SentOK'
<1>1. Unsent' = Unsent
  BY DEF Unsent
<1>2. PublishedExact'
  BY <1>1 DEF PublishedExact, StateCounter
<1>3. SentOK'
  BY DEF SentOK
<1> QED
  BY <1>2, <1>3

\* The ids of an outcome are finitely many.
LEMMA EndedFinite ==
  ASSUME outcome \in Seq(Outcome), NEW o
  PROVE  IsFiniteSet(Ended(o)) /\ Cardinality(Ended(o)) \in Nat
<1>1. Len(outcome) \in Int
  OBVIOUS
<1>2. IsFiniteSet(1 .. Len(outcome))
  BY <1>1, FS_Interval
<1>3. Ended(o) \in SUBSET (1 .. Len(outcome))
  BY DEF Ended
<1> QED
  BY <1>2, <1>3, FS_Subset, FS_CardinalityType

\* Distinct slots hold distinct ids, so there are as many ids as slots.
LEMMA IdsCount ==
  ASSUME Safe, NEW X, X \subseteq UsedSlots
  PROVE  /\ IsFiniteSet({events[i].id : i \in X})
         /\ Cardinality({events[i].id : i \in X}) = Cardinality(X)
         /\ Cardinality(X) \in Nat
<1> DEFINE T == {events[i].id : i \in X}
           g == [i \in X |-> events[i].id]
<1>1. IsFiniteSet(X)
  <2>1. X \in SUBSET Slot
    BY DEF UsedSlots
  <2> QED
    BY <2>1, SlotsFinite, FS_Subset
<1>2. \A i, j \in X : g[i] = g[j] => i = j
  BY DEF Safe, SlotsExact
<1>3. g \in Bijection(X, T)
  BY <1>2 DEF Bijection, Injection, Surjection, IsInjective
<1>4. ExistsBijection(X, T)
  BY <1>3 DEF ExistsBijection
<1> HIDE DEF T
<1>5. IsFiniteSet(T) /\ Cardinality(T) = Cardinality(X) /\ Cardinality(X) \in Nat
  BY <1>1, <1>4, FS_Bijection, FS_CardinalityType
<1> QED
  BY <1>5 DEF T

\* Ids that were pending end in outcome o: the count grows by as many.
LEMMA EndedGrows ==
  ASSUME outcome \in Seq(Outcome), NEW o, NEW D, IsFiniteSet(D),
         D \cap Ended(o) = {}, Ended(o)' = Ended(o) \cup D
  PROVE  Cardinality(Ended(o)') = Cardinality(Ended(o)) + Cardinality(D)
<1>1. IsFiniteSet(Ended(o)) /\ Cardinality(Ended(o)) \in Nat /\ Cardinality(D) \in Nat
  BY EndedFinite, FS_CardinalityType
<1>2. Cardinality(Ended(o) \cup D)
        = Cardinality(Ended(o)) + Cardinality(D) - Cardinality(Ended(o) \cap D)
  BY <1>1, FS_Union
<1>3. Cardinality(Ended(o) \cap D) = 0
  <2>1. Ended(o) \cap D = {}
    OBVIOUS
  <2> QED
    BY <2>1, FS_EmptySet
<1> QED
  BY <1>1, <1>2, <1>3

\* An appended outcome adds one id to the ids that ended so.
LEMMA EndedAppended ==
  ASSUME outcome \in Seq(Outcome), NEW p \in Outcome, outcome' = Append(outcome, p),
         NEW o
  PROVE  /\ o # p => Ended(o)' = Ended(o)
         /\ o = p => /\ Ended(o)' = Ended(o) \cup {Len(outcome) + 1}
                     /\ Cardinality(Ended(o)') = Cardinality(Ended(o)) + 1
<1>1. /\ Len(outcome') = Len(outcome) + 1 /\ Len(outcome) \in Nat
      /\ \A id \in 1 .. Len(outcome) : outcome'[id] = outcome[id]
      /\ outcome'[Len(outcome) + 1] = p
      /\ \A id \in 1 .. Len(outcome') : id \in 1 .. Len(outcome) \/ id = Len(outcome) + 1
  <2>1. Len(outcome) \in Nat
    OBVIOUS
  <2> QED
    BY <2>1, OutcomeAppended
<1>2. /\ \A id \in 1 .. Len(outcome) : id \in 1 .. Len(outcome')
      /\ Len(outcome) + 1 \in 1 .. Len(outcome') /\ Len(outcome) + 1 \notin 1 .. Len(outcome)
  BY <1>1
<1>3. o # p => Ended(o)' = Ended(o)
  BY <1>1, <1>2, Zenon DEF Ended
<1>4. ASSUME o = p
      PROVE  Ended(o)' = Ended(o) \cup {Len(outcome) + 1}
  BY <1>1, <1>2, <1>4, Zenon DEF Ended
<1>5. Len(outcome) + 1 \notin Ended(o) /\ IsFiniteSet(Ended(o))
  BY <1>2, EndedFinite DEF Ended
<1> QED
  BY <1>3, <1>4, <1>5, FS_AddElement

\* An admitted event is counted, and no outcome but PENDING gains an id.
LEMMA AdmittedEnds ==
  ASSUME Safe, Ledger, NEW now \in Nat, NEW life \in Nat \X Nat, PostAdmitted(now, life)
  PROVE  EndsExact'
<1>1. stats \in [Counter -> Nat] /\ outcome \in Seq(Outcome) /\ "PENDING" \in Outcome
      /\ outcome' = Append(outcome, "PENDING")
  BY DEF Safe, TypeOK, Outcome, PostAdmitted
<1>2. Count([events_generated |-> 1, events_admitted |-> 1])
  BY DEF PostAdmitted
<1>3. /\ \A k \in EndCounter \ {"events_admitted"} : stats'[k] = stats[k]
      /\ stats'["events_admitted"] = stats["events_admitted"] + 1
      /\ \A k \in EndCounter : stats[k] \in Nat
  BY <1>1, <1>2 DEF Count, Counter, EndCounter
<1>4. Len(outcome') = Len(outcome) + 1 /\ Len(outcome) \in Nat
  BY <1>1
<1>5. /\ Ended("REJECTED_FULL")' = Ended("REJECTED_FULL")
      /\ Ended("ACKED")' = Ended("ACKED")
      /\ Ended("RETRY_EXHAUSTED")' = Ended("RETRY_EXHAUSTED")
      /\ Ended("RETENTION_EXPIRED")' = Ended("RETENTION_EXPIRED")
  BY <1>1, EndedAppended
<1>6. stats'["events_admitted"] + stats'["events_rejected_full"] = Len(outcome')
  BY <1>3, <1>4 DEF EndsExact, EndCounter, Ledger
<1> QED
  BY <1>3, <1>5, <1>6 DEF EndsExact, EndCounter, Ledger

\* A rejected event is counted with the outcome it is given.
LEMMA RejectedEnds ==
  ASSUME Safe, Ledger, NEW now \in Nat, NEW life \in Nat \X Nat, PostRejected(now, life)
  PROVE  EndsExact'
<1>1. stats \in [Counter -> Nat] /\ outcome \in Seq(Outcome) /\ "REJECTED_FULL" \in Outcome
      /\ outcome' = Append(outcome, "REJECTED_FULL")
  BY DEF Safe, TypeOK, Outcome, PostRejected
<1>2. Count([events_generated |-> 1, events_rejected_full |-> 1])
  BY DEF PostRejected
<1>3. /\ \A k \in EndCounter \ {"events_rejected_full"} : stats'[k] = stats[k]
      /\ stats'["events_rejected_full"] = stats["events_rejected_full"] + 1
      /\ \A k \in EndCounter : stats[k] \in Nat
  BY <1>1, <1>2 DEF Count, Counter, EndCounter
<1>4. Len(outcome') = Len(outcome) + 1 /\ Len(outcome) \in Nat
  BY <1>1
<1>5. /\ Ended("ACKED")' = Ended("ACKED")
      /\ Ended("RETRY_EXHAUSTED")' = Ended("RETRY_EXHAUSTED")
      /\ Ended("RETENTION_EXPIRED")' = Ended("RETENTION_EXPIRED")
  BY <1>1, EndedAppended
<1>6. Cardinality(Ended("REJECTED_FULL")') = Cardinality(Ended("REJECTED_FULL")) + 1
  BY <1>1, EndedAppended
<1>7. stats'["events_admitted"] + stats'["events_rejected_full"] = Len(outcome')
  <2>1. stats["events_admitted"] + stats["events_rejected_full"] = Len(outcome)
    BY DEF EndsExact, Ledger
  <2>2. /\ stats'["events_admitted"] = stats["events_admitted"]
        /\ stats["events_admitted"] \in Nat /\ stats["events_rejected_full"] \in Nat
    BY <1>3 DEF EndCounter
  <2> QED
    BY <1>3, <1>4, <2>1, <2>2
<1>8. Cardinality(Ended("REJECTED_FULL")') = stats'["events_rejected_full"]
  BY <1>3, <1>6 DEF EndsExact, Ledger
<1> QED
  BY <1>3, <1>5, <1>7, <1>8 DEF EndsExact, EndCounter, Ledger

\* An acknowledged event is counted with the outcome it is given.
LEMMA AckedEnds ==
  ASSUME Safe, Ledger, NEW now \in Nat, NEW f \in AnyFrame, AckEventAccepted(now, f)
  PROVE  EndsExact'
<1>1. stats \in [Counter -> Nat] /\ outcome \in Seq(Outcome)
  BY DEF Safe, TypeOK
<1>2. Count([events_acked |-> 1, acks_ok |-> 1]) /\ outcome' = [outcome EXCEPT ![f.id] = "ACKED"]
  BY DEF AckEventAccepted
<1>3. /\ \A k \in EndCounter \ {"events_acked"} : stats'[k] = stats[k]
      /\ stats'["events_acked"] = stats["events_acked"] + 1
      /\ \A k \in EndCounter : stats[k] \in Nat
  BY <1>1, <1>2 DEF Count, Counter, EndCounter
<1>4. f.id \in 1 .. Len(outcome) /\ outcome[f.id] = "PENDING"
  <2>1. PICK i \in SlotOf(events, f.id) : TRUE
    BY DEF AckEventAccepted
  <2>2. i \in UsedSlots /\ events[i].id = f.id
    BY DEF SlotOf, UsedSlots
  <2> QED
    BY <2>2 DEF Safe, SlotsExact
<1>5. /\ Len(outcome') = Len(outcome)
      /\ \A id \in 1 .. Len(outcome) : outcome'[id] = IF id = f.id THEN "ACKED" ELSE outcome[id]
  BY <1>1, <1>2
<1>6. /\ Ended("REJECTED_FULL")' = Ended("REJECTED_FULL")
      /\ Ended("RETRY_EXHAUSTED")' = Ended("RETRY_EXHAUSTED")
      /\ Ended("RETENTION_EXPIRED")' = Ended("RETENTION_EXPIRED")
      /\ Ended("ACKED")' = Ended("ACKED") \cup {f.id}
  BY <1>4, <1>5 DEF Ended
<1>7. Cardinality(Ended("ACKED")') = Cardinality(Ended("ACKED")) + 1
  <2>1. f.id \notin Ended("ACKED") /\ IsFiniteSet(Ended("ACKED"))
    BY <1>1, <1>4, EndedFinite DEF Ended
  <2> QED
    BY <1>6, <2>1, FS_AddElement
<1> QED
  BY <1>3, <1>5, <1>6, <1>7 DEF EndsExact, EndCounter, Ledger

\* The events a step drops are counted with the outcome they are given.
LEMMA StepEnds ==
  ASSUME Safe, Ledger, NEW now \in Nat, TimeOk(now), NEW c \in Choices(now), StepWith(now, c)
  PROVE  EndsExact'
<1>1. stats \in [Counter -> Nat] /\ outcome \in Seq(Outcome) /\ Accepts(now)
      /\ outcome' = NotedOutcomes(now) /\ Len(outcome') = Len(outcome)
  BY TimeAccepted, NotedOK DEF Safe, TypeOK, StepWith
<1>2. \E first \in BOOLEAN : Count(StepCounts(now, c, first))
  <2>1. ASSUME NEW i \in Slot PROVE (events[i].attempts = 0) \in BOOLEAN
    OBVIOUS
  <2> QED
    BY <2>1 DEF StepWith, StepEvent, StepState, StepIdle, SlotOf
<1>3. /\ stats'["events_rejected_full"] = stats["events_rejected_full"]
      /\ stats'["events_acked"] = stats["events_acked"]
      /\ stats'["events_admitted"] = stats["events_admitted"]
      /\ stats'["events_retention_expired"]
           = stats["events_retention_expired"] + Cardinality(Expired(now))
      /\ stats'["events_retry_exhausted"]
           = stats["events_retry_exhausted"] + Cardinality(Exhausted(now))
  BY <1>1, <1>2 DEF Count, Counter, StepCounts
<1> DEFINE XI == {events[i].id : i \in Expired(now)}
           HI == {events[i].id : i \in Exhausted(now)}
<1>4. /\ Expired(now) \subseteq UsedSlots /\ Exhausted(now) \subseteq UsedSlots
      /\ Expired(now) \cap Exhausted(now) = {}
      /\ \A i \in UsedSlots : events[i].id \in 1 .. Len(outcome) /\ outcome[events[i].id] = "PENDING"
      /\ \A i, j \in UsedSlots : events[i].id = events[j].id => i = j
  BY DEF Expired, Exhausted, RetentionOver, OutOfRetries, AckOverdue, UsedSlots, Safe, SlotsExact
<1>5. \A id \in 1 .. Len(outcome) :
        outcome'[id] = IF id \in XI THEN "RETENTION_EXPIRED"
                       ELSE IF id \in HI THEN "RETRY_EXHAUSTED" ELSE outcome[id]
  BY <1>1 DEF NotedOutcomes
<1>6. /\ XI \cap HI = {} /\ XI \subseteq 1 .. Len(outcome) /\ HI \subseteq 1 .. Len(outcome)
      /\ \A id \in XI \cup HI : outcome[id] = "PENDING"
  BY <1>4
<1>7. /\ IsFiniteSet(XI) /\ Cardinality(XI) = Cardinality(Expired(now))
      /\ IsFiniteSet(HI) /\ Cardinality(HI) = Cardinality(Exhausted(now))
  BY <1>4, IdsCount
<1> HIDE DEF XI, HI
<1>8. /\ Ended("REJECTED_FULL")' = Ended("REJECTED_FULL")
      /\ Ended("ACKED")' = Ended("ACKED")
      /\ Ended("RETENTION_EXPIRED")' = Ended("RETENTION_EXPIRED") \cup XI
      /\ Ended("RETRY_EXHAUSTED")' = Ended("RETRY_EXHAUSTED") \cup HI
  BY <1>1, <1>5, <1>6 DEF Ended
<1>9. XI \cap Ended("RETENTION_EXPIRED") = {} /\ HI \cap Ended("RETRY_EXHAUSTED") = {}
  BY <1>6 DEF Ended
<1>10. /\ Cardinality(Ended("RETENTION_EXPIRED")')
            = Cardinality(Ended("RETENTION_EXPIRED")) + Cardinality(Expired(now))
       /\ Cardinality(Ended("RETRY_EXHAUSTED")')
            = Cardinality(Ended("RETRY_EXHAUSTED")) + Cardinality(Exhausted(now))
  BY <1>1, <1>7, <1>8, <1>9, EndedGrows
<1> QED
  BY <1>1, <1>3, <1>8, <1>10 DEF EndsExact, Ledger

\* The streams with a snapshot waiting are finitely many.
LEMMA UnsentFinite == IsFiniteSet(Unsent) /\ Cardinality(Unsent) \in Nat
<1>1. Unsent \in SUBSET Stream
  BY DEF Unsent
<1> QED
  BY <1>1, SlotsFinite, FS_Subset, FS_CardinalityType

\* A published snapshot is the one waiting; the one it replaces, if it was waiting
\* still, is superseded.
LEMMA PublishedCounts ==
  ASSUME Safe, Ledger, NEW now \in Nat, NEW s \in Stream, PublishState(now, s)
  PROVE  Ledger'
<1>1. stats \in [Counter -> Nat] /\ streams \in [Stream -> StreamSlot]
      /\ StreamOK(streams[s], last_now) /\ streams[s] \in StreamSlot
  BY DEF Safe, TypeOK, StreamsOK
<1>2. /\ Count([state_published |-> 1, state_superseded |-> IF Waiting(s) THEN 1 ELSE 0])
      /\ outcome' = outcome /\ sent' = sent
  BY DEF PublishState
<1>3. /\ \A k \in EndCounter : stats'[k] = stats[k]
      /\ stats'["state_published"] = stats["state_published"] + 1
      /\ stats'["state_superseded"] = stats["state_superseded"] + IF Waiting(s) THEN 1 ELSE 0
      /\ stats["state_published"] \in Nat /\ stats["state_superseded"] \in Nat
  BY <1>1, <1>2 DEF Count, Counter, EndCounter
<1>4. /\ \A r \in Stream : streams'[r].max_sent_seq = streams[r].max_sent_seq
      /\ \A r \in Stream \ {s} : streams'[r].latest_seq = streams[r].latest_seq
      /\ streams'[s].latest_seq = streams[s].next_seq
  BY <1>1 DEF PublishState, StreamSlot
<1>5. /\ streams[s].max_sent_seq \in Nat /\ streams[s].latest_seq \in Nat
      /\ streams[s].next_seq \in Nat /\ streams[s].latest_valid \in BOOLEAN
      /\ streams[s].max_sent_seq <= streams[s].latest_seq
      /\ streams[s].latest_seq + 1 = streams[s].next_seq
      /\ ~ streams[s].latest_valid => streams[s].latest_seq = 0
  BY <1>1 DEF StreamSlot, StreamOK
<1>6. Waiting(s) <=> s \in Unsent
  BY <1>5 DEF Waiting, Unsent
<1>7. Unsent' = Unsent \cup {s}
  BY <1>4, <1>5 DEF Unsent
<1>8. IsFiniteSet(Unsent) /\ Cardinality(Unsent) \in Nat
      /\ IsFiniteSet(sent) /\ Cardinality(sent) \in Nat
  BY UnsentFinite, FS_CardinalityType DEF Ledger, SentOK
<1>9. Cardinality(Unsent') = Cardinality(Unsent) + IF Waiting(s) THEN 0 ELSE 1
  <2>1. CASE Waiting(s)
    BY <1>6, <1>7, <1>8, <2>1
  <2>2. CASE ~ Waiting(s)
    BY <1>6, <1>7, <1>8, <2>2, FS_AddElement
  <2> QED
    BY <2>1, <2>2
<1>10. EndsExact'
  BY <1>2, <1>3, EndsKept DEF Ledger
<1>11. PublishedExact'
  <2>1. stats["state_published"]
          = stats["state_superseded"] + Cardinality(sent) + Cardinality(Unsent)
    BY DEF Ledger, PublishedExact
  <2>2. CASE Waiting(s)
    BY <1>2, <1>3, <1>8, <1>9, <2>1, <2>2 DEF PublishedExact
  <2>3. CASE ~ Waiting(s)
    BY <1>2, <1>3, <1>8, <1>9, <2>1, <2>3 DEF PublishedExact
  <2> QED
    BY <2>2, <2>3
<1>12. SentOK'
  BY <1>2, <1>4 DEF SentOK, Ledger
<1> QED
  BY <1>10, <1>11, <1>12 DEF Ledger

\* A transmitted snapshot is new to the history and leaves the ones waiting, or it
\* was sent before and changes neither.
LEMMA SentCounts ==
  ASSUME Safe, Ledger, NEW now \in Nat, TimeOk(now), NEW c, StepState(now, c)
  PROVE  PublishedExact' /\ SentOK'
<1> DEFINE r == c.stream
           q == streams[r].latest_seq
           m == streams[r].max_sent_seq
           K == KeptStreams(now)
<1>1. /\ stats \in [Counter -> Nat] /\ r \in Stream /\ EligibleStream(K[r])
      /\ \A s \in Stream : streams[s] \in StreamSlot
  BY DEF Safe, TypeOK, StepState, Sendable
<1>2. \A k \in StateCounter : stats'[k] = stats[k] /\ stats[k] \in Nat
  BY <1>1 DEF StepState, Count, Counter, StepCounts, StateCounter
<1>3. \A s \in Stream : /\ K[s].latest_seq = streams[s].latest_seq
                        /\ K[s].max_sent_seq = streams[s].max_sent_seq
                        /\ K[s].last_acked_seq = streams[s].last_acked_seq
  BY <1>1 DEF KeptStreams, StreamSlot
<1>4. /\ q \in Nat /\ m \in Nat /\ m <= q /\ streams[r].last_acked_seq \in Nat
      /\ q > streams[r].last_acked_seq
  <2>1. StreamOK(streams[r], last_now) /\ q > streams[r].last_acked_seq
    BY <1>1, <1>3 DEF Safe, StreamsOK, EligibleStream
  <2>2. q \in Nat /\ m \in Nat /\ streams[r].last_acked_seq \in Nat
    BY <1>1 DEF StreamSlot
  <2> QED
    BY <2>1, <2>2 DEF StreamOK
<1>5. q > 0
  BY <1>4
<1>6. /\ sent' = sent \cup {<<r, q>>}
      /\ \A s \in Stream : streams'[s].latest_seq = streams[s].latest_seq
      /\ \A s \in Stream \ {r} : streams'[s].max_sent_seq = streams[s].max_sent_seq
      /\ streams'[r].max_sent_seq = q
  <2>1. \A s \in Stream : K[s] = IF StateOverdue(now, s)
                                 THEN [streams[s] EXCEPT !.inflight = NoFlight] ELSE streams[s]
    BY DEF KeptStreams
  <2>2. \A s \in Stream \ {r} : streams'[s] = K[s]
    BY DEF StepState, KeptStreams
  <2>3. streams'[r] = [K[r] EXCEPT !.inflight = [valid |-> TRUE, seq |-> K[r].latest_seq,
                                                 gen |-> K[r].latest_gen, sent_time |-> now],
                                   !.max_sent_seq = K[r].latest_seq,
                                   !.max_sent_gen = K[r].latest_gen,
                                   !.last_tx = now]
    BY <1>1 DEF StepState, KeptStreams
  <2>4. streams'[r].latest_seq = K[r].latest_seq /\ streams'[r].max_sent_seq = K[r].latest_seq
    <3>1. K[r] \in StreamSlot
      BY <1>1, KeptStreamsOK, TimeAccepted DEF Safe
    <3> HIDE DEF K
    <3> QED
      BY <2>3, <3>1 DEF StreamSlot
  <2>5. sent' = sent \cup {<<r, K[r].latest_seq>>}
    BY DEF StepState
  <2> HIDE DEF K
  <2> QED
    BY <1>1, <1>3, <2>2, <2>4, <2>5
<1>7. IsFiniteSet(sent) /\ Cardinality(sent) \in Nat
      /\ IsFiniteSet(Unsent) /\ Cardinality(Unsent) \in Nat
      /\ stats["state_published"] = stats["state_superseded"] + Cardinality(sent) + Cardinality(Unsent)
  BY UnsentFinite, FS_CardinalityType DEF Ledger, SentOK, PublishedExact
<1>8. /\ \A s \in Stream, p \in Nat : <<s, p>> \in sent => p <= streams[s].max_sent_seq
      /\ \A s \in Stream : streams[s].max_sent_seq > 0 => <<s, streams[s].max_sent_seq>> \in sent
  BY DEF Ledger, SentOK
<1> HIDE DEF r, q, m, K
<1>9. Unsent' = Unsent \ {r}
  BY <1>1, <1>4, <1>6 DEF Unsent, r, q
<1>10. PublishedExact'
  <2>1. stats'["state_published"] = stats["state_published"]
        /\ stats'["state_superseded"] = stats["state_superseded"]
        /\ stats["state_superseded"] \in Nat
    BY <1>2 DEF StateCounter
  <2>2. CASE q = m
    <3>1. <<r, q>> \in sent /\ r \notin Unsent
      BY <1>1, <1>4, <1>5, <1>8, <2>2 DEF Unsent, q, m
    <3>2. sent' = sent /\ Unsent' = Unsent
      BY <1>6, <1>9, <3>1
    <3> QED
      BY <1>7, <2>1, <3>2 DEF PublishedExact
  <2>3. CASE q > m
    <3>1. <<r, q>> \notin sent /\ r \in Unsent
      BY <1>1, <1>4, <1>8, <2>3 DEF Unsent, q, m
    <3>2. Cardinality(sent') = Cardinality(sent) + 1
      BY <1>6, <1>7, <3>1, FS_AddElement
    <3>3. Cardinality(Unsent') = Cardinality(Unsent) - 1
      BY <1>7, <1>9, <3>1, FS_RemoveElement
    <3> QED
      BY <1>7, <2>1, <3>2, <3>3 DEF PublishedExact
  <2> QED
    BY <1>4, <2>2, <2>3
<1>11. SentOK'
  <2>1. IsFiniteSet(sent')
    BY <1>6, <1>7, FS_AddElement
  <2>2. ASSUME NEW s \in Stream, NEW p \in Nat, <<s, p>> \in sent'
        PROVE  p <= streams'[s].max_sent_seq
    <3>1. CASE s = r
      <4>1. p = q \/ p <= m
        BY <1>6, <1>8, <2>2, <3>1 DEF m
      <4> QED
        BY <1>4, <1>6, <3>1, <4>1
    <3>2. CASE s # r
      BY <1>6, <1>8, <2>2, <3>2
    <3> QED
      BY <3>1, <3>2
  <2>3. ASSUME NEW s \in Stream, streams'[s].max_sent_seq > 0
        PROVE  <<s, streams'[s].max_sent_seq>> \in sent'
    <3>1. CASE s = r
      BY <1>6, <3>1
    <3>2. CASE s # r
      BY <1>6, <1>8, <2>3, <3>2
    <3> QED
      BY <3>1, <3>2
  <2> QED
    BY <2>1, <2>2, <2>3 DEF SentOK
<1> QED
  BY <1>10, <1>11

\* A step that transmits no snapshot leaves the snapshots' counts alone.
LEMMA StepCountsSnapshots ==
  ASSUME Safe, Ledger, NEW now \in Nat, TimeOk(now), NEW c, StepWith(now, c)
  PROVE  PublishedExact' /\ SentOK'
<1>1. CASE StepState(now, c)
  BY <1>1, SentCounts
<1>2. CASE StepEvent(now, c) \/ StepIdle(now, c)
  <2>1. sent' = sent /\ streams' = KeptStreams(now)
    BY <1>2 DEF StepEvent, StepIdle
  <2>2. \A s \in Stream : streams[s] \in StreamSlot
    BY DEF Safe, TypeOK
  <2>3. \A s \in Stream : /\ streams'[s].latest_seq = streams[s].latest_seq
                          /\ streams'[s].max_sent_seq = streams[s].max_sent_seq
    BY <2>1, <2>2 DEF KeptStreams, StreamSlot
  <2>4. \A k \in StateCounter : stats'[k] = stats[k]
    BY <1>2 DEF StepEvent, StepIdle, Count, Counter, StepCounts, StateCounter, Safe, TypeOK
  <2> QED
    BY <2>1, <2>3, <2>4, PublishedKept DEF Ledger
<1> QED
  BY <1>1, <1>2 DEF StepWith

\* An acknowledgement of a snapshot is not counted against it: the snapshots
\* published, superseded, sent and waiting are the same after.
LEMMA IngestLedger ==
  ASSUME Safe, Ledger, NEW now \in Nat, NEW f \in AnyFrame, IngestAck(now, f)
  PROVE  Ledger'
<1>1. stats \in [Counter -> Nat] /\ \A s \in Stream : streams[s] \in StreamSlot
  BY DEF Safe, TypeOK
<1>2. \A k \in StateCounter : stats'[k] = stats[k]
  BY <1>1 DEF IngestAck, AckRefused, AckStateImpossible, AckStateAccepted, AckEventImpossible,
              AckEventUnmatched, AckEventAccepted, Count, Counter, StateCounter
<1>3. sent' = sent
  BY DEF IngestAck, AckRefused, AckStateImpossible, AckStateAccepted, AckEventImpossible,
         AckEventUnmatched, AckEventAccepted
<1>4. CASE AckStateAccepted(now, f)
  <2>1. streams' = [streams EXCEPT ![f.stream] = Settled(Learned(streams[f.stream], f), f)]
        /\ f.stream \in Stream /\ streams \in [Stream -> StreamSlot]
    BY <1>4 DEF AckStateAccepted, Safe, TypeOK
  <2>2. ASSUME NEW st \in StreamSlot
        PROVE  /\ Settled(Learned(st, f), f).latest_seq = st.latest_seq
               /\ Settled(Learned(st, f), f).max_sent_seq = st.max_sent_seq
    BY DEF Settled, Learned, StreamSlot
  <2>3. \A s \in Stream : /\ streams'[s].latest_seq = streams[s].latest_seq
                          /\ streams'[s].max_sent_seq = streams[s].max_sent_seq
    BY <1>1, <2>1, <2>2
  <2>4. outcome' = outcome /\ \A k \in EndCounter : stats'[k] = stats[k]
    BY <1>1, <1>4 DEF AckStateAccepted, Count, Counter, EndCounter
  <2> QED
    BY <1>2, <1>3, <2>3, <2>4, EndsKept, PublishedKept DEF Ledger
<1>5. CASE AckEventAccepted(now, f)
  <2>1. streams' = streams
    BY <1>5 DEF AckEventAccepted
  <2> QED
    BY <1>2, <1>3, <1>5, <2>1, AckedEnds, PublishedKept DEF Ledger
<1>6. CASE AckRefused(now, f) \/ AckStateImpossible(now, f) \/ AckEventImpossible(now, f)
           \/ AckEventUnmatched(now, f)
  <2>1. streams' = streams /\ outcome' = outcome
    BY <1>6 DEF AckRefused, AckStateImpossible, AckEventImpossible, AckEventUnmatched
  <2>2. \A k \in EndCounter : stats'[k] = stats[k]
    BY <1>1, <1>6 DEF AckRefused, AckStateImpossible, AckEventImpossible, AckEventUnmatched,
                      Count, Counter, EndCounter
  <2> QED
    BY <1>2, <1>3, <2>1, <2>2, EndsKept, PublishedKept DEF Ledger
<1> QED
  BY <1>4, <1>5, <1>6 DEF IngestAck

\* Nothing that is counted has changed.
LEMMA LedgerKept ==
  ASSUME Ledger, UNCHANGED <<streams, stats, outcome, sent>>
  PROVE  Ledger'
  BY EndsKept, PublishedKept DEF Ledger

\* The host's calls keep the ledger.
LEMMA CallLedger ==
  ASSUME Safe, Ledger, NEW now \in Nat, Calls(now)
  PROVE  Ledger'
<1>1. ASSUME NEW s \in Stream, Publish(now, s) PROVE Ledger'
  BY <1>1, PublishedCounts, LedgerKept DEF Publish, PublishExhausted
<1>2. ASSUME NEW life \in Lifetimes, Post(now, life) PROVE Ledger'
  <2>1. life \in Nat \X Nat /\ stats \in [Counter -> Nat]
    BY SenderAssumption DEF Safe, TypeOK
  <2>2. CASE PostExhausted(now, life)
    BY <2>2, LedgerKept DEF PostExhausted
  <2>3. CASE PostAdmitted(now, life) \/ PostRejected(now, life)
    <3>1. EndsExact'
      BY <2>1, <2>3, AdmittedEnds, RejectedEnds
    <3>2. /\ streams' = streams /\ sent' = sent
          /\ \A k \in StateCounter : stats'[k] = stats[k]
      BY <2>1, <2>3 DEF PostAdmitted, PostRejected, Count, Counter, StateCounter
    <3> QED
      BY <3>1, <3>2, PublishedKept DEF Ledger
  <2> QED
    BY <1>2, <2>2, <2>3 DEF Post
<1>3. ASSUME NEW c \in Choices(now), TimeOk(now), StepWith(now, c) PROVE Ledger'
  BY <1>3, StepEnds, StepCountsSnapshots DEF Ledger
<1> QED
  BY <1>1, <1>2, <1>3 DEF Calls, Step

\* At power-on nothing is counted and nothing there is to count.
LEMMA InitLedger == Init => Ledger
<1> SUFFICES ASSUME Init PROVE Ledger
  OBVIOUS
<1>1. /\ Len(outcome) = 0 /\ sent = {} /\ \A k \in Counter : stats[k] = 0
      /\ \A s \in Stream : streams[s].latest_seq = 0 /\ streams[s].max_sent_seq = 0
  BY DEF Init
<1>2. \A o : Ended(o) = {}
  <2>1. 1 .. Len(outcome) = {}
    BY <1>1
  <2> QED
    BY <2>1 DEF Ended
<1>3. Unsent = {}
  BY <1>1 DEF Unsent
<1>4. EndsExact
  <2>1. \A o : Cardinality(Ended(o)) = 0
    BY <1>2, FS_EmptySet
  <2>2. \A k \in EndCounter : stats[k] = 0
    BY <1>1 DEF Counter, EndCounter
  <2> QED
    BY <1>1, <2>1, <2>2 DEF EndsExact, EndCounter
<1>5. PublishedExact
  BY <1>1, <1>3, FS_EmptySet DEF PublishedExact, Counter
<1>6. SentOK
  BY <1>1, FS_EmptySet DEF SentOK
<1> QED
  BY <1>4, <1>5, <1>6 DEF Ledger

\* The ledger is kept by every call, in a sender that is in order.
THEOREM SenderLedger == Spec => []Ledger
<1>1. Safe /\ Ledger /\ [Next]_vars => Ledger'
  <2> SUFFICES ASSUME Safe, Ledger, [Next]_vars PROVE Ledger'
    OBVIOUS
  <2>1. ASSUME NEW now \in Times, Calls(now) PROVE Ledger'
    BY <2>1, CallLedger, SenderAssumption
  <2>2. ASSUME NEW now \in Times, NEW f \in Acks, IngestAck(now, f) PROVE Ledger'
    BY <2>2, IngestLedger, SenderAssumption
  <2>3. CASE UNCHANGED vars
    BY <2>3, LedgerKept DEF vars
  <2> QED
    BY <2>1, <2>2, <2>3 DEF Next
<1> QED
  BY <1>1, InitLedger, SenderSafe, PTL DEF Spec

\* Every generated event has exactly one fate and is counted once under it, and
\* every published snapshot was superseded, sent or is the one waiting.
THEOREM SenderLedgerExact == Spec => []LedgerExact
<1>1. Safe /\ Ledger => LedgerExact
  BY DEF Safe, SlotsExact, Ledger, EndsExact, Ended, PublishedExact, Unsent, LedgerExact
<1> QED
  BY <1>1, SenderSafe, SenderLedger, PTL

-----------------------------------------------------------------------------
(* What a call changes, as the sender's surroundings see it. *)

\* Frames sent, and acknowledgements taken.
Transmissions == stats["event_tx"] + stats["state_tx"]
AcksTaken     == stats["acks_ok"] + stats["acks_unmatched"]

\* The pairs of number and generation time in the books of stream s that a call keeps.
KeptLatest(s) == /\ streams'[s].latest_valid = streams[s].latest_valid
                 /\ streams'[s].latest_seq = streams[s].latest_seq
                 /\ streams'[s].latest_gen = streams[s].latest_gen
KeptSent(s)   == /\ streams'[s].max_sent_seq = streams[s].max_sent_seq
                 /\ streams'[s].max_sent_gen = streams[s].max_sent_gen
KeptAcked(s)  == /\ streams'[s].last_acked_seq = streams[s].last_acked_seq
                 /\ streams'[s].last_acked_gen = streams[s].last_acked_gen

\* The newest snapshot is sent: what was published last is now what was sent last.
MarkedSent(s) == /\ streams[s].latest_valid
                 /\ streams'[s].max_sent_seq = streams[s].latest_seq
                 /\ streams'[s].max_sent_gen = streams[s].latest_gen

\* No id given out before turns out to have been rejected, and no used slot lost its
\* attempts: one that has none had none before, or holds a fresh id.
IdsKept ==
  /\ Len(outcome) <= Len(outcome')
  /\ \A id \in 1 .. Len(outcome) : outcome'[id] = "REJECTED_FULL" => outcome[id] = "REJECTED_FULL"
  /\ \A i \in UsedSlots' : events'[i].attempts = 0 =>
       \/ i \in UsedSlots /\ events[i].id = events'[i].id /\ events[i].attempts = 0
       \/ events'[i].id = Len(outcome) + 1

\* The ids reported as acknowledged, all of them before.
NoneAcked ==
  \A id \in 1 .. Len(outcome') :
    outcome'[id] = "ACKED" => id \in 1 .. Len(outcome) /\ outcome[id] = "ACKED"

\* What the surroundings may rely on between calls.
LEMMA SafeFacts ==
  ASSUME Safe
  PROVE  /\ cfg \in Configs /\ last_now \in Nat
         /\ outcome \in Seq(Outcome) /\ Len(outcome) \in Nat
         /\ Len(outcome) = stats["events_generated"]
         /\ \A c \in Counter : stats[c] \in Nat
         /\ \A i \in UsedSlots : events[i].id \in 1 .. Len(outcome) /\ events[i].attempts \in Nat
         /\ \A s \in Stream :
              LET st == streams[s]
              IN  /\ st.latest_valid \in BOOLEAN /\ st.latest_seq \in Nat /\ st.latest_gen \in Nat
                  /\ st.max_sent_seq \in Nat /\ st.max_sent_gen \in Nat
                  /\ st.last_acked_seq \in Nat /\ st.last_acked_gen \in Nat
                  /\ st.last_acked_seq <= st.max_sent_seq /\ st.max_sent_seq <= st.latest_seq
                  /\ ~ st.latest_valid => st.latest_seq = 0
                  /\ st.latest_valid => st.latest_gen <= last_now /\ last_now <= HORIZON
                  /\ st.max_sent_seq > 0 => st.max_sent_gen <= HORIZON
                  /\ st.inflight.valid => /\ st.inflight.seq = st.max_sent_seq
                                          /\ st.inflight.gen = st.max_sent_gen
<1>1. /\ cfg \in Configs /\ last_now \in Nat
      /\ outcome \in Seq(Outcome) /\ Len(outcome) \in Nat
      /\ Len(outcome) = stats["events_generated"]
      /\ \A c \in Counter : stats[c] \in Nat
  BY DEF Safe, TypeOK, SlotsExact
<1>2. \A i \in UsedSlots : events[i].id \in 1 .. Len(outcome) /\ events[i].attempts \in Nat
  BY SlotShapes DEF Safe, TypeOK, SlotsExact, UsedSlots, UsedEvent
<1>3. ASSUME NEW s \in Stream
      PROVE  LET st == streams[s]
              IN  /\ st.latest_valid \in BOOLEAN /\ st.latest_seq \in Nat /\ st.latest_gen \in Nat
                  /\ st.max_sent_seq \in Nat /\ st.max_sent_gen \in Nat
                  /\ st.last_acked_seq \in Nat /\ st.last_acked_gen \in Nat
                  /\ st.last_acked_seq <= st.max_sent_seq /\ st.max_sent_seq <= st.latest_seq
                  /\ ~ st.latest_valid => st.latest_seq = 0
                  /\ st.latest_valid => st.latest_gen <= last_now /\ last_now <= HORIZON
                  /\ st.max_sent_seq > 0 => st.max_sent_gen <= HORIZON
                  /\ st.inflight.valid => /\ st.inflight.seq = st.max_sent_seq
                                          /\ st.inflight.gen = st.max_sent_gen
  <2> DEFINE st == streams[s]
  <2>1. st \in StreamSlot /\ StreamOK(st, last_now) /\ HORIZON \in Nat
    BY ConfigTypes DEF Safe, TypeOK, StreamsOK
  <2> HIDE DEF st
  <2>2. /\ st.latest_valid \in BOOLEAN /\ st.latest_seq \in Nat /\ st.latest_gen \in Nat
        /\ st.max_sent_seq \in Nat /\ st.max_sent_gen \in Nat
        /\ st.last_acked_seq \in Nat /\ st.last_acked_gen \in Nat
    BY <2>1 DEF StreamSlot
  <2>3. /\ st.last_acked_seq <= st.max_sent_seq /\ st.max_sent_seq <= st.latest_seq
        /\ ~ st.latest_valid => st.latest_seq = 0
        /\ st.latest_valid => st.latest_gen <= last_now /\ last_now <= HORIZON
        /\ st.max_sent_seq > 0 => st.max_sent_gen <= st.latest_gen
        /\ st.inflight.valid => /\ st.inflight.seq = st.max_sent_seq
                                /\ st.inflight.gen = st.max_sent_gen
    BY <2>1 DEF StreamOK, Past
  <2>4. st.max_sent_seq > 0 => st.max_sent_gen <= HORIZON
    BY <1>1, <2>1, <2>2, <2>3
  <2> QED
    BY <2>2, <2>3, <2>4 DEF st
<1> QED
  BY <1>1, <1>2, <1>3

\* A publication changes one pair, to one with a larger number and the time of the call.
LEMMA PublishChanges ==
  ASSUME Safe, NEW now \in Nat, NEW s \in Stream, Publish(now, s)
  PROVE  /\ Safe' /\ Accepts(now) /\ IdsKept /\ NoneAcked /\ Len(outcome') = Len(outcome)
         /\ \A r \in Stream : /\ KeptSent(r) /\ KeptAcked(r)
                              /\ \/ KeptLatest(r)
                                 \/ /\ streams'[r].latest_valid
                                    /\ streams'[r].latest_seq = streams[r].latest_seq + 1
                                    /\ streams'[r].latest_gen = now
         /\ Transmissions' = Transmissions /\ AcksTaken' = AcksTaken
         /\ stats'["acks_impossible"] = stats["acks_impossible"]
         /\ stats'["acks_rejected_frame"] = stats["acks_rejected_frame"]
<1>1. Safe'
  BY PublishSafe
<1>2. Accepts(now)
  BY TimeAccepted DEF Publish, PublishState, PublishExhausted, Safe
<1>3. UNCHANGED <<events, outcome>>
  BY DEF Publish, PublishState, PublishExhausted
<1>4. IdsKept /\ NoneAcked
  BY <1>3, SafeFacts DEF IdsKept, NoneAcked, UsedSlots
<1>5. \A k \in {"event_tx", "state_tx", "acks_ok", "acks_unmatched", "acks_impossible",
                "acks_rejected_frame"} : stats'[k] = stats[k]
  BY DEF Publish, PublishState, PublishExhausted, Count, Counter
<1>6. ASSUME NEW r \in Stream
      PROVE  /\ KeptSent(r) /\ KeptAcked(r)
             /\ \/ KeptLatest(r)
                \/ /\ streams'[r].latest_valid
                   /\ streams'[r].latest_seq = streams[r].latest_seq + 1
                   /\ streams'[r].latest_gen = now
  <2>1. streams \in [Stream -> StreamSlot] /\ streams[s].latest_seq + 1 = streams[s].next_seq
    BY DEF Safe, TypeOK, StreamsOK, StreamOK
  <2>2. CASE PublishExhausted(now, s)
    BY <2>2 DEF PublishExhausted, KeptSent, KeptAcked, KeptLatest
  <2>3. CASE PublishState(now, s) /\ r # s
    BY <2>1, <2>3 DEF PublishState, KeptSent, KeptAcked, KeptLatest
  <2>4. CASE PublishState(now, s) /\ r = s
    BY <2>1, <2>4 DEF PublishState, KeptSent, KeptAcked, StreamSlot
  <2> QED
    BY <2>2, <2>3, <2>4 DEF Publish
<1> QED
  BY <1>1, <1>2, <1>3, <1>4, <1>5, <1>6 DEF Transmissions, AcksTaken

\* A posted event changes no stream and no outcome there is; a new one is not ACKED.
LEMMA PostChanges ==
  ASSUME Safe, NEW now \in Nat, NEW life \in Nat \X Nat, Post(now, life)
  PROVE  /\ Safe' /\ Accepts(now) /\ IdsKept /\ NoneAcked
         /\ \A r \in Stream : KeptLatest(r) /\ KeptSent(r) /\ KeptAcked(r)
         /\ Transmissions' = Transmissions /\ AcksTaken' = AcksTaken
         /\ stats'["acks_impossible"] = stats["acks_impossible"]
         /\ stats'["acks_rejected_frame"] = stats["acks_rejected_frame"]
<1>1. Safe'
  BY PostSafe
<1>2. Accepts(now)
  BY TimeAccepted DEF Post, PostAdmitted, PostRejected, PostExhausted, Safe
<1>3. streams' = streams
  BY DEF Post, PostAdmitted, PostRejected, PostExhausted
<1>4. \A k \in {"event_tx", "state_tx", "acks_ok", "acks_unmatched", "acks_impossible",
                "acks_rejected_frame"} : stats'[k] = stats[k]
  BY DEF Post, PostAdmitted, PostRejected, PostExhausted, Count, Counter
<1>5. NoneAcked /\ Len(outcome) <= Len(outcome')
      /\ \A id \in 1 .. Len(outcome) : outcome'[id] = "REJECTED_FULL" => outcome[id] = "REJECTED_FULL"
  <2>1. CASE outcome' = outcome
    BY <2>1, SafeFacts DEF NoneAcked
  <2>2. CASE \E o \in {"PENDING", "REJECTED_FULL"} : outcome' = Append(outcome, o)
    <3>1. PICK o \in {"PENDING", "REJECTED_FULL"} : outcome' = Append(outcome, o)
      BY <2>2
    <3>2. o \in Outcome /\ o # "ACKED"
      BY DEF Outcome
    <3> QED
      BY <3>1, <3>2, OutcomeAppended, SafeFacts DEF NoneAcked
  <2> QED
    BY <2>1, <2>2 DEF Post, PostAdmitted, PostRejected, PostExhausted
<1>6. ASSUME NEW i \in UsedSlots', events'[i].attempts = 0
      PROVE  \/ i \in UsedSlots /\ events[i].id = events'[i].id /\ events[i].attempts = 0
             \/ events'[i].id = Len(outcome) + 1
  <2>1. CASE events' = events
    BY <1>6, <2>1 DEF UsedSlots
  <2>2. CASE PostAdmitted(now, life)
    <3>1. PICK j \in LowestFree : events' = [events EXCEPT ![j] = NewEvent(now, life)]
      BY <2>2 DEF PostAdmitted
    <3>2. events \in [Slot -> EventSlot] /\ i \in Slot /\ NewEvent(now, life).id = Len(outcome) + 1
      BY SafeFacts DEF Safe, TypeOK, UsedSlots, NewEvent, NextId
    <3> QED
      BY <1>6, <3>1, <3>2 DEF UsedSlots
  <2> QED
    BY <2>1, <2>2 DEF Post, PostRejected, PostExhausted
<1> QED
  BY <1>1, <1>2, <1>3, <1>4, <1>5, <1>6
     DEF IdsKept, KeptLatest, KeptSent, KeptAcked, Transmissions, AcksTaken

\* The used slots after a step: the event there was there before, with no more attempts
\* than now, and has retention left.
LEMMA StepSlots ==
  ASSUME Safe, NEW now \in Nat, TimeOk(now), NEW c \in Choices(now), StepWith(now, c),
         NEW i \in UsedSlots'
  PROVE  /\ i \in UsedSlots /\ events'[i].id = events[i].id /\ now < events'[i].retention
         /\ events'[i].attempts = 0 => events[i].attempts = 0
         /\ c.kind = "EVENT" /\ events'[i].id = c.id => events'[i].attempts > 0
<1> DEFINE K == KeptEvents(now)
<1>1. Accepts(now)
  BY TimeAccepted DEF Safe
<1>2. /\ \A j \in Slot : K[j].used =>
           /\ j \in UsedSlots /\ K[j].id = events[j].id /\ K[j].attempts = events[j].attempts
           /\ now < K[j].retention /\ K[j].attempts \in Nat /\ K[j] \in UsedEvent
      /\ K = [j \in Slot |-> K[j]]
  BY <1>1, KeptEventsOK DEF UsedSlots, UsedEvent, KeptEvents
<1>3. i \in Slot /\ events'[i].used
  BY DEF UsedSlots
<1> HIDE DEF K
<1>4. CASE events' = K /\ c.kind # "EVENT"
  BY <1>2, <1>3, <1>4
<1>5. CASE StepEvent(now, c)
  <2>1. PICK j \in SlotOf(K, c.id) :
          events' = [K EXCEPT ![j].attempts = @ + 1, ![j].in_flight = TRUE, ![j].sent_time = now]
    BY <1>5 DEF StepEvent, K
  <2>2. j \in Slot /\ K[j].used /\ K[j].id = c.id
    BY <2>1 DEF SlotOf
  <2> DEFINE e == [K[j] EXCEPT !.attempts = K[j].attempts + 1, !.in_flight = TRUE, !.sent_time = now]
  <2>3. /\ e.attempts = K[j].attempts + 1 /\ e.id = K[j].id /\ e.retention = K[j].retention
        /\ e.used = K[j].used
    BY <1>2, <2>2 DEF UsedEvent
  <2>4. events'[i] = IF i = j THEN e ELSE K[i]
    BY <1>2, <1>3, <2>1, <2>2
  <2> HIDE DEF e
  <2>5. CASE i = j
    BY <1>2, <2>2, <2>3, <2>4, <2>5
  <2>6. CASE i # j
    <3>1. events'[i] = K[i] /\ K[i].used
      BY <1>3, <2>4, <2>6
    <3>2. K[i].id # c.id
      <4>1. i \in UsedSlots /\ j \in UsedSlots /\ K[i].id = events[i].id /\ K[j].id = events[j].id
        BY <1>2, <1>3, <2>2, <3>1
      <4> QED
        BY <2>2, <2>6, <4>1 DEF Safe, SlotsExact
    <3> QED
      BY <1>2, <1>3, <3>1, <3>2
  <2> QED
    BY <2>5, <2>6
<1> QED
  BY <1>4, <1>5 DEF StepWith, StepState, StepIdle, K

\* A step moves nothing but what was sent last, and that only to the newest snapshot.
LEMMA StepChanges ==
  ASSUME Safe, NEW now \in Nat, TimeOk(now), NEW c \in Choices(now), StepWith(now, c)
  PROVE  /\ Safe' /\ IdsKept /\ NoneAcked /\ Len(outcome') = Len(outcome)
         /\ \A r \in Stream : /\ KeptLatest(r) /\ KeptAcked(r)
                              /\ KeptSent(r) \/ (c.kind = "STATE" /\ c.stream = r /\ MarkedSent(r))
         /\ \A i \in UsedSlots' : now < events'[i].retention
         /\ AcksTaken' = AcksTaken
         /\ stats'["acks_impossible"] = stats["acks_impossible"]
         /\ stats'["acks_rejected_frame"] = stats["acks_rejected_frame"]
<1>1. Safe' /\ Accepts(now)
  BY StepSafe, TimeAccepted DEF Safe
<1>2. outcome' = NotedOutcomes(now) /\ Len(outcome') = Len(outcome)
  BY <1>1, NotedOK DEF StepWith
<1>3. \A id \in 1 .. Len(outcome) : outcome'[id] = outcome[id]
                                    \/ outcome'[id] \in {"RETENTION_EXPIRED", "RETRY_EXHAUSTED"}
  BY <1>2 DEF NotedOutcomes
<1>4. IdsKept
  <2>1. \A i \in UsedSlots' : events'[i].attempts = 0 =>
          i \in UsedSlots /\ events[i].id = events'[i].id /\ events[i].attempts = 0
    BY StepSlots
  <2> QED
    BY <1>2, <1>3, <2>1, SafeFacts DEF IdsKept
<1>5. NoneAcked
  BY <1>2, <1>3 DEF NoneAcked
<1>6. \A k \in {"acks_ok", "acks_unmatched", "acks_impossible", "acks_rejected_frame"} :
        stats'[k] = stats[k]
  BY DEF StepWith, StepEvent, StepState, StepIdle, Count, Counter, StepCounts
<1>7. ASSUME NEW r \in Stream
      PROVE  /\ KeptLatest(r) /\ KeptAcked(r)
             /\ KeptSent(r) \/ (c.kind = "STATE" /\ c.stream = r /\ MarkedSent(r))
  <2> DEFINE K == KeptStreams(now)
  <2>1. /\ \A s \in Stream :
             /\ K[s] \in StreamSlot
             /\ K[s].latest_valid = streams[s].latest_valid /\ K[s].latest_seq = streams[s].latest_seq
             /\ K[s].latest_gen = streams[s].latest_gen /\ K[s].max_sent_seq = streams[s].max_sent_seq
             /\ K[s].max_sent_gen = streams[s].max_sent_gen
             /\ K[s].last_acked_seq = streams[s].last_acked_seq
             /\ K[s].last_acked_gen = streams[s].last_acked_gen
        /\ K = [s \in Stream |-> K[s]]
    <3>1. \A s \in Stream :
            /\ K[s] \in StreamSlot
            /\ \A x \in {"latest_valid", "latest_seq", "latest_gen", "max_sent_seq",
                         "max_sent_gen", "last_tx", "next_seq", "last_acked_seq",
                         "last_acked_gen"} : K[s][x] = streams[s][x]
      BY <1>1, KeptStreamsOK
    <3>2. K = [s \in Stream |-> K[s]]
      BY DEF KeptStreams
    <3> HIDE DEF K
    <3> QED
      BY <3>1, <3>2
  <2>2. CASE streams' = K
    BY <2>1, <2>2 DEF KeptLatest, KeptAcked, KeptSent
  <2>3. CASE StepState(now, c)
    <3> DEFINE k == K[c.stream]
               st == [k EXCEPT !.inflight = [valid |-> TRUE, seq |-> k.latest_seq,
                                             gen |-> k.latest_gen, sent_time |-> now],
                               !.max_sent_seq = k.latest_seq,
                               !.max_sent_gen = k.latest_gen,
                               !.last_tx = now]
    <3>1. streams' = [K EXCEPT ![c.stream] = st] /\ c.stream \in Stream /\ c.kind = "STATE"
          /\ EligibleStream(k)
      BY <2>3 DEF StepState, Sendable
    <3>2. /\ st.last_acked_seq = k.last_acked_seq /\ st.last_acked_gen = k.last_acked_gen
          /\ st.latest_valid = k.latest_valid /\ st.latest_seq = k.latest_seq
          /\ st.latest_gen = k.latest_gen
          /\ st.max_sent_seq = k.latest_seq /\ st.max_sent_gen = k.latest_gen
      <4>1. k \in StreamSlot
        BY <2>1, <3>1
      <4> HIDE DEF k
      <4> QED
        BY <4>1 DEF StreamSlot
    <3>3. k.latest_valid
      BY <3>1 DEF EligibleStream
    <3> HIDE DEF st, K
    <3>4. CASE r = c.stream
      BY <2>1, <3>1, <3>2, <3>3, <3>4 DEF KeptLatest, KeptAcked, MarkedSent
    <3>5. CASE r # c.stream
      BY <2>1, <3>1, <3>5 DEF KeptLatest, KeptAcked, KeptSent
    <3> QED
      BY <3>4, <3>5
  <2> QED
    BY <2>2, <2>3 DEF StepWith, StepEvent, StepIdle
<1> QED
  BY <1>1, <1>2, <1>4, <1>5, <1>6, <1>7, StepSlots DEF AcksTaken

\* The frame a step hands to the transport: the newest snapshot of its stream, or a
\* pending event that now has an attempt.  Exactly the frames are counted.
LEMMA StepFrames ==
  ASSUME Safe, NEW now \in Nat, TimeOk(now), NEW c \in Choices(now), StepWith(now, c)
  PROVE  /\ FramesSent(now, c) = {} => Transmissions' = Transmissions
         /\ FramesSent(now, c) # {} => Transmissions' = Transmissions + 1
         /\ \A f \in FramesSent(now, c) :
              \/ /\ f \in StateFrame /\ f.stream \in Stream /\ f.seq >= 1
                 /\ streams[f.stream].latest_valid /\ f.seq = streams[f.stream].latest_seq
                 /\ f.gen = streams[f.stream].latest_gen
                 /\ f.seq = streams'[f.stream].max_sent_seq
              \/ /\ f \in EventFrame /\ f.id \in 1 .. Len(outcome)
                 /\ outcome'[f.id] # "REJECTED_FULL"
                 /\ \A i \in UsedSlots' : events'[i].id = f.id => events'[i].attempts > 0
<1>1. Accepts(now)
  BY TimeAccepted DEF Safe
<1>2. stats["event_tx"] \in Nat /\ stats["state_tx"] \in Nat
  BY SafeFacts DEF Counter
<1>3. CASE c.kind = "EVENT"
  <2>1. StepEvent(now, c)
    BY <1>3 DEF StepWith, StepState, StepIdle
  <2>2. PICK i \in SlotOf(KeptEvents(now), c.id) :
           Count(StepCounts(now, c, events[i].attempts = 0))
    BY <2>1 DEF StepEvent
  <2>3. i \in Slot /\ KeptEvents(now)[i].used /\ KeptEvents(now)[i].id = c.id
    BY <2>2 DEF SlotOf
  <2>4. i \in SlotOf(events, c.id)
    BY <1>1, <2>3, KeptEventsOK DEF SlotOf
  <2>5. Transmissions' = Transmissions + 1
    <3>1. stats'["event_tx"] = stats["event_tx"] + 1 /\ stats'["state_tx"] = stats["state_tx"] + 0
      BY <1>2, <1>3, <2>2 DEF Count, Counter, StepCounts
    <3> QED
      BY <1>2, <3>1 DEF Transmissions
  <2>6. FramesSent(now, c) =
         {[type |-> "EVENT", id |-> c.id, gen |-> events[j].gen, deadline |-> events[j].deadline] :
            j \in SlotOf(events, c.id)}
    BY <1>3 DEF FramesSent
  <2>7. ASSUME NEW f \in FramesSent(now, c)
        PROVE  /\ f \in EventFrame /\ f.id \in 1 .. Len(outcome)
               /\ outcome'[f.id] # "REJECTED_FULL"
               /\ \A j \in UsedSlots' : events'[j].id = f.id => events'[j].attempts > 0
    <3>1. PICK j \in SlotOf(events, c.id) :
            f = [type |-> "EVENT", id |-> c.id, gen |-> events[j].gen, deadline |-> events[j].deadline]
      BY <2>6
    <3>2. j \in UsedSlots /\ events[j] \in UsedEvent /\ events[j].id = c.id
      BY SlotShapes DEF SlotOf, UsedSlots, Safe, TypeOK
    <3>3. f \in EventFrame /\ f.id = c.id
      BY <3>1, <3>2 DEF UsedEvent, EventFrame
    <3>4. f.id \in 1 .. Len(outcome) /\ outcome[f.id] = "PENDING"
      BY <3>2, <3>3 DEF Safe, SlotsExact
    <3>5. outcome'[f.id] # "REJECTED_FULL"
      BY <3>4, StepChanges DEF IdsKept
    <3>6. \A k \in UsedSlots' : events'[k].id = f.id => events'[k].attempts > 0
      BY <1>3, <3>3, StepSlots
    <3> QED
      BY <3>3, <3>4, <3>5, <3>6
  <2> QED
    BY <2>4, <2>5, <2>6, <2>7
<1>4. CASE c.kind = "STATE"
  <2>1. StepState(now, c)
    BY <1>4 DEF StepWith, StepEvent, StepIdle
  <2>2. c.stream \in Stream /\ EligibleStream(KeptStreams(now)[c.stream])
    BY <2>1, <1>4 DEF StepState, Sendable
  <2> DEFINE st == streams[c.stream]
  <2>3. /\ KeptStreams(now)[c.stream].latest_valid = st.latest_valid
        /\ KeptStreams(now)[c.stream].latest_seq = st.latest_seq
        /\ KeptStreams(now)[c.stream].last_acked_seq = st.last_acked_seq
        /\ st.latest_seq \in Nat /\ st.latest_gen \in Nat /\ st.last_acked_seq \in Nat
    BY <1>1, <2>2, KeptStreamsOK, SafeFacts
  <2>4. st.latest_valid /\ st.latest_seq >= 1
    BY <2>2, <2>3 DEF EligibleStream
  <2>5. streams'[c.stream].max_sent_seq = st.latest_seq
    <3>1. streams'[c.stream].max_sent_seq = KeptStreams(now)[c.stream].latest_seq
      BY <1>1, <2>1, <2>2, KeptStreamsOK DEF StepState, KeptStreams, StreamSlot
    <3> QED
      BY <2>3, <3>1
  <2>6. FramesSent(now, c) = {[type |-> "STATE", stream |-> c.stream, seq |-> st.latest_seq,
                               gen |-> st.latest_gen]}
    BY <1>4 DEF FramesSent
  <2>7. Transmissions' = Transmissions + 1
    <3>1. stats'["event_tx"] = stats["event_tx"] + 0 /\ stats'["state_tx"] = stats["state_tx"] + 1
      BY <1>2, <1>4, <2>1 DEF StepState, Count, Counter, StepCounts
    <3> QED
      BY <1>2, <3>1 DEF Transmissions
  <2>8. c.stream \in Nat
    BY <2>2 DEF Stream
  <2> HIDE DEF st
  <2>9. \A f \in FramesSent(now, c) : /\ f \in StateFrame /\ f.stream = c.stream
                                      /\ f.seq = st.latest_seq /\ f.gen = st.latest_gen
    BY <2>3, <2>6, <2>8 DEF StateFrame
  <2> QED
    BY <2>2, <2>4, <2>5, <2>6, <2>7, <2>9 DEF st
<1>5. CASE c.kind = "NONE"
  <2>1. StepIdle(now, c)
    BY <1>5 DEF StepWith, StepEvent, StepState
  <2>2. stats'["event_tx"] = stats["event_tx"] + 0 /\ stats'["state_tx"] = stats["state_tx"] + 0
    BY <1>2, <1>5, <2>1 DEF StepIdle, Count, Counter, StepCounts
  <2>3. FramesSent(now, c) = {}
    BY <1>5 DEF FramesSent
  <2> QED
    BY <1>2, <2>2, <2>3 DEF Transmissions
<1> QED
  BY <1>3, <1>4, <1>5, <1>1, ChoiceOK

\* An acknowledgement teaches the sender at most the pair it carries, and at most that the
\* event it names is acknowledged.
LEMMA IngestAckChanges ==
  ASSUME Safe, NEW now \in Nat, NEW f \in AnyFrame, IngestAck(now, f)
  PROVE  /\ Safe' /\ IdsKept /\ Len(outcome') = Len(outcome)
         /\ \A r \in Stream :
              /\ KeptLatest(r) /\ KeptSent(r)
              /\ \/ KeptAcked(r)
                 \/ /\ f.type = "ACK_STATE" /\ f.stream = r
                    /\ streams'[r].last_acked_seq = f.seq /\ streams'[r].last_acked_gen = f.gen
         /\ \A id \in 1 .. Len(outcome') :
              outcome'[id] = "ACKED" => outcome[id] = "ACKED" \/ (f.type = "ACK_EVENT" /\ f.id = id)
         /\ Transmissions' = Transmissions
<1>1. Safe'
  BY IngestAckSafe
<1>2. \A k \in {"event_tx", "state_tx"} : stats'[k] = stats[k]
  <2>1. stats \in [Counter -> Nat]
    BY DEF Safe, TypeOK
  <2> QED
    BY <2>1 DEF IngestAck, AckRefused, AckStateImpossible, AckStateAccepted, AckEventImpossible,
                AckEventUnmatched, AckEventAccepted, Count, Counter
<1>3. CASE UNCHANGED <<streams, events, outcome>>
  BY <1>1, <1>2, <1>3, SafeFacts
     DEF IdsKept, KeptLatest, KeptSent, KeptAcked, UsedSlots, Transmissions
<1>4. CASE AckStateAccepted(now, f)
  <2>1. /\ streams' = [streams EXCEPT ![f.stream] = Settled(Learned(streams[f.stream], f), f)]
        /\ f.stream \in Stream /\ streams \in [Stream -> StreamSlot]
        /\ UNCHANGED <<events, outcome>> /\ f.type = "ACK_STATE"
    BY <1>4 DEF AckStateAccepted, Safe, TypeOK
  <2>2. ASSUME NEW st \in StreamSlot
        PROVE  LET n == Settled(Learned(st, f), f)
               IN  /\ n.latest_valid = st.latest_valid /\ n.latest_seq = st.latest_seq
                   /\ n.latest_gen = st.latest_gen
                   /\ n.max_sent_seq = st.max_sent_seq /\ n.max_sent_gen = st.max_sent_gen
                   /\ \/ n.last_acked_seq = st.last_acked_seq /\ n.last_acked_gen = st.last_acked_gen
                      \/ n.last_acked_seq = f.seq /\ n.last_acked_gen = f.gen
    BY DEF Settled, Learned, StreamSlot
  <2>3. \A r \in Stream :
          /\ KeptLatest(r) /\ KeptSent(r)
          /\ \/ KeptAcked(r)
             \/ /\ f.stream = r
                /\ streams'[r].last_acked_seq = f.seq /\ streams'[r].last_acked_gen = f.gen
    BY <2>1, <2>2 DEF KeptLatest, KeptSent, KeptAcked
  <2>4. IdsKept
    BY <2>1, SafeFacts DEF IdsKept, UsedSlots
  <2> QED
    BY <1>1, <1>2, <2>1, <2>3, <2>4 DEF Transmissions
<1>5. CASE AckEventAccepted(now, f)
  <2>1. PICK i \in SlotOf(events, f.id) : events' = [events EXCEPT ![i] = Free]
    BY <1>5 DEF AckEventAccepted
  <2>2. /\ streams' = streams /\ outcome' = [outcome EXCEPT ![f.id] = "ACKED"]
        /\ events \in [Slot -> EventSlot] /\ f.type = "ACK_EVENT" /\ outcome \in Seq(Outcome)
    BY <1>5 DEF AckEventAccepted, Safe, TypeOK
  <2>3. i \in UsedSlots /\ f.id \in 1 .. Len(outcome) /\ outcome[f.id] = "PENDING"
    BY <2>1 DEF SlotOf, UsedSlots, Safe, SlotsExact
  <2>4. Len(outcome') = Len(outcome) /\ Len(outcome) \in Nat
        /\ \A id \in 1 .. Len(outcome) : outcome'[id] = IF id = f.id THEN "ACKED" ELSE outcome[id]
    BY <2>2, <2>3
  <2>5. \A j \in UsedSlots' : j \in UsedSlots /\ events'[j] = events[j]
    <3>1. Free.used = FALSE
      BY DEF Free
    <3> QED
      BY <2>1, <2>2, <3>1 DEF UsedSlots
  <2>6. IdsKept
    BY <2>4, <2>5 DEF IdsKept
  <2> QED
    BY <1>1, <1>2, <2>2, <2>4, <2>6 DEF KeptLatest, KeptSent, KeptAcked, Transmissions
<1> QED
  BY <1>3, <1>4, <1>5 DEF IngestAck, AckRefused, AckStateImpossible, AckEventImpossible,
                          AckEventUnmatched

\* An acknowledgement that is neither refused nor impossible is counted as taken.
LEMMA PossibleTaken ==
  ASSUME Safe, NEW now \in Nat, NEW f \in AnyFrame, IngestAck(now, f),
         \/ f.type = "ACK_STATE" /\ f.stream \in Stream /\ ~ ImpossibleState(now, f)
         \/ f.type = "ACK_EVENT" /\ ~ ImpossibleEvent(f)
  PROVE  /\ AcksTaken' = AcksTaken + 1
         /\ stats'["acks_impossible"] = stats["acks_impossible"]
         /\ stats'["acks_rejected_frame"] = stats["acks_rejected_frame"]
<1>1. /\ stats["acks_ok"] \in Nat /\ stats["acks_unmatched"] \in Nat
      /\ stats \in [Counter -> Nat]
  BY DEF Safe, TypeOK, Counter
<1>2. CASE AckStateAccepted(now, f) \/ AckEventAccepted(now, f)
  <2>1. /\ stats'["acks_ok"] = stats["acks_ok"] + 1
        /\ stats'["acks_unmatched"] = stats["acks_unmatched"]
        /\ stats'["acks_impossible"] = stats["acks_impossible"]
        /\ stats'["acks_rejected_frame"] = stats["acks_rejected_frame"]
    BY <1>1, <1>2 DEF AckStateAccepted, AckEventAccepted, Count, Counter
  <2> QED
    BY <1>1, <2>1 DEF AcksTaken
<1>3. CASE AckEventUnmatched(now, f)
  <2>1. /\ stats'["acks_ok"] = stats["acks_ok"]
        /\ stats'["acks_unmatched"] = stats["acks_unmatched"] + 1
        /\ stats'["acks_impossible"] = stats["acks_impossible"]
        /\ stats'["acks_rejected_frame"] = stats["acks_rejected_frame"]
    BY <1>1, <1>3 DEF AckEventUnmatched, Count, Counter
  <2> QED
    BY <1>1, <2>1 DEF AcksTaken
<1>4. ~ AckRefused(now, f) /\ ~ AckStateImpossible(now, f) /\ ~ AckEventImpossible(now, f)
  BY DEF AckRefused, AckStateImpossible, AckEventImpossible
<1> QED
  BY <1>2, <1>3, <1>4 DEF IngestAck

\* What makes an acknowledgement possible, said without the names of the core's helpers.
LEMMA WhatIsPossible ==
  ASSUME Safe, NEW now \in Nat, NEW f \in AnyFrame, IngestAck(now, f)
  PROVE  /\ Accepts(now)
         /\ f.type = "ACK_STATE" /\ f.stream \in Stream
              /\ f.seq >= 1 /\ f.seq <= streams[f.stream].max_sent_seq /\ f.gen <= now
              /\ f.gen <= streams[f.stream].max_sent_gen
              /\ (f.seq = streams[f.stream].last_acked_seq => f.gen = streams[f.stream].last_acked_gen)
              /\ (f.seq = streams[f.stream].max_sent_seq => f.gen = streams[f.stream].max_sent_gen)
            => ~ ImpossibleState(now, f)
         /\ f.type = "ACK_EVENT" /\ f.id \in 1 .. Len(outcome)
              /\ (\A i \in UsedSlots : events[i].id = f.id => events[i].attempts # 0)
            => ~ ImpossibleEvent(f)
<1>1. Accepts(now)
  BY TimeAccepted DEF IngestAck, AckRefused, AckStateImpossible, AckStateAccepted,
                      AckEventImpossible, AckEventUnmatched, AckEventAccepted, Safe
<1>2. ASSUME f.type = "ACK_STATE", f.stream \in Stream,
             f.seq >= 1, f.seq <= streams[f.stream].max_sent_seq, f.gen <= now,
             f.gen <= streams[f.stream].max_sent_gen,
             f.seq = streams[f.stream].last_acked_seq => f.gen = streams[f.stream].last_acked_gen,
             f.seq = streams[f.stream].max_sent_seq => f.gen = streams[f.stream].max_sent_gen
      PROVE  ~ ImpossibleState(now, f)
  <2> DEFINE st == streams[f.stream]
  <2>1. /\ f.seq \in Nat /\ f.gen \in Nat /\ st.max_sent_seq \in Nat /\ st.max_sent_gen \in Nat
        /\ st.inflight.valid => st.inflight.seq = st.max_sent_seq /\ st.inflight.gen = st.max_sent_gen
    BY <1>2, AckShapes, SafeFacts
  <2> QED
    BY <1>2, <2>1 DEF ImpossibleState
<1>3. ASSUME f.type = "ACK_EVENT", f.id \in 1 .. Len(outcome),
             \A i \in UsedSlots : events[i].id = f.id => events[i].attempts # 0
      PROVE  ~ ImpossibleEvent(f)
  <2>1. Len(outcome) = stats["events_generated"] /\ Len(outcome) \in Nat
    BY SafeFacts
  <2> QED
    BY <1>3, <2>1 DEF ImpossibleEvent, SlotOf, UsedSlots
<1> QED
  BY <1>1, <1>2, <1>3

\* No transmission of an event is counted, and the used slots there are hold what they
\* held, or an event that is new and untried.
AttemptsKept ==
  /\ stats'["event_tx"] = stats["event_tx"]
  /\ \A i \in UsedSlots' :
       \/ i \in UsedSlots /\ events'[i].id = events[i].id /\ events'[i].attempts = events[i].attempts
       \/ events'[i].id = Len(outcome) + 1 /\ events'[i].attempts = 0

\* The calls that transmit nothing make no attempt, and give out at most one id.
LEMMA QuietCalls ==
  ASSUME Safe, NEW now \in Nat,
         \/ \E s \in Stream : Publish(now, s)
         \/ \E life \in Nat \X Nat : Post(now, life)
         \/ \E f \in AnyFrame : IngestAck(now, f)
  PROVE  AttemptsKept /\ (Len(outcome') = Len(outcome) \/ Len(outcome') = Len(outcome) + 1)
<1>0. /\ stats \in [Counter -> Nat] /\ events \in [Slot -> EventSlot]
      /\ outcome \in Seq(Outcome) /\ Len(outcome) \in Nat /\ Len(outcome) = stats["events_generated"]
  BY SafeFacts DEF Safe, TypeOK
<1>1. stats'["event_tx"] = stats["event_tx"]
  BY <1>0 DEF Publish, PublishState, PublishExhausted, Post, PostAdmitted, PostRejected,
              PostExhausted, IngestAck, AckRefused, AckStateImpossible, AckStateAccepted,
              AckEventImpossible, AckEventUnmatched, AckEventAccepted, Count, Counter
<1>2. CASE UNCHANGED <<events, outcome>>
  BY <1>1, <1>2, <1>0 DEF AttemptsKept, UsedSlots
<1>3. ASSUME NEW life \in Nat \X Nat, PostAdmitted(now, life)
      PROVE  AttemptsKept /\ Len(outcome') = Len(outcome) + 1
  <2>1. PICK j \in LowestFree : events' = [events EXCEPT ![j] = NewEvent(now, life)]
    BY <1>3 DEF PostAdmitted
  <2>2. NewEvent(now, life).id = Len(outcome) + 1 /\ NewEvent(now, life).attempts = 0
    BY <1>0 DEF NewEvent, NextId
  <2>3. outcome' = Append(outcome, "PENDING")
    BY <1>3 DEF PostAdmitted
  <2>4. \A i \in UsedSlots' : IF i = j THEN events'[i] = NewEvent(now, life)
                                       ELSE i \in UsedSlots /\ events'[i] = events[i]
    BY <1>0, <2>1 DEF UsedSlots
  <2>5. AttemptsKept
    BY <1>1, <2>2, <2>4 DEF AttemptsKept
  <2>6. Len(outcome') = Len(outcome) + 1
    BY <2>3, OutcomeAppended, SafeFacts DEF Outcome
  <2> QED
    BY <2>5, <2>6
<1>4. ASSUME NEW life \in Nat \X Nat, PostRejected(now, life)
      PROVE  AttemptsKept /\ Len(outcome') = Len(outcome) + 1
  <2>1. events' = events /\ outcome' = Append(outcome, "REJECTED_FULL")
    BY <1>4 DEF PostRejected
  <2> QED
    BY <1>0, <1>1, <2>1 DEF AttemptsKept, UsedSlots
<1>5. ASSUME NEW f \in AnyFrame, AckEventAccepted(now, f)
      PROVE  AttemptsKept /\ Len(outcome') = Len(outcome)
  <2>1. PICK i \in SlotOf(events, f.id) : events' = [events EXCEPT ![i] = Free]
    BY <1>5 DEF AckEventAccepted
  <2>2. outcome' = [outcome EXCEPT ![f.id] = "ACKED"] /\ Free.used = FALSE
    BY <1>5 DEF AckEventAccepted, Free
  <2>3. \A j \in UsedSlots' : j \in UsedSlots /\ events'[j] = events[j]
    BY <1>0, <2>1, <2>2 DEF UsedSlots
  <2> QED
    BY <1>0, <1>1, <2>2, <2>3 DEF AttemptsKept
<1> QED
  BY <1>2, <1>3, <1>4, <1>5
     DEF Publish, PublishState, PublishExhausted, Post, PostExhausted, IngestAck, AckRefused,
         AckStateImpossible, AckStateAccepted, AckEventImpossible, AckEventUnmatched

\* A step makes one attempt, at the event it chose, or none.
LEMMA StepAttempts ==
  ASSUME Safe, NEW now \in Nat, TimeOk(now), NEW c \in Choices(now), StepWith(now, c)
  PROVE  /\ now <= HORIZON /\ Len(outcome') = Len(outcome)
         /\ c.kind # "EVENT" => AttemptsKept
         /\ c.kind = "EVENT" =>
              /\ stats'["event_tx"] = stats["event_tx"] + 1
              /\ \E i \in UsedSlots :
                   /\ SlotOf(events, c.id) = {i} /\ events[i].id = c.id
                   /\ \A j \in UsedSlots' :
                        /\ j \in UsedSlots /\ events'[j].id = events[j].id
                        /\ events'[j].attempts = events[j].attempts + (IF j = i THEN 1 ELSE 0)
<1> DEFINE K == KeptEvents(now)
<1>0. /\ Accepts(now) /\ now <= HORIZON /\ stats["event_tx"] \in Nat
      /\ Len(outcome') = Len(outcome)
  BY TimeAccepted, StepChanges DEF Safe, Accepts, TypeOK, Counter
<1>1. /\ \A j \in Slot : K[j].used =>
           /\ j \in UsedSlots /\ K[j].id = events[j].id /\ K[j].attempts = events[j].attempts
           /\ K[j].attempts \in Nat /\ K[j] \in UsedEvent
      /\ K = [j \in Slot |-> K[j]]
  BY <1>0, KeptEventsOK DEF UsedSlots, UsedEvent, KeptEvents
<1> HIDE DEF K
<1>2. CASE StepState(now, c) \/ StepIdle(now, c)
  <2>1. events' = K /\ c.kind # "EVENT" /\ stats'["event_tx"] = stats["event_tx"] + 0
    BY <1>0, <1>2 DEF StepState, StepIdle, K, Count, Counter, StepCounts
  <2>2. \A i \in UsedSlots' : /\ i \in UsedSlots /\ events'[i].id = events[i].id
                              /\ events'[i].attempts = events[i].attempts
    BY <1>1, <2>1 DEF UsedSlots
  <2> QED
    BY <1>0, <2>1, <2>2 DEF AttemptsKept
<1>3. CASE StepEvent(now, c)
  <2>1. PICK i \in SlotOf(K, c.id) :
          /\ events' = [K EXCEPT ![i].attempts = @ + 1, ![i].in_flight = TRUE, ![i].sent_time = now]
          /\ Count(StepCounts(now, c, events[i].attempts = 0))
    BY <1>3 DEF StepEvent, K
  <2>2. i \in Slot /\ K[i].used /\ K[i].id = c.id /\ c.kind = "EVENT"
    BY <1>3, <2>1 DEF SlotOf, StepEvent
  <2>3. i \in UsedSlots /\ events[i].id = c.id
    BY <1>1, <2>2
  <2>4. SlotOf(events, c.id) = {i}
    BY <2>3 DEF SlotOf, UsedSlots, Safe, SlotsExact
  <2>5. stats'["event_tx"] = stats["event_tx"] + 1
    BY <1>0, <2>1, <2>2 DEF Count, Counter, StepCounts
  <2> DEFINE e == [K[i] EXCEPT !.attempts = K[i].attempts + 1, !.in_flight = TRUE, !.sent_time = now]
  <2>6. e.attempts = K[i].attempts + 1 /\ e.id = K[i].id /\ e.used = K[i].used
    BY <1>1, <2>2 DEF UsedEvent
  <2>7. \A j \in Slot : events'[j] = IF j = i THEN e ELSE K[j]
    BY <1>1, <2>1, <2>2
  <2> HIDE DEF e
  <2>8. \A j \in UsedSlots' :
          /\ j \in UsedSlots /\ events'[j].id = events[j].id
          /\ events'[j].attempts = events[j].attempts + (IF j = i THEN 1 ELSE 0)
    <3> SUFFICES ASSUME NEW j \in UsedSlots'
                 PROVE  /\ j \in UsedSlots /\ events'[j].id = events[j].id
                        /\ events'[j].attempts = events[j].attempts + (IF j = i THEN 1 ELSE 0)
      OBVIOUS
    <3>1. j \in Slot /\ events'[j].used
      BY DEF UsedSlots
    <3>2. K[j].used
      BY <2>2, <2>7, <3>1
    <3>3. /\ j \in UsedSlots /\ K[j].id = events[j].id /\ K[j].attempts = events[j].attempts
          /\ K[j].attempts \in Nat
      BY <1>1, <3>1, <3>2
    <3>4. CASE j = i
      BY <2>6, <2>7, <3>1, <3>3, <3>4
    <3>5. CASE j # i
      BY <2>7, <3>1, <3>3, <3>5
    <3> QED
      BY <3>4, <3>5
  <2> QED
    BY <1>0, <2>2, <2>3, <2>4, <2>5, <2>8
<1> QED
  BY <1>2, <1>3 DEF StepWith

\* The date a stream was last sent at is kept.
TxKept(s) == streams'[s].last_tx = streams[s].last_tx

\* The calls that transmit nothing date no stream and count no snapshot as sent.
LEMMA QuietDates ==
  ASSUME Safe, NEW now \in Nat,
         \/ \E s \in Stream : Publish(now, s)
         \/ \E life \in Nat \X Nat : Post(now, life)
         \/ \E f \in AnyFrame : IngestAck(now, f)
  PROVE  /\ \A s \in Stream : TxKept(s)
         /\ sent' = sent /\ stats'["state_tx"] = stats["state_tx"]
<1>0. stats \in [Counter -> Nat] /\ streams \in [Stream -> StreamSlot]
  BY DEF Safe, TypeOK
<1>1. sent' = sent /\ stats'["state_tx"] = stats["state_tx"]
  BY <1>0 DEF Publish, PublishState, PublishExhausted, Post, PostAdmitted, PostRejected,
              PostExhausted, IngestAck, AckRefused, AckStateImpossible, AckStateAccepted,
              AckEventImpossible, AckEventUnmatched, AckEventAccepted, Count, Counter
<1>2. ASSUME NEW s \in Stream, PublishState(now, s) PROVE \A r \in Stream : TxKept(r)
  <2>1. streams' = [streams EXCEPT ![s].latest_valid = TRUE,
                                   ![s].latest_seq = streams[s].next_seq,
                                   ![s].latest_gen = now,
                                   ![s].next_seq = @ + 1]
    BY <1>2 DEF PublishState
  <2> QED
    BY <1>0, <2>1 DEF TxKept, StreamSlot
<1>3. ASSUME NEW f \in AnyFrame, AckStateAccepted(now, f) PROVE \A r \in Stream : TxKept(r)
  <2>1. /\ streams' = [streams EXCEPT ![f.stream] = Settled(Learned(streams[f.stream], f), f)]
        /\ f.stream \in Stream
    BY <1>3 DEF AckStateAccepted
  <2>2. ASSUME NEW st \in StreamSlot
        PROVE  Settled(Learned(st, f), f).last_tx = st.last_tx
    BY DEF Settled, Learned, StreamSlot
  <2> QED
    BY <1>0, <2>1, <2>2 DEF TxKept
<1>4. streams' = streams => \A r \in Stream : TxKept(r)
  BY DEF TxKept
<1> QED
  BY <1>1, <1>2, <1>3, <1>4
     DEF Publish, PublishExhausted, Post, PostAdmitted, PostRejected, PostExhausted, IngestAck,
         AckRefused, AckStateImpossible, AckEventImpossible, AckEventUnmatched, AckEventAccepted

\* A step that sends a snapshot dates its stream, counts it and enters it in the history;
\* any other step does neither.
LEMMA StepDates ==
  ASSUME Safe, NEW now \in Nat, TimeOk(now), NEW c \in Choices(now), StepWith(now, c)
  PROVE  /\ c.kind = "STATE" =>
              /\ c.stream \in Stream /\ streams'[c.stream].last_tx = now
              /\ \A s \in Stream : s # c.stream => TxKept(s)
              /\ sent' = sent \cup {<<c.stream, streams[c.stream].latest_seq>>}
              /\ stats'["state_tx"] = stats["state_tx"] + 1
         /\ c.kind # "STATE" =>
              /\ \A s \in Stream : TxKept(s)
              /\ sent' = sent /\ stats'["state_tx"] = stats["state_tx"]
<1> DEFINE K == KeptStreams(now)
<1>0. Accepts(now) /\ stats["state_tx"] \in Nat /\ streams \in [Stream -> StreamSlot]
  BY TimeAccepted DEF Safe, Accepts, TypeOK, Counter
<1>1. /\ K = [s \in Stream |-> K[s]]
      /\ \A s \in Stream : /\ K[s] \in StreamSlot /\ K[s].last_tx = streams[s].last_tx
                           /\ K[s].latest_seq = streams[s].latest_seq
  <2>1. K = [s \in Stream |-> IF StateOverdue(now, s)
                              THEN [streams[s] EXCEPT !.inflight = NoFlight] ELSE streams[s]]
    BY DEF KeptStreams
  <2>2. ASSUME NEW st \in StreamSlot
        PROVE  LET n == [st EXCEPT !.inflight = NoFlight]
               IN  n \in StreamSlot /\ n.last_tx = st.last_tx /\ n.latest_seq = st.latest_seq
    BY DEF StreamSlot, Flight
  <2> HIDE DEF K
  <2> QED
    BY <1>0, <2>1, <2>2
<1>2. CASE StepState(now, c)
  <2>1. c.kind = "STATE" /\ c.stream \in Stream
    BY <1>2 DEF StepState, Sendable
  <2> DEFINE st == K[c.stream]
             n  == [st EXCEPT !.inflight = [valid |-> TRUE, seq |-> st.latest_seq,
                                            gen |-> st.latest_gen, sent_time |-> now],
                              !.max_sent_seq = st.latest_seq,
                              !.max_sent_gen = st.latest_gen,
                              !.last_tx = now]
  <2>2. /\ streams' = [K EXCEPT ![c.stream] = n]
        /\ sent' = sent \cup {<<c.stream, st.latest_seq>>}
        /\ Count(StepCounts(now, c, FALSE))
    BY <1>2 DEF StepState
  <2>3. n.last_tx = now
    <3>1. st \in StreamSlot
      BY <1>1, <2>1
    <3> HIDE DEF st
    <3> QED
      BY <3>1 DEF StreamSlot
  <2>4. stats'["state_tx"] = stats["state_tx"] + 1
    BY <1>0, <2>1, <2>2 DEF Count, Counter, StepCounts
  <2> HIDE DEF K, n
  <2> QED
    BY <1>1, <2>1, <2>2, <2>3, <2>4 DEF TxKept
<1>3. CASE StepEvent(now, c) \/ StepIdle(now, c)
  <2>1. c.kind # "STATE" /\ streams' = K /\ sent' = sent
    BY <1>3 DEF StepEvent, StepIdle
  <2>2. \E b \in BOOLEAN : Count(StepCounts(now, c, b))
    BY <1>3 DEF StepEvent, StepIdle
  <2>3. stats'["state_tx"] = stats["state_tx"] + 0
    BY <1>0, <2>1, <2>2 DEF Count, Counter, StepCounts
  <2> HIDE DEF K
  <2> QED
    BY <1>0, <1>1, <2>1, <2>3 DEF TxKept
<1> QED
  BY <1>2, <1>3 DEF StepWith

\* A snapshot is handed to the transport only for the stream that was chosen.
LEMMA FrameOfChoice ==
  ASSUME NEW now, NEW c, StepWith(now, c), NEW f \in FramesSent(now, c), f.type = "STATE"
  PROVE  c.kind = "STATE" /\ f.stream = c.stream /\ f.seq = streams[c.stream].latest_seq
<1>1. c.kind \in {"EVENT", "STATE", "NONE"}
  BY DEF StepWith, StepEvent, StepState, StepIdle
<1>2. CASE c.kind = "EVENT"
  <2>1. PICK i \in SlotOf(events, c.id) :
          f = [type |-> "EVENT", id |-> c.id, gen |-> events[i].gen, deadline |-> events[i].deadline]
    BY <1>2 DEF FramesSent
  <2> QED
    BY <2>1
<1>3. CASE c.kind = "STATE"
  <2>1. f = [type |-> "STATE", stream |-> c.stream, seq |-> streams[c.stream].latest_seq,
             gen |-> streams[c.stream].latest_gen]
    BY <1>3 DEF FramesSent
  <2> QED
    BY <1>3, <2>1
<1>4. CASE c.kind = "NONE"
  BY <1>4 DEF FramesSent
<1> QED
  BY <1>1, <1>2, <1>3, <1>4

\* The date a stream was last sent at is a number.
LEMMA DateTypes ==
  ASSUME Safe
  PROVE  \A s \in Stream : streams[s].last_tx \in Nat
  BY DEF Safe, TypeOK, StreamSlot

=============================================================================
