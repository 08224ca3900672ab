--------------------------- MODULE ReceiverProofs ---------------------------
(***************************************************************************)
(* Theorems about module Receiver for every number of streams, window, word *)
(* width, ring size, horizon and every set of frames the link may hand over.*)
(***************************************************************************)
EXTENDS Receiver, FiniteSetTheorems, TLAPS

\* There is a stream, and the turn passes from a stream to a stream.
LEMMA StreamNonEmpty == 0 \in Stream /\ \A s \in Stream : (s + 1) % N_STREAMS \in Stream
  BY ReceiverAssumption, SMT DEF Stream

\* A frame from Frames is of the one shape its tag says.
LEMMA FrameShapes ==
  ASSUME NEW f \in Frames
  PROVE  /\ f.type \in {"STATE", "EVENT", "ACK_STATE", "ACK_EVENT", "BAD"}
         /\ f.type = "STATE" => f.stream \in Nat /\ f.seq \in Nat /\ f.gen \in Nat
         /\ f.type = "EVENT" => f.id \in Nat /\ f.deadline \in Nat
  BY ReceiverAssumption
     DEF AnyFrame, StateFrame, EventFrame, AckStateFrame, AckEventFrame, BadFrame

\* Count leaves a record of naturals.
LEMMA CountType ==
  ASSUME NEW C, stats \in [Counter -> Nat], Count(C)
  PROVE  stats' \in [Counter -> Nat]
  BY DEF Count

\* Queueing an event ACK keeps the ring a sequence of entries within its capacity.
LEMMA QueueType ==
  ASSUME TypeOK, NEW id \in Nat \ {0}, NEW fl \in {"NONE", "DUPLICATE"},
         QueueEventAck(id, fl)
  PROVE  ack_ring' \in Seq(AckEntry) /\ Len(ack_ring') <= ACK_QUEUE
<1>1. [id |-> id, flags |-> fl] \in AckEntry
  BY DEF AckEntry
<1>2. CASE RingFull
  BY <1>2 DEF QueueEventAck, TypeOK
<1>3. CASE ~ RingFull
  BY <1>1, <1>3, ReceiverAssumption DEF QueueEventAck, TypeOK, RingFull
<1> QED
  BY <1>2, <1>3

\* Recording an id keeps the bitmap inside the word.
LEMMA RecordType ==
  ASSUME TypeOK, NEW f, f.id \in Nat \ {0}, Deliverable(f), Record(f)
  PROVE  highest_id' \in Nat /\ dedup_bits' \subseteq 0 .. BITS - 1
<1>1. CASE Ahead(f)
  BY <1>1, ReceiverAssumption DEF Record, ShiftLeft, TypeOK
<1>2. CASE ~ Ahead(f)
  <2>1. highest_id - f.id \in 0 .. BITS - 1
    BY <1>2, ReceiverAssumption DEF Deliverable, Ahead, InWindow, TypeOK
  <2> QED
    BY <1>2, <2>1 DEF Record, TypeOK
<1> QED
  BY <1>1, <1>2

-----------------------------------------------------------------------------
(* Type correctness. *)

\* Every call keeps the types.
LEMMA TypesKept == TypeOK /\ [Next]_vars => TypeOK'
<1> SUFFICES ASSUME TypeOK, [Next]_vars PROVE TypeOK'
  OBVIOUS
<1>1. ASSUME NEW now \in Times, NEW f \in Frames, Ingest(now, f)
      PROVE  TypeOK'
  <2>0. last_now' \in Nat
    BY <1>1, ReceiverAssumption
       DEF Ingest, IngestBad, IngestRefused, IngestState, IngestNewEvent,
           IngestDuplicate, IngestOutOfWindow, TimeOk
  <2>1. CASE IngestBad(now, f)
    BY <2>0, <2>1, CountType DEF IngestBad, TypeOK
  <2>2. CASE IngestRefused(now, f)
    BY <2>0, <2>2, CountType DEF IngestRefused, TypeOK
  <2>3. CASE IngestState(now, f)
    <3>1. streams' \in [Stream -> [valid : BOOLEAN, seq : Nat, gen : Nat]]
      BY <2>3, FrameShapes DEF IngestState, TypeOK
    <3>2. ack_state_pending' \subseteq Stream
      BY <2>3 DEF IngestState, QueueStateAck, TypeOK
    <3> QED
      BY <2>0, <2>3, <3>1, <3>2, CountType DEF IngestState, TypeOK
  <2>4. CASE IngestNewEvent(now, f)
    <3>1. f.id \in Nat \ {0}
      BY <2>4, FrameShapes DEF IngestNewEvent
    <3>2. ack_ring' \in Seq(AckEntry) /\ Len(ack_ring') <= ACK_QUEUE
      BY <2>4, <3>1, QueueType DEF IngestNewEvent
    <3>3. highest_id' \in Nat /\ dedup_bits' \subseteq 0 .. BITS - 1
      BY <2>4, <3>1, RecordType DEF IngestNewEvent
    <3> QED
      BY <2>0, <2>4, <3>1, <3>2, <3>3, CountType DEF IngestNewEvent, TypeOK
  <2>5. CASE IngestDuplicate(now, f)
    <3>1. f.id \in Nat \ {0}
      BY <2>5, FrameShapes DEF IngestDuplicate
    <3>2. ack_ring' \in Seq(AckEntry) /\ Len(ack_ring') <= ACK_QUEUE
      BY <2>5, <3>1, QueueType DEF IngestDuplicate
    <3> QED
      BY <2>0, <2>5, <3>2, CountType DEF IngestDuplicate, TypeOK
  <2>6. CASE IngestOutOfWindow(now, f)
    BY <2>0, <2>6, CountType DEF IngestOutOfWindow, TypeOK
  <2> QED
    BY <1>1, <2>1, <2>2, <2>3, <2>4, <2>5, <2>6 DEF Ingest
<1>2. ASSUME NEW now \in Times, Step(now)
      PROVE  TypeOK'
  <2>0. last_now' \in Nat
    BY <1>2, ReceiverAssumption DEF Step, StepEventAck, StepStateAck, StepIdle, TimeOk
  <2>1. CASE StepEventAck(now)
    <3>1. ack_ring' \in Seq(AckEntry) /\ Len(ack_ring') <= ACK_QUEUE
      BY <2>1, ReceiverAssumption DEF StepEventAck, TypeOK
    <3> QED
      BY <2>0, <2>1, <3>1, CountType DEF StepEventAck, TypeOK
  <2>2. ASSUME NEW s \in Stream, StepStateAck(now, s)
        PROVE  TypeOK'
    BY <2>0, <2>2, CountType, StreamNonEmpty DEF StepStateAck, TypeOK
  <2>3. CASE StepIdle(now)
    BY <2>0, <2>3 DEF StepIdle, TypeOK
  <2> QED
    BY <1>2, <2>1, <2>2, <2>3 DEF Step
<1>3. CASE UNCHANGED vars
  BY <1>3 DEF vars, TypeOK
<1> QED
  BY <1>1, <1>2, <1>3 DEF Next

\* The fields keep their types and the ring its capacity, whatever the link
\* delivers and whenever the host steps.
THEOREM ReceiverTypes == Spec => []TypeOK
<1>1. Init => TypeOK
  BY ReceiverAssumption, StreamNonEmpty DEF Init, TypeOK
<1> QED
  BY <1>1, TypesKept, PTL DEF Spec

-----------------------------------------------------------------------------
(* At-most-once delivery. *)

\* An id about to be delivered was never delivered before: the bitmap is exact
\* for every id the receiver is willing to judge.
LEMMA NotYetDelivered ==
  ASSUME TypeOK, BitmapExact, NEW f, f.id \in Nat \ {0}, Deliverable(f)
  PROVE  f.id \notin delivered
<1>1. CASE Ahead(f)
  BY <1>1 DEF TypeOK, BitmapExact, Ahead
<1>2. CASE InWindow(f) /\ ~ Seen(f)
  <2>1. /\ highest_id - f.id \in 0 .. BITS - 1
        /\ highest_id - f.id < highest_id
        /\ highest_id - (highest_id - f.id) = f.id
    BY <1>2, ReceiverAssumption DEF TypeOK, InWindow
  <2> QED
    BY <1>2, <2>1 DEF BitmapExact, Seen
<1> QED
  BY <1>1, <1>2 DEF Deliverable

\* Recording a new id keeps the bitmap exact: a shift moves every position by the
\* same distance as the ids it stands for.
LEMMA RecordExact ==
  ASSUME TypeOK, BitmapExact, NEW f, f.id \in Nat \ {0}, Deliverable(f), Record(f),
         delivered' = delivered \cup {f.id}
  PROVE  BitmapExact'
<1>1. CASE Ahead(f)
  <2> DEFINE n == f.id - highest_id
  <2>1. /\ n \in Nat \ {0} /\ highest_id' = f.id
        /\ dedup_bits' = ShiftLeft(dedup_bits, n) \cup {0}
    BY <1>1 DEF Ahead, Record, TypeOK
  <2>2. \A id \in delivered' : id <= highest_id'
    BY <1>1, <2>1 DEF BitmapExact, TypeOK, Ahead
  <2>3. ASSUME NEW d \in 0 .. BITS - 1
        PROVE  d \in dedup_bits' <=> d < highest_id' /\ highest_id' - d \in delivered'
    <3>1. CASE d = 0
      BY <2>1, <3>1
    <3>2. CASE d \in 1 .. n - 1
      <4>1. d \notin dedup_bits'
        BY <2>1, <3>2 DEF ShiftLeft
      <4>2. highest_id' - d > highest_id /\ highest_id' - d # f.id
        BY <2>1, <3>2 DEF TypeOK
      <4>3. highest_id' - d \notin delivered'
        BY <4>2, <2>1, <3>2 DEF BitmapExact, TypeOK
      <4> QED
        BY <4>1, <4>3
    <3>3. CASE d >= n /\ d # 0
      <4>0. /\ BITS \in Nat /\ highest_id \in Nat /\ d \in Nat /\ d <= BITS - 1
            /\ n \in Nat /\ n <= d /\ highest_id' = highest_id + n
        BY <2>1, <3>3, ReceiverAssumption DEF TypeOK
      <4>1. d - n \in 0 .. BITS - 1 /\ highest_id' - d = highest_id - (d - n)
        <5> HIDE DEF n
        <5> QED
          BY <4>0
      <4>2. d \in dedup_bits' <=> d - n \in dedup_bits
        BY <2>1, <3>3 DEF ShiftLeft
      <4>3. highest_id' - d # f.id
        BY <2>1, <3>3 DEF TypeOK
      <4>4. d < highest_id' <=> d - n < highest_id
        BY <2>1 DEF TypeOK
      <4>5. d - n \in dedup_bits <=> d - n < highest_id /\ highest_id - (d - n) \in delivered
        BY <4>1 DEF BitmapExact
      <4> QED
        BY <4>1, <4>2, <4>3, <4>4, <4>5
    <3> QED
      BY <3>1, <3>2, <3>3, <2>1
  <2> QED
    BY <2>2, <2>3 DEF BitmapExact
<1>2. CASE ~ Ahead(f)
  <2>1. /\ highest_id - f.id \in 0 .. BITS - 1 /\ f.id <= highest_id
        /\ highest_id' = highest_id
        /\ dedup_bits' = dedup_bits \cup {highest_id - f.id}
    BY <1>2, ReceiverAssumption DEF TypeOK, Deliverable, Ahead, InWindow, Record
  <2>2. \A id \in delivered' : id <= highest_id'
    BY <2>1 DEF BitmapExact
  <2>3. ASSUME NEW d \in 0 .. BITS - 1
        PROVE  d \in dedup_bits' <=> d < highest_id' /\ highest_id' - d \in delivered'
    <3>1. d = highest_id - f.id <=> highest_id - d = f.id
      BY <2>1, ReceiverAssumption DEF TypeOK
    <3>2. d \in dedup_bits <=> d < highest_id /\ highest_id - d \in delivered
      BY DEF BitmapExact
    <3>3. highest_id - f.id < highest_id
      BY DEF TypeOK
    <3> QED
      BY <2>1, <3>1, <3>2, <3>3
  <2> QED
    BY <2>2, <2>3 DEF BitmapExact
<1> QED
  BY <1>1, <1>2

\* Delivering a new id keeps the number of deliveries equal to that of ids.
LEMMA DeliverOnce ==
  ASSUME TypeOK, AtMostOnce, NEW id, id \notin delivered,
         delivered' = delivered \cup {id},
         stats'["ev_delivered"] = stats["ev_delivered"] + 1
  PROVE  AtMostOnce'
  BY FS_AddElement DEF AtMostOnce

\* Only a delivery touches the bitmap, the delivered set or its counter.
LEMMA Undisturbed ==
  ASSUME TypeOK, [Next]_vars,
         ~ \E now \in Times, f \in Frames : IngestNewEvent(now, f)
  PROVE  /\ UNCHANGED <<highest_id, dedup_bits, delivered>>
         /\ stats'["ev_delivered"] = stats["ev_delivered"]
<1>1. "ev_delivered" \in Counter
  BY DEF Counter
<1>2. ASSUME NEW now \in Times, NEW f \in Frames, Ingest(now, f)
      PROVE  /\ UNCHANGED <<highest_id, dedup_bits, delivered>>
             /\ stats'["ev_delivered"] = stats["ev_delivered"]
  BY <1>1, <1>2
     DEF Ingest, IngestBad, IngestRefused, IngestState, IngestDuplicate, IngestOutOfWindow,
         Count, StateAckCoalesced, EventAckDropped
<1>3. ASSUME NEW now \in Times, Step(now)
      PROVE  /\ UNCHANGED <<highest_id, dedup_bits, delivered>>
             /\ stats'["ev_delivered"] = stats["ev_delivered"]
  BY <1>1, <1>3 DEF Step, StepEventAck, StepStateAck, StepIdle, Count
<1> QED
  BY <1>2, <1>3 DEF Next, vars

\* Every call keeps the bitmap exact and the deliveries distinct.
LEMMA DeliveriesKept == TypeOK /\ BitmapExact /\ AtMostOnce /\ [Next]_vars => BitmapExact' /\ AtMostOnce'
<1> SUFFICES ASSUME TypeOK, BitmapExact, AtMostOnce, [Next]_vars
             PROVE  BitmapExact' /\ AtMostOnce'
  OBVIOUS
<1>1. CASE \E now \in Times, f \in Frames : IngestNewEvent(now, f)
  <2>1. PICK now \in Times, f \in Frames : IngestNewEvent(now, f)
    BY <1>1
  <2>2. f.id \in Nat \ {0} /\ Deliverable(f) /\ Record(f)
        /\ delivered' = delivered \cup {f.id}
    BY <2>1, FrameShapes DEF IngestNewEvent
  <2>3. stats'["ev_delivered"] = stats["ev_delivered"] + 1
    BY <2>1 DEF IngestNewEvent, Count, Counter
  <2> QED
    BY <2>2, <2>3, NotYetDelivered, RecordExact, DeliverOnce
<1>2. CASE ~ \E now \in Times, f \in Frames : IngestNewEvent(now, f)
  BY <1>2, Undisturbed DEF BitmapExact, AtMostOnce
<1> QED
  BY <1>1, <1>2

\* For every window no wider than the word, the bitmap is exact and no event id
\* is delivered twice, whatever is duplicated, reordered or skipped.
THEOREM ReceiverDedup == Spec => [](BitmapExact /\ AtMostOnce)
<1>1. Init => BitmapExact /\ AtMostOnce
  BY FS_EmptySet DEF Init, BitmapExact, AtMostOnce, Counter
<1> QED
  BY <1>1, DeliveriesKept, ReceiverTypes, PTL DEF Spec

-----------------------------------------------------------------------------
(* Acknowledgements. *)

\* The counters an action names go up by one, the others stay.
LEMMA CountStep ==
  ASSUME NEW C, Count(C), NEW c \in Counter, stats \in [Counter -> Nat]
  PROVE  stats'[c] = stats[c] + (IF c \in C THEN 1 ELSE 0)
  BY DEF Count

\* A queued acknowledgement keeps what the ring vouches for within a larger set of ids.
LEMMA QueueVouches ==
  ASSUME TypeOK, AcksVouch, NEW id \in Nat \ {0}, NEW fl, QueueEventAck(id, fl),
         delivered \subseteq delivered', id \in delivered'
  PROVE  \A i \in 1 .. Len(ack_ring') : ack_ring'[i].id \in delivered'
<1>1. CASE RingFull
  BY <1>1 DEF QueueEventAck, AcksVouch
<1>2. CASE ~ RingFull
  <2> SUFFICES ASSUME NEW i \in 1 .. Len(ack_ring') PROVE ack_ring'[i].id \in delivered'
    OBVIOUS
  <2>1. ack_ring' = Append(ack_ring, [id |-> id, flags |-> fl])
    BY <1>2 DEF QueueEventAck
  <2>2. ack_ring \in Seq(AckEntry)
    BY DEF TypeOK
  <2>3. CASE i \in 1 .. Len(ack_ring)
    <3>1. ack_ring'[i] = ack_ring[i]
      BY <2>1, <2>2, <2>3
    <3> QED
      BY <2>3, <3>1 DEF AcksVouch
  <2>4. CASE i = Len(ack_ring) + 1
    BY <2>1, <2>2, <2>4
  <2> QED
    BY <2>1, <2>2, <2>3, <2>4
<1> QED
  BY <1>1, <1>2

\* Every call keeps what is queued within what was received.
LEMMA VouchesKept == TypeOK /\ BitmapExact /\ AcksVouch /\ [Next]_vars => AcksVouch'
<1> SUFFICES ASSUME TypeOK, BitmapExact, AcksVouch, [Next]_vars PROVE AcksVouch'
  OBVIOUS
<1>1. ASSUME NEW now \in Times, NEW f \in Frames, Ingest(now, f)
      PROVE  AcksVouch'
  <2>1. CASE IngestBad(now, f) \/ IngestRefused(now, f) \/ IngestOutOfWindow(now, f)
    BY <2>1 DEF IngestBad, IngestRefused, IngestOutOfWindow, AcksVouch
  <2>2. CASE IngestState(now, f)
    <3>1. \A s \in Stream : streams[s].valid \/ s = f.stream => streams'[s].valid
      BY <2>2 DEF IngestState, Newer, TypeOK
    <3> QED
      BY <2>2, <3>1 DEF IngestState, QueueStateAck, AcksVouch, TypeOK
  <2>3. CASE IngestNewEvent(now, f)
    <3>1. f.id \in Nat \ {0}
      BY <2>3, FrameShapes DEF IngestNewEvent
    <3>2. \A i \in 1 .. Len(ack_ring') : ack_ring'[i].id \in delivered'
      BY <2>3, <3>1, QueueVouches DEF IngestNewEvent
    <3> QED
      BY <2>3, <3>2 DEF IngestNewEvent, AcksVouch
  <2>4. CASE IngestDuplicate(now, f)
    <3>1. f.id \in Nat \ {0}
      BY <2>4, FrameShapes DEF IngestDuplicate
    <3>2. highest_id - f.id \in 0 .. BITS - 1 /\ highest_id - f.id \in dedup_bits
      BY <2>4, <3>1, ReceiverAssumption DEF IngestDuplicate, Duplicate, InWindow, Seen, TypeOK
    <3>3. f.id \in delivered
      <4>1. highest_id - (highest_id - f.id) \in delivered
        BY <3>2 DEF BitmapExact
      <4> QED
        BY <3>1, <4>1 DEF TypeOK
    <3>4. \A i \in 1 .. Len(ack_ring') : ack_ring'[i].id \in delivered'
      BY <2>4, <3>1, <3>3, QueueVouches DEF IngestDuplicate
    <3> QED
      BY <2>4, <3>4 DEF IngestDuplicate, AcksVouch
  <2> QED
    BY <1>1, <2>1, <2>2, <2>3, <2>4 DEF Ingest
<1>2. ASSUME NEW now \in Times, Step(now)
      PROVE  AcksVouch'
  <2>1. CASE StepEventAck(now)
    BY <2>1 DEF StepEventAck, AcksVouch, TypeOK
  <2>2. ASSUME NEW s \in Stream, StepStateAck(now, s) PROVE AcksVouch'
    BY <2>2 DEF StepStateAck, AcksVouch
  <2>3. CASE StepIdle(now)
    BY <2>3 DEF StepIdle, AcksVouch
  <2> QED
    BY <1>2, <2>1, <2>2, <2>3 DEF Step
<1>3. CASE UNCHANGED vars
  BY <1>3 DEF vars, AcksVouch
<1> QED
  BY <1>1, <1>2, <1>3 DEF Next

\* No acknowledgement vouches for what was not received: an id is queued only when it
\* is delivered in the same step or, its bit being exact, was delivered before.
THEOREM ReceiverVouches == Spec => []AcksVouch
<1>1. Init => AcksVouch
  BY DEF Init, AcksVouch
<1> QED
  BY <1>1, VouchesKept, ReceiverTypes, ReceiverDedup, PTL DEF Spec

\* The streams that owe an acknowledgement are finitely many.
LEMMA PendingFinite ==
  ASSUME TypeOK
  PROVE  IsFiniteSet(ack_state_pending) /\ Cardinality(ack_state_pending) \in Nat
<1>1. IsFiniteSet(Stream)
  BY FS_Interval, ReceiverAssumption DEF Stream
<1> QED
  BY <1>1, FS_Subset, FS_CardinalityType DEF TypeOK

\* The two sides of the account, as functions of the counters: the verdicts that asked
\* for an acknowledgement, and the requests that are over.
Asked(st)   == st["ev_delivered"] + st["ev_duplicate"]
                 + st["state_applied"] + st["state_stale_dropped"]
Settled(st) == st["ack_tx"] + st["ack_event_dropped"] + st["ack_state_coalesced"]

\* The counters of the account are naturals.
LEMMA AckCounters ==
  ASSUME NEW st \in [Counter -> Nat]
  PROVE  /\ st["ev_delivered"] \in Nat /\ st["ev_duplicate"] \in Nat
         /\ st["state_applied"] \in Nat /\ st["state_stale_dropped"] \in Nat
         /\ st["ack_tx"] \in Nat /\ st["ack_event_dropped"] \in Nat
         /\ st["ack_state_coalesced"] \in Nat
  BY DEF Counter

\* AcksAccounted in terms of the two sides, each of them a natural.
LEMMA AccountedSplit ==
  ASSUME TypeOK
  PROVE  /\ AcksAccounted <=>
              Asked(stats) = Settled(stats) + Len(ack_ring) + Cardinality(ack_state_pending)
         /\ Asked(stats) \in Nat /\ Settled(stats) \in Nat /\ Len(ack_ring) \in Nat
<1>1. stats \in [Counter -> Nat] /\ Len(ack_ring) \in Nat
  BY DEF TypeOK
<1>2. Cardinality(ack_state_pending) \in Nat
  BY PendingFinite
<1>3. /\ stats["ev_delivered"] \in Nat /\ stats["ev_duplicate"] \in Nat
      /\ stats["state_applied"] \in Nat /\ stats["state_stale_dropped"] \in Nat
      /\ stats["ack_tx"] \in Nat /\ stats["ack_event_dropped"] \in Nat
      /\ stats["ack_state_coalesced"] \in Nat
  BY <1>1, AckCounters
<1>4. Asked(stats) \in Nat /\ Settled(stats) \in Nat
  BY <1>3 DEF Asked, Settled
<1>5. AcksAccounted <=>
        Asked(stats) = Settled(stats) + Len(ack_ring) + Cardinality(ack_state_pending)
  BY DEF AcksAccounted, Asked, Settled
<1> QED
  BY <1>1, <1>2, <1>4, <1>5

\* AccountedSplit, after a step.
LEMMA AccountedSplitNext ==
  ASSUME TypeOK'
  PROVE  /\ AcksAccounted' <=>
              Asked(stats') = Settled(stats') + Len(ack_ring') + Cardinality(ack_state_pending')
         /\ Asked(stats') \in Nat /\ Settled(stats') \in Nat /\ Len(ack_ring') \in Nat
         /\ Cardinality(ack_state_pending') \in Nat
<1>1. stats' \in [Counter -> Nat] /\ Len(ack_ring') \in Nat
  BY DEF TypeOK
<1>2. Cardinality(ack_state_pending') \in Nat
  <2>1. IsFiniteSet(Stream) /\ ack_state_pending' \subseteq Stream
    BY FS_Interval, ReceiverAssumption DEF Stream, TypeOK
  <2> QED
    BY <2>1, FS_Subset, FS_CardinalityType
<1>3. /\ stats'["ev_delivered"] \in Nat /\ stats'["ev_duplicate"] \in Nat
      /\ stats'["state_applied"] \in Nat /\ stats'["state_stale_dropped"] \in Nat
      /\ stats'["ack_tx"] \in Nat /\ stats'["ack_event_dropped"] \in Nat
      /\ stats'["ack_state_coalesced"] \in Nat
  BY <1>1, AckCounters
<1>4. Asked(stats') \in Nat /\ Settled(stats') \in Nat
  BY <1>3 DEF Asked, Settled
<1>5. AcksAccounted' <=>
        Asked(stats') = Settled(stats') + Len(ack_ring') + Cardinality(ack_state_pending')
  BY DEF AcksAccounted, Asked, Settled
<1> QED
  BY <1>1, <1>2, <1>4, <1>5

\* Asking for an event ACK leaves it in the ring or counts it as dropped.
LEMMA EventAsked ==
  ASSUME TypeOK, NEW id, NEW fl, QueueEventAck(id, fl), NEW v \in {"ev_delivered", "ev_duplicate"},
         NEW u \in {"ev_on_time", "ev_late", "frames_ok"},
         Count({"frames_ok", v, u} \cup EventAckDropped)
  PROVE  /\ Asked(stats') = Asked(stats) + 1
         /\ Settled(stats') + Len(ack_ring') = Settled(stats) + Len(ack_ring) + 1
<1>0. stats \in [Counter -> Nat] /\ ack_ring \in Seq(AckEntry)
  BY DEF TypeOK
<1> DEFINE C == {"frames_ok", v, u} \cup EventAckDropped
<1>1. \A c \in Counter : stats'[c] = stats[c] + (IF c \in C THEN 1 ELSE 0)
  BY <1>0, CountStep
<1>2. /\ stats'["state_applied"] = stats["state_applied"]
      /\ stats'["state_stale_dropped"] = stats["state_stale_dropped"]
      /\ stats'["ack_tx"] = stats["ack_tx"]
      /\ stats'["ack_state_coalesced"] = stats["ack_state_coalesced"]
  <2>1. \A c \in {"state_applied", "state_stale_dropped", "ack_tx", "ack_state_coalesced"} :
          c \in Counter /\ c \notin C
    BY DEF Counter, EventAckDropped
  <2> QED
    BY <1>0, <1>1, <2>1, AckCounters
<1>3. /\ stats["ev_delivered"] \in Nat /\ stats["ev_duplicate"] \in Nat
      /\ stats["state_applied"] \in Nat /\ stats["state_stale_dropped"] \in Nat
      /\ stats["ack_tx"] \in Nat /\ stats["ack_event_dropped"] \in Nat
      /\ stats["ack_state_coalesced"] \in Nat
  BY <1>0, AckCounters
<1>4. /\ stats'["ev_delivered"] + stats'["ev_duplicate"]
           = stats["ev_delivered"] + stats["ev_duplicate"] + 1
      /\ stats'["ev_delivered"] \in Nat /\ stats'["ev_duplicate"] \in Nat
  <2>1. CASE v = "ev_delivered"
    <3>1. /\ stats'["ev_delivered"] = stats["ev_delivered"] + 1
          /\ stats'["ev_duplicate"] = stats["ev_duplicate"]
      BY <1>0, <1>1, <2>1, AckCounters DEF Counter, EventAckDropped
    <3> QED
      BY <1>3, <3>1
  <2>2. CASE v = "ev_duplicate"
    <3>1. /\ stats'["ev_delivered"] = stats["ev_delivered"]
          /\ stats'["ev_duplicate"] = stats["ev_duplicate"] + 1
      BY <1>0, <1>1, <2>2, AckCounters DEF Counter, EventAckDropped
    <3> QED
      BY <1>3, <3>1
  <2> QED
    BY <2>1, <2>2
<1>5. Asked(stats') = Asked(stats) + 1
  BY <1>2, <1>4, <1>3 DEF Asked
<1>6. CASE RingFull
  <2>0. stats'["ack_event_dropped"] = stats["ack_event_dropped"] + 1
    <3>1. "ack_event_dropped" \in Counter /\ "ack_event_dropped" \in C
      BY <1>6 DEF Counter, EventAckDropped
    <3> HIDE DEF C
    <3> QED
      BY <1>1, <1>3, <3>1
  <2>1. Settled(stats') = Settled(stats) + 1
    BY <1>2, <1>3, <2>0 DEF Settled
  <2>2. ack_ring' = ack_ring
    BY <1>6 DEF QueueEventAck
  <2> QED
    BY <1>5, <2>1, <2>2, AccountedSplit
<1>7. CASE ~ RingFull
  <2>0. stats'["ack_event_dropped"] = stats["ack_event_dropped"]
    <3>1. "ack_event_dropped" \in Counter /\ "ack_event_dropped" \notin C
      BY <1>7 DEF Counter, EventAckDropped
    <3> HIDE DEF C
    <3> QED
      BY <1>1, <1>3, <3>1
  <2>1. Settled(stats') = Settled(stats)
    BY <1>2, <1>3, <2>0 DEF Settled
  <2>2. Len(ack_ring') = Len(ack_ring) + 1
    BY <1>0, <1>7 DEF QueueEventAck
  <2> QED
    BY <1>5, <2>1, <2>2, AccountedSplit
<1> QED
  BY <1>6, <1>7

\* Asking for a state ACK marks the stream or counts it as coalesced.
LEMMA StateAsked ==
  ASSUME TypeOK, NEW s \in Stream, QueueStateAck(s),
         NEW v \in {"state_applied", "state_stale_dropped"},
         Count({"frames_ok", v} \cup StateAckCoalesced(s))
  PROVE  /\ Asked(stats') = Asked(stats) + 1
         /\ Settled(stats') + Cardinality(ack_state_pending')
              = Settled(stats) + Cardinality(ack_state_pending) + 1
<1>0. stats \in [Counter -> Nat]
  BY DEF TypeOK
<1> DEFINE C == {"frames_ok", v} \cup StateAckCoalesced(s)
<1>1. \A c \in Counter : stats'[c] = stats[c] + (IF c \in C THEN 1 ELSE 0)
  BY <1>0, CountStep
<1>2. Asked(stats') = Asked(stats) + 1
  BY <1>0, <1>1 DEF Asked, Counter, StateAckCoalesced
<1>3. CASE s \in ack_state_pending
  <2>1. Settled(stats') = Settled(stats) + 1
    BY <1>0, <1>1, <1>3 DEF Settled, Counter, StateAckCoalesced
  <2>2. ack_state_pending' = ack_state_pending
    BY <1>3 DEF QueueStateAck
  <2> QED
    BY <1>2, <2>1, <2>2, PendingFinite, AccountedSplit
<1>4. CASE s \notin ack_state_pending
  <2>1. Settled(stats') = Settled(stats)
    BY <1>0, <1>1, <1>4 DEF Settled, Counter, StateAckCoalesced
  <2>2. Cardinality(ack_state_pending') = Cardinality(ack_state_pending) + 1
    BY <1>4, PendingFinite, FS_AddElement DEF QueueStateAck
  <2> QED
    BY <1>2, <2>1, <2>2, PendingFinite, AccountedSplit
<1> QED
  BY <1>3, <1>4

\* Every verdict that asks for an acknowledgement gets exactly one fate, whatever the
\* ring's size and the order of arrivals and opportunities.
THEOREM ReceiverAccounts == Spec => []AcksAccounted
<1>1. Init => AcksAccounted
  BY FS_EmptySet DEF Init, AcksAccounted, Counter
<1>2. TypeOK /\ TypeOK' /\ AcksAccounted /\ [Next]_vars => AcksAccounted'
  <2> SUFFICES ASSUME TypeOK, TypeOK', AcksAccounted, [Next]_vars PROVE AcksAccounted'
    OBVIOUS
  <2>0. /\ Asked(stats) = Settled(stats) + Len(ack_ring) + Cardinality(ack_state_pending)
        /\ AcksAccounted' <=>
             Asked(stats') = Settled(stats') + Len(ack_ring') + Cardinality(ack_state_pending')
        /\ Asked(stats) \in Nat /\ Settled(stats) \in Nat /\ Len(ack_ring) \in Nat
        /\ Cardinality(ack_state_pending) \in Nat
        /\ Asked(stats') \in Nat /\ Settled(stats') \in Nat /\ Len(ack_ring') \in Nat
        /\ Cardinality(ack_state_pending') \in Nat
    BY AccountedSplit, AccountedSplitNext, PendingFinite
  <2>1. ASSUME NEW now \in Times, NEW f \in Frames, Ingest(now, f)
        PROVE  AcksAccounted'
    <3>1. CASE IngestBad(now, f) \/ IngestRefused(now, f) \/ IngestOutOfWindow(now, f)
      <4>1. Asked(stats') = Asked(stats) /\ Settled(stats') = Settled(stats)
        BY <3>1 DEF IngestBad, IngestRefused, IngestOutOfWindow, Count, Asked, Settled, Counter,
                    TypeOK
      <4>2. UNCHANGED <<ack_ring, ack_state_pending>>
        BY <3>1 DEF IngestBad, IngestRefused, IngestOutOfWindow
      <4> QED
        BY <2>0, <4>1, <4>2
    <3>2. CASE IngestState(now, f)
      <4>1. PICK v \in {"state_applied", "state_stale_dropped"} :
              Count({"frames_ok", v} \cup StateAckCoalesced(f.stream))
        BY <3>2 DEF IngestState
      <4>2. /\ f.stream \in Stream /\ QueueStateAck(f.stream)
            /\ UNCHANGED ack_ring
        BY <3>2 DEF IngestState
      <4>3. /\ Asked(stats') = Asked(stats) + 1
            /\ Settled(stats') + Cardinality(ack_state_pending')
                 = Settled(stats) + Cardinality(ack_state_pending) + 1
        BY <4>1, <4>2, StateAsked
      <4> QED
        <5>1. Len(ack_ring') = Len(ack_ring)
          BY <4>2
        <5> DEFINE a == Asked(stats)
                   b == Settled(stats)
                   c == Settled(stats')
                   p == Cardinality(ack_state_pending)
                   q == Cardinality(ack_state_pending')
                   r == Len(ack_ring)
        <5>2. /\ a = b + r + p /\ c + q = b + p + 1
              /\ b \in Nat /\ c \in Nat /\ p \in Nat /\ q \in Nat /\ r \in Nat
          BY <2>0, <4>3
        <5>3. a + 1 = c + r + q
          <6> HIDE DEF a, b, c, p, q, r
          <6> QED
            BY <5>2
        <5>4. Asked(stats') = Settled(stats') + Len(ack_ring') + Cardinality(ack_state_pending')
          BY <4>3, <5>1, <5>3
        <5> QED
          BY <2>0, <5>4
    <3>3. CASE IngestNewEvent(now, f)
      <4>1. PICK u \in {"ev_on_time", "ev_late", "frames_ok"} :
              Count({"frames_ok", "ev_delivered", u} \cup EventAckDropped)
        BY <3>3 DEF IngestNewEvent
      <4>2. QueueEventAck(f.id, "NONE") /\ UNCHANGED ack_state_pending
        BY <3>3 DEF IngestNewEvent
      <4>3. /\ Asked(stats') = Asked(stats) + 1
            /\ Settled(stats') + Len(ack_ring') = Settled(stats) + Len(ack_ring) + 1
        BY <4>1, <4>2, EventAsked
      <4> QED
        BY <4>2, <4>3, <2>0
    <3>4. CASE IngestDuplicate(now, f)
      <4>1. Count({"frames_ok", "ev_duplicate", "frames_ok"} \cup EventAckDropped)
        BY <3>4 DEF IngestDuplicate
      <4>2. QueueEventAck(f.id, "DUPLICATE") /\ UNCHANGED ack_state_pending
        BY <3>4 DEF IngestDuplicate
      <4>3. /\ Asked(stats') = Asked(stats) + 1
            /\ Settled(stats') + Len(ack_ring') = Settled(stats) + Len(ack_ring) + 1
        BY <4>1, <4>2, EventAsked
      <4> QED
        BY <2>0, <4>2, <4>3
    <3> QED
      BY <2>1, <3>1, <3>2, <3>3, <3>4 DEF Ingest
  <2>2. ASSUME NEW now \in Times, Step(now)
        PROVE  AcksAccounted'
    <3>1. ASSUME Count({"ack_tx"})
          PROVE  Asked(stats') = Asked(stats) /\ Settled(stats') = Settled(stats) + 1
      <4>1. stats \in [Counter -> Nat]
        BY DEF TypeOK
      <4>2. /\ stats'["ack_tx"] = stats["ack_tx"] + 1
            /\ \A c \in Counter \ {"ack_tx"} : stats'[c] = stats[c]
        BY <3>1, <4>1, CountStep DEF Counter
      <4> QED
        BY <4>1, <4>2, AckCounters DEF Asked, Settled, Counter
    <3>2. CASE StepEventAck(now)
      <4>1. Len(ack_ring) = Len(ack_ring') + 1
        BY <3>2 DEF StepEventAck, TypeOK
      <4>2. UNCHANGED ack_state_pending
        BY <3>2 DEF StepEventAck
      <4>3. Count({"ack_tx"})
        BY <3>2 DEF StepEventAck
      <4> QED
        BY <3>1, <4>1, <4>2, <4>3, <2>0
    <3>3. ASSUME NEW s \in Stream, StepStateAck(now, s) PROVE AcksAccounted'
      <4>1. s \in ack_state_pending /\ ack_state_pending' = ack_state_pending \ {s}
        BY <3>3 DEF StepStateAck, NextInTurn
      <4>2. Cardinality(ack_state_pending') = Cardinality(ack_state_pending) - 1
        BY <4>1, PendingFinite, FS_RemoveElement
      <4>3. UNCHANGED ack_ring /\ Count({"ack_tx"})
        BY <3>3 DEF StepStateAck
      <4> QED
        BY <3>1, <4>2, <4>3, <2>0
    <3>4. CASE StepIdle(now)
      BY <3>4 DEF StepIdle, AcksAccounted
    <3> QED
      BY <2>2, <3>2, <3>3, <3>4 DEF Step
  <2>3. CASE UNCHANGED vars
    BY <2>3 DEF vars, AcksAccounted
  <2> QED
    BY <2>1, <2>2, <2>3 DEF Next
<1> QED
  BY <1>1, <1>2, ReceiverTypes, PTL DEF Spec

-----------------------------------------------------------------------------
(* The receiver implements the contract of module Application. *)

\* A snapshot that is applied moves its stream forward; every other frame, and every
\* step, leaves what the application holds as it was.
LEMMA IngestRefines ==
  ASSUME TypeOK, BitmapExact, NEW now \in Times, NEW f \in Frames, Ingest(now, f)
  PROVE  [App!Next]_(App!vars)
<1>0. "ev_delivered" \in Counter
  BY DEF Counter
<1>1. CASE IngestBad(now, f) \/ IngestRefused(now, f) \/ IngestOutOfWindow(now, f)
           \/ IngestDuplicate(now, f)
  <2>1. UNCHANGED <<streams, delivered>>
    BY <1>1 DEF IngestBad, IngestRefused, IngestOutOfWindow, IngestDuplicate
  <2>2. stats'["ev_delivered"] = stats["ev_delivered"]
    BY <1>0, <1>1 DEF IngestBad, IngestRefused, IngestOutOfWindow, IngestDuplicate,
                      Count, EventAckDropped
  <2> QED
    BY <2>1, <2>2 DEF App!vars
<1>2. CASE IngestState(now, f)
  <2>1. f.stream \in Stream /\ f.seq \in Nat
    BY <1>2, FrameShapes DEF IngestState
  <2>2. delivered' = delivered /\ stats'["ev_delivered"] = stats["ev_delivered"]
    BY <1>0, <1>2 DEF IngestState, Count, StateAckCoalesced
  <2>3. CASE Newer(f)
    <3> DEFINE held == [s \in Stream |-> IF streams[s].valid THEN streams[s].seq ELSE -1]
    <3>1. streams' = [streams EXCEPT ![f.stream] = [valid |-> TRUE, seq |-> f.seq, gen |-> f.gen]]
      BY <1>2, <2>3 DEF IngestState
    <3>2. held' = [held EXCEPT ![f.stream] = f.seq]
      BY <2>1, <3>1 DEF TypeOK
    <3>3. f.seq > held[f.stream]
      BY <2>1, <2>3 DEF Newer, TypeOK
    <3>4. held'[f.stream] = f.seq
      BY <2>1, <3>2
    <3>5. App!Refresh(f.stream)
      BY <2>1, <2>2, <3>2, <3>3, <3>4 DEF App!Refresh
    <3> QED
      BY <2>1, <3>5 DEF App!Next
  <2>4. CASE ~ Newer(f)
    <3>1. streams' = streams
      BY <1>2, <2>4 DEF IngestState
    <3> QED
      BY <2>2, <3>1 DEF App!vars
  <2> QED
    BY <2>3, <2>4
<1>3. CASE IngestNewEvent(now, f)
  <2>1. /\ f.id \in Nat \ {0} /\ Deliverable(f)
        /\ delivered' = delivered \cup {f.id} /\ UNCHANGED streams
    BY <1>3, FrameShapes DEF IngestNewEvent
  <2>2. stats'["ev_delivered"] = stats["ev_delivered"] + 1
    BY <1>0, <1>3 DEF IngestNewEvent, Count
  <2>3. f.id \notin delivered
    BY <2>1, NotYetDelivered
  <2> QED
    BY <2>1, <2>2, <2>3 DEF App!Next, App!Deliver
<1> QED
  BY <1>1, <1>2, <1>3 DEF Ingest

\* For every window no wider than the word, the receiver implements what it promises
\* the application: snapshots only move forward, and an id is handed over once.
THEOREM ReceiverRefines == Spec => ImplementsApplication
<1>1. Init => App!Init
  BY DEF Init, App!Init, Counter
<1>2. TypeOK /\ BitmapExact /\ [Next]_vars => [App!Next]_(App!vars)
  <2> SUFFICES ASSUME TypeOK, BitmapExact, [Next]_vars PROVE [App!Next]_(App!vars)
    OBVIOUS
  <2>1. ASSUME NEW now \in Times, NEW f \in Frames, Ingest(now, f)
        PROVE  [App!Next]_(App!vars)
    BY <2>1, IngestRefines
  <2>2. ASSUME NEW now \in Times, Step(now)
        PROVE  [App!Next]_(App!vars)
    <3>1. "ev_delivered" \in Counter
      BY DEF Counter
    <3>2. UNCHANGED <<streams, delivered>> /\ stats'["ev_delivered"] = stats["ev_delivered"]
      BY <2>2, <3>1 DEF Step, StepEventAck, StepStateAck, StepIdle, Count
    <3> QED
      BY <3>2 DEF App!vars
  <2>3. CASE UNCHANGED vars
    BY <2>3 DEF vars, App!vars
  <2> QED
    BY <2>1, <2>2, <2>3 DEF Next
<1> QED
  BY <1>1, <1>2, ReceiverTypes, ReceiverDedup, PTL DEF Spec, ImplementsApplication, App!Spec
-----------------------------------------------------------------------------
(* What the application and the link see of a receiver that is in order.     *)

\* The inductive invariant of the theorems above.
Sound == TypeOK /\ BitmapExact /\ AtMostOnce /\ AcksVouch

\* Every call keeps it.
LEMMA SoundKept == Sound /\ [Next]_vars => Sound'
  BY TypesKept, DeliveriesKept, VouchesKept DEF Sound

\* An empty receiver is in order.
LEMMA InitSound == Init => Sound
<1> SUFFICES ASSUME Init PROVE Sound
  OBVIOUS
<1>1. TypeOK
  BY StreamNonEmpty, ReceiverAssumption DEF Init, TypeOK, Counter, AckEntry
<1>2. BitmapExact
  BY ReceiverAssumption DEF Init, BitmapExact
<1>3. AtMostOnce
  BY FS_EmptySet DEF Init, AtMostOnce, Counter
<1>4. AcksVouch
  BY DEF Init, AcksVouch
<1> QED
  BY <1>1, <1>2, <1>3, <1>4 DEF Sound

\* What the surroundings may rely on between calls.
LEMMA SoundFacts ==
  ASSUME Sound
  PROVE  /\ \A s \in Stream : /\ streams[s].valid \in BOOLEAN
                              /\ streams[s].seq \in Nat /\ streams[s].gen \in Nat
         /\ \A c \in Counter : stats[c] \in Nat
         /\ delivered \subseteq Nat \ {0}
  BY DEF Sound, TypeOK

\* A snapshot may replace an older one, an event may be delivered; nothing is sent.
LEMMA IngestChanges ==
  ASSUME Sound, NEW now \in Times, NEW f \in Frames, Ingest(now, f)
  PROVE  /\ Sound'
         /\ \A s \in Stream :
              \/ streams'[s] = streams[s]
              \/ /\ f.type = "STATE" /\ f.stream = s
                 /\ ~ streams[s].valid \/ f.seq > streams[s].seq
                 /\ streams'[s].valid /\ streams'[s].seq = f.seq /\ streams'[s].gen = f.gen
         /\ delivered' = delivered \/ (f.type = "EVENT" /\ delivered' = delivered \cup {f.id})
         /\ stats'["ack_tx"] = stats["ack_tx"]
         /\ (f.type = "STATE" /\ f.stream \in Stream) \/ (f.type = "EVENT" /\ f.id # 0)
              => /\ stats'["frames_ok"] = stats["frames_ok"] + 1
                 /\ stats'["frames_rejected"] = stats["frames_rejected"]
<1>1. Sound'
  BY SoundKept DEF Next
<1>2. stats \in [Counter -> Nat] /\ streams \in [Stream -> [valid : BOOLEAN, seq : Nat, gen : Nat]]
  BY DEF Sound, TypeOK
<1>3. ASSUME NEW s \in Stream
      PROVE  \/ streams'[s] = streams[s]
             \/ /\ f.type = "STATE" /\ f.stream = s
                /\ ~ streams[s].valid \/ f.seq > streams[s].seq
                /\ streams'[s].valid /\ streams'[s].seq = f.seq /\ streams'[s].gen = f.gen
  <2>1. CASE IngestState(now, f) /\ Newer(f)
    <3>1. /\ streams' = [streams EXCEPT ![f.stream] = [valid |-> TRUE, seq |-> f.seq, gen |-> f.gen]]
          /\ f.type = "STATE" /\ f.stream \in Stream
      BY <2>1 DEF IngestState
    <3>2. s = f.stream => streams'[s] = [valid |-> TRUE, seq |-> f.seq, gen |-> f.gen]
      BY <1>2, <3>1
    <3>3. s # f.stream => streams'[s] = streams[s]
      BY <1>2, <3>1
    <3> QED
      BY <2>1, <3>1, <3>2, <3>3 DEF Newer
  <2>2. CASE streams' = streams
    BY <2>2
  <2> QED
    BY <2>1, <2>2 DEF Ingest, IngestBad, IngestRefused, IngestState, IngestNewEvent,
                      IngestDuplicate, IngestOutOfWindow
<1>4. delivered' = delivered \/ (f.type = "EVENT" /\ delivered' = delivered \cup {f.id})
  BY DEF Ingest, IngestBad, IngestRefused, IngestState, IngestNewEvent, IngestDuplicate,
         IngestOutOfWindow
<1>5. stats'["ack_tx"] = stats["ack_tx"]
  BY <1>2 DEF Ingest, IngestBad, IngestRefused, IngestState, IngestNewEvent, IngestDuplicate,
              IngestOutOfWindow, Count, Counter, StateAckCoalesced, EventAckDropped
<1>6. ASSUME (f.type = "STATE" /\ f.stream \in Stream) \/ (f.type = "EVENT" /\ f.id # 0)
      PROVE  /\ stats'["frames_ok"] = stats["frames_ok"] + 1
             /\ stats'["frames_rejected"] = stats["frames_rejected"]
  <2>1. ~ IngestBad(now, f) /\ ~ IngestRefused(now, f)
    BY <1>6 DEF IngestBad, IngestRefused, Refusable
  <2> QED
    BY <1>2, <2>1 DEF Ingest, IngestState, IngestNewEvent, IngestDuplicate,
                      IngestOutOfWindow, Count, Counter, StateAckCoalesced, EventAckDropped
<1> QED
  BY <1>1, <1>3, <1>4, <1>5, <1>6

\* A step sends one acknowledgement if one is owed, and it vouches for what was received.
LEMMA StepChanges ==
  ASSUME Sound, NEW now \in Times, Step(now)
  PROVE  /\ Sound' /\ streams' = streams /\ delivered' = delivered
         /\ stats'["frames_ok"] = stats["frames_ok"]
         /\ stats'["frames_rejected"] = stats["frames_rejected"]
         /\ ack_ring # <<>> => /\ stats'["ack_tx"] = stats["ack_tx"] + 1
                               /\ EventAck \in AckEventFrame /\ EventAck.id \in delivered
         /\ ack_ring = <<>> /\ (\E s \in Stream : NextInTurn(s))
              => stats'["ack_tx"] = stats["ack_tx"] + 1
         /\ ack_ring = <<>> /\ ~ (\E s \in Stream : NextInTurn(s))
              => stats'["ack_tx"] = stats["ack_tx"]
         /\ \A s \in Stream : NextInTurn(s) =>
              /\ streams[s].valid /\ StateAck(s) \in AckStateFrame /\ StateAck(s).stream = s
              /\ StateAck(s).seq = streams[s].seq /\ StateAck(s).gen = streams[s].gen
<1>1. Sound'
  BY SoundKept DEF Next
<1>2. stats \in [Counter -> Nat]
  BY DEF Sound, TypeOK
<1>3. /\ streams' = streams /\ delivered' = delivered
      /\ stats'["frames_ok"] = stats["frames_ok"]
      /\ stats'["frames_rejected"] = stats["frames_rejected"]
  BY <1>2 DEF Step, StepEventAck, StepStateAck, StepIdle, Count, Counter
<1>4. ASSUME ack_ring # <<>>
      PROVE  /\ stats'["ack_tx"] = stats["ack_tx"] + 1
             /\ EventAck \in AckEventFrame /\ EventAck.id \in delivered
  <2>1. ack_ring \in Seq(AckEntry) /\ Head(ack_ring) = ack_ring[1] /\ 1 \in 1 .. Len(ack_ring)
    BY <1>4 DEF Sound, TypeOK
  <2>2. Head(ack_ring) \in AckEntry /\ Head(ack_ring).id \in delivered
    BY <2>1 DEF Sound, AcksVouch
  <2>3. EventAck \in AckEventFrame /\ EventAck.id \in delivered
    BY <2>2 DEF EventAck, AckEventFrame, AckEntry
  <2> QED
    BY <1>2, <1>4, <2>3 DEF Step, StepEventAck, StepStateAck, StepIdle, Count, Counter
<1>5. ack_ring = <<>> /\ (\E s \in Stream : NextInTurn(s)) => stats'["ack_tx"] = stats["ack_tx"] + 1
  BY <1>2 DEF Step, StepEventAck, StepStateAck, StepIdle, Count, Counter, NextInTurn
<1>6. ack_ring = <<>> /\ ~ (\E s \in Stream : NextInTurn(s)) => stats'["ack_tx"] = stats["ack_tx"]
  BY <1>2 DEF Step, StepEventAck, StepStateAck, StepIdle
<1>7. ASSUME NEW s \in Stream, NextInTurn(s)
      PROVE  /\ streams[s].valid /\ StateAck(s) \in AckStateFrame /\ StateAck(s).stream = s
             /\ StateAck(s).seq = streams[s].seq /\ StateAck(s).gen = streams[s].gen
  <2>1. streams[s].valid /\ streams[s].seq \in Nat /\ streams[s].gen \in Nat /\ s \in Nat
    BY <1>7 DEF NextInTurn, Sound, AcksVouch, TypeOK, Stream
  <2> QED
    BY <2>1 DEF StateAck, AckStateFrame
<1> QED
  BY <1>1, <1>3, <1>4, <1>5, <1>6, <1>7

\* The verdict on an event: delivered for the first time, a duplicate, or out of window.
\* Nothing else delivers or counts a duplicate.
LEMMA Verdicts ==
  ASSUME Sound, NEW now \in Times, NEW f \in Frames, Ingest(now, f)
  PROVE  /\ now <= HORIZON
         /\ f.type = "EVENT" /\ f.id # 0 /\ Deliverable(f) =>
              /\ f.id \notin delivered /\ delivered' = delivered \cup {f.id}
              /\ stats'["ev_duplicate"] = stats["ev_duplicate"]
         /\ f.type = "EVENT" /\ f.id # 0 /\ ~ Deliverable(f) /\ Duplicate(f) =>
              /\ delivered' = delivered
              /\ stats'["ev_duplicate"] = stats["ev_duplicate"] + 1
         /\ f.type # "EVENT" \/ (~ Deliverable(f) /\ ~ Duplicate(f)) =>
              /\ delivered' = delivered
              /\ stats'["ev_duplicate"] = stats["ev_duplicate"]
<1>1. stats \in [Counter -> Nat] /\ TypeOK /\ BitmapExact
  BY DEF Sound, TypeOK
<1>2. now <= HORIZON
  BY DEF Ingest, IngestBad, IngestRefused, IngestState, IngestNewEvent, IngestDuplicate,
         IngestOutOfWindow, TimeOk
<1>3. ASSUME f.type = "EVENT", f.id # 0, Deliverable(f)
      PROVE  /\ f.id \notin delivered /\ delivered' = delivered \cup {f.id}
             /\ stats'["ev_duplicate"] = stats["ev_duplicate"]
  <2>0. f.id \in Nat \ {0} /\ highest_id \in Nat
    BY <1>1, <1>3, ReceiverAssumption
       DEF TypeOK, AnyFrame, StateFrame, EventFrame, AckStateFrame, AckEventFrame, BadFrame
  <2>1. IngestNewEvent(now, f)
    <3>1. ~ Duplicate(f)
      BY <1>3, <2>0 DEF Deliverable, Duplicate, InWindow, Ahead
    <3> QED
      BY <1>3, <3>1 DEF Ingest, IngestBad, IngestRefused, Refusable, IngestState,
                        IngestDuplicate, IngestOutOfWindow
  <2>2. f.id \notin delivered
    BY <1>1, <1>3, <2>0, NotYetDelivered
  <2> QED
    BY <1>1, <2>1, <2>2 DEF IngestNewEvent, Count, Counter, EventAckDropped
<1>4. ASSUME f.type = "EVENT", f.id # 0, ~ Deliverable(f), Duplicate(f)
      PROVE  /\ delivered' = delivered
             /\ stats'["ev_duplicate"] = stats["ev_duplicate"] + 1
  <2>1. IngestDuplicate(now, f)
    BY <1>4 DEF Ingest, IngestBad, IngestRefused, Refusable, IngestState, IngestNewEvent,
                IngestOutOfWindow
  <2> QED
    BY <1>1, <2>1 DEF IngestDuplicate, Count, Counter
<1>5. ASSUME f.type # "EVENT" \/ (~ Deliverable(f) /\ ~ Duplicate(f))
      PROVE  /\ delivered' = delivered
             /\ stats'["ev_duplicate"] = stats["ev_duplicate"]
  <2>1. IngestBad(now, f) \/ IngestRefused(now, f) \/ IngestState(now, f) \/ IngestOutOfWindow(now, f)
    BY <1>5 DEF Ingest, IngestNewEvent, IngestDuplicate
  <2> QED
    BY <1>1, <2>1 DEF IngestBad, IngestRefused, IngestState, IngestOutOfWindow, Count, Counter,
                      StateAckCoalesced
<1> QED
  BY <1>2, <1>3, <1>4, <1>5

\* A step sends an acknowledgement and counts no verdict.
LEMMA StepVerdicts ==
  ASSUME Sound, NEW now \in Times, Step(now)
  PROVE  delivered' = delivered /\ stats'["ev_duplicate"] = stats["ev_duplicate"]
<1>1. stats \in [Counter -> Nat]
  BY DEF Sound, TypeOK
<1> QED
  BY <1>1 DEF Step, StepEventAck, StepStateAck, StepIdle, Count, Counter

-----------------------------------------------------------------------------
(* How long an owed ACK_STATE waits. *)

\* Turns before stream s when the cursor stands at c.
LEMMA TurnsBefore ==
  ASSUME NEW n \in Nat \ {0}, NEW s \in 0 .. n - 1, NEW c \in 0 .. n - 1
  PROVE  (s - c + n) % n = IF s < c THEN s - c + n ELSE s - c
<1>1. ASSUME NEW x \in Int, 0 <= x, x < n
      PROVE  x % n = x
  BY <1>1, SMT
<1>2. ASSUME NEW x \in Int, n <= x, x < 2 * n
      PROVE  x % n = x - n
  BY <1>2, SMT
<1>3. CASE s < c
  <2>1. s - c + n \in Int /\ 0 <= s - c + n /\ s - c + n < n
    BY <1>3
  <2> QED
    BY <1>1, <1>3, <2>1
<1>4. CASE ~ (s < c)
  <2>1. s - c + n \in Int /\ n <= s - c + n /\ s - c + n < 2 * n
    BY <1>4
  <2>2. (s - c + n) % n = (s - c + n) - n
    BY <1>2, <2>1
  <2> QED
    BY <1>4, <2>2
<1> QED
  BY <1>3, <1>4

\* Serving o, whose turn came before that of s, brings s nearer by a turn at least.
LEMMA TurnPassed ==
  ASSUME NEW n \in Nat \ {0}, NEW s \in 0 .. n - 1, NEW o \in 0 .. n - 1, NEW c \in 0 .. n - 1,
         s # o, (o - c + n) % n <= (s - c + n) % n
  PROVE  ((s - ((o + 1) % n) + n) % n) + 1 <= (s - c + n) % n
<1>1. /\ (s - c + n) % n = IF s < c THEN s - c + n ELSE s - c
      /\ (o - c + n) % n = IF o < c THEN o - c + n ELSE o - c
  BY TurnsBefore
<1>2. CASE o = n - 1
  <2>1. (o + 1) % n = 0 /\ 0 \in 0 .. n - 1
    <3>1. o + 1 = n /\ n % n = 0
      BY <1>2, SMT
    <3> QED
      BY <3>1
  <2>2. (s - 0 + n) % n = s
    BY <2>1, TurnsBefore
  <2> QED
    BY <1>1, <1>2, <2>1, <2>2
<1>3. CASE o # n - 1
  <2>1. (o + 1) % n = o + 1 /\ o + 1 \in 0 .. n - 1
    <3>1. o + 1 \in 0 .. n - 1
      BY <1>3
    <3> QED
      BY <3>1, SMT
  <2>2. (s - (o + 1) + n) % n = IF s < o + 1 THEN s - (o + 1) + n ELSE s - (o + 1)
    BY <2>1, TurnsBefore
  <2> QED
    BY <1>1, <2>1, <2>2
<1> QED
  BY <1>2, <1>3

\* The distance from the cursor is a number of turns.
LEMMA TurnsNatural ==
  ASSUME NEW s \in Stream, NEW c \in Stream
  PROVE  (s - c + N_STREAMS) % N_STREAMS \in Nat
<1>1. (s - c + N_STREAMS) % N_STREAMS = IF s < c THEN s - c + N_STREAMS ELSE s - c
  BY TurnsBefore, ReceiverAssumption DEF Stream
<1> QED
  BY <1>1, ReceiverAssumption DEF Stream

\* What counting the counters C once does to the sums of the property.
In(c, C) == IF c \in C THEN 1 ELSE 0

LEMMA SumsCounted ==
  ASSUME TypeOK, NEW C, Count(C)
  PROVE  /\ Arrived' = Arrived + In("frames_ok", C) + In("frames_rejected", C)
                                + In("session_mismatch", C)
         /\ AcksSent' = AcksSent + In("ack_tx", C)
         /\ EventAcksQueued' = EventAcksQueued + In("ev_delivered", C) + In("ev_duplicate", C)
                                 - In("ack_event_dropped", C)
         /\ Arrived \in Nat /\ AcksSent \in Nat /\ EventAcksQueued \in Int
<1> DEFINE Used == {"frames_ok", "frames_rejected", "session_mismatch", "ack_tx", "ev_delivered",
                    "ev_duplicate", "ack_event_dropped"}
<1>1. \A c \in Used : stats[c] \in Nat /\ stats'[c] = stats[c] + In(c, C)
  <2>1. stats \in [Counter -> Nat] /\ Used \subseteq Counter
    BY DEF TypeOK, Counter
  <2> QED
    BY <2>1, CountStep DEF In
<1>2. \A c \in Used : In(c, C) \in {0, 1}
  BY DEF In
<1> QED
  BY <1>1, <1>2 DEF Arrived, AcksSent, EventAcksQueued

\* An event ACK is queued and counted together.
LEMMA QueueCounted ==
  ASSUME TypeOK, NEW id, NEW fl, QueueEventAck(id, fl)
  PROVE  Len(ack_ring') = Len(ack_ring) + (IF RingFull THEN 0 ELSE 1)
  BY DEF QueueEventAck, TypeOK

\* What arrives is counted once, sends nothing, and makes a stream wait longer only by
\* the event ACK it queues.
LEMMA ArrivalWaits ==
  ASSUME TypeOK, NEW now \in Times, NEW f \in Frames, Ingest(now, f)
  PROVE  /\ Arrived' = Arrived + 1 /\ Arrived \in Nat /\ AcksSent' = AcksSent
         /\ ack_rr_next' = ack_rr_next
         /\ Len(ack_ring') = Len(ack_ring) + EventAcksQueued' - EventAcksQueued
<1>1. Len(ack_ring) \in Nat
  BY DEF TypeOK
<1>2. ASSUME NEW C, Count(C), "ack_tx" \notin C,
             "ev_delivered" \notin C, "ev_duplicate" \notin C, "ack_event_dropped" \notin C,
             In("frames_ok", C) + In("frames_rejected", C) + In("session_mismatch", C) = 1,
             ack_ring' = ack_ring, ack_rr_next' = ack_rr_next
      PROVE  /\ Arrived' = Arrived + 1 /\ Arrived \in Nat /\ AcksSent' = AcksSent
             /\ ack_rr_next' = ack_rr_next
             /\ Len(ack_ring') = Len(ack_ring) + EventAcksQueued' - EventAcksQueued
  <2>1. /\ In("ack_tx", C) = 0 /\ In("ev_delivered", C) = 0 /\ In("ev_duplicate", C) = 0
        /\ In("ack_event_dropped", C) = 0
    BY <1>2 DEF In
  <2>2. /\ Arrived' = Arrived + In("frames_ok", C) + In("frames_rejected", C)
                              + In("session_mismatch", C)
        /\ AcksSent' = AcksSent /\ EventAcksQueued' = EventAcksQueued
        /\ Arrived \in Nat /\ EventAcksQueued \in Int
    BY <1>2, <2>1, SumsCounted
  <2>3. /\ In("frames_ok", C) \in {0, 1} /\ In("frames_rejected", C) \in {0, 1}
        /\ In("session_mismatch", C) \in {0, 1}
    BY DEF In
  <2> QED
    BY <1>1, <1>2, <2>2, <2>3
<1>3. ASSUME NEW id, NEW fl, QueueEventAck(id, fl), ack_rr_next' = ack_rr_next,
             NEW v \in {"ev_delivered", "ev_duplicate"}, NEW u \in {"ev_on_time", "ev_late", "frames_ok"},
             Count({"frames_ok", v, u} \cup EventAckDropped)
      PROVE  /\ Arrived' = Arrived + 1 /\ Arrived \in Nat /\ AcksSent' = AcksSent
             /\ ack_rr_next' = ack_rr_next
             /\ Len(ack_ring') = Len(ack_ring) + EventAcksQueued' - EventAcksQueued
  <2> DEFINE C == {"frames_ok", v, u} \cup EventAckDropped
  <2>1. /\ In("ack_tx", C) = 0 /\ In("frames_ok", C) = 1 /\ In("frames_rejected", C) = 0
        /\ In("session_mismatch", C) = 0
        /\ In("ev_delivered", C) + In("ev_duplicate", C) = 1
        /\ In("ev_delivered", C) \in {0, 1} /\ In("ev_duplicate", C) \in {0, 1}
    BY DEF In, EventAckDropped
  <2>2. In("ack_event_dropped", C) = IF RingFull THEN 1 ELSE 0
    BY DEF In, EventAckDropped
  <2>3. Len(ack_ring') = Len(ack_ring) + (IF RingFull THEN 0 ELSE 1)
    BY <1>3, QueueCounted
  <2>4. Count(C)
    BY <1>3
  <2> HIDE DEF C
  <2>5. /\ Arrived' = Arrived + 1 /\ AcksSent' = AcksSent
        /\ EventAcksQueued' = EventAcksQueued + 1 - In("ack_event_dropped", C)
        /\ Arrived \in Nat /\ EventAcksQueued \in Int
    BY <2>1, <2>2, <2>4, SumsCounted
  <2> QED
    BY <1>1, <1>3, <2>2, <2>3, <2>5
<1>4. CASE IngestBad(now, f)
  <2> DEFINE C == IF f.err = "SESSION" THEN {"session_mismatch"} ELSE {"frames_rejected"}
  <2>1. Count(C) /\ ack_ring' = ack_ring /\ ack_rr_next' = ack_rr_next
    BY <1>4 DEF IngestBad
  <2>2. /\ "ack_tx" \notin C /\ "ev_delivered" \notin C /\ "ev_duplicate" \notin C
        /\ "ack_event_dropped" \notin C
        /\ In("frames_ok", C) + In("frames_rejected", C) + In("session_mismatch", C) = 1
    BY DEF In
  <2> QED
    BY <1>2, <2>1, <2>2
<1>5. CASE IngestRefused(now, f)
  <2> DEFINE C == {"frames_rejected"}
  <2>1. Count(C) /\ ack_ring' = ack_ring /\ ack_rr_next' = ack_rr_next
    BY <1>5 DEF IngestRefused
  <2>2. /\ "ack_tx" \notin C /\ "ev_delivered" \notin C /\ "ev_duplicate" \notin C
        /\ "ack_event_dropped" \notin C
        /\ In("frames_ok", C) + In("frames_rejected", C) + In("session_mismatch", C) = 1
    BY DEF In
  <2> QED
    BY <1>2, <2>1, <2>2
<1>6. CASE IngestState(now, f)
  <2> DEFINE C == {"frames_ok", IF Newer(f) THEN "state_applied" ELSE "state_stale_dropped"}
                    \cup StateAckCoalesced(f.stream)
  <2>1. Count(C) /\ ack_ring' = ack_ring /\ ack_rr_next' = ack_rr_next
    BY <1>6 DEF IngestState
  <2>2. /\ "ack_tx" \notin C /\ "ev_delivered" \notin C /\ "ev_duplicate" \notin C
        /\ "ack_event_dropped" \notin C
        /\ In("frames_ok", C) + In("frames_rejected", C) + In("session_mismatch", C) = 1
    BY DEF In, StateAckCoalesced
  <2> QED
    BY <1>2, <2>1, <2>2
<1>7. CASE IngestNewEvent(now, f)
  <2>1. PICK u \in {"ev_on_time", "ev_late", "frames_ok"} :
          u = IF OnTime(now, f) THEN "ev_on_time" ELSE "ev_late"
    OBVIOUS
  <2> QED
    BY <1>3, <1>7, <2>1 DEF IngestNewEvent
<1>8. CASE IngestDuplicate(now, f)
  <2>1. {"frames_ok", "ev_duplicate"} = {"frames_ok", "ev_duplicate", "frames_ok"}
    OBVIOUS
  <2> QED
    BY <1>3, <1>8, <2>1 DEF IngestDuplicate
<1>9. CASE IngestOutOfWindow(now, f)
  <2> DEFINE C == {"frames_ok", "ev_out_of_window"}
  <2>1. Count(C) /\ ack_ring' = ack_ring /\ ack_rr_next' = ack_rr_next
    BY <1>9 DEF IngestOutOfWindow
  <2>2. /\ "ack_tx" \notin C /\ "ev_delivered" \notin C /\ "ev_duplicate" \notin C
        /\ "ack_event_dropped" \notin C
        /\ In("frames_ok", C) + In("frames_rejected", C) + In("session_mismatch", C) = 1
    BY DEF In
  <2> QED
    BY <1>2, <2>1, <2>2
<1> QED
  BY <1>4, <1>5, <1>6, <1>7, <1>8, <1>9 DEF Ingest

\* A step queues nothing; if it sends, it takes one off the wait of every stream left.
LEMMA StepWaits ==
  ASSUME TypeOK, NEW now \in Times, Step(now), ack_state_pending # {}
  PROVE  /\ AcksSent' = AcksSent + 1 /\ EventAcksQueued' = EventAcksQueued
         /\ \A s \in ack_state_pending \cap ack_state_pending' : Wait(s)' + 1 <= Wait(s)
<1>1. TypeOK'
  BY TypesKept DEF Next
<1>2. ASSUME Count({"ack_tx"})
      PROVE  AcksSent' = AcksSent + 1 /\ EventAcksQueued' = EventAcksQueued
  <2> DEFINE C == {"ack_tx"}
  <2>1. /\ In("ack_tx", C) = 1 /\ In("ev_delivered", C) = 0 /\ In("ev_duplicate", C) = 0
        /\ In("ack_event_dropped", C) = 0
    BY DEF In
  <2> HIDE DEF C
  <2>2. Count(C)
    BY <1>2 DEF C
  <2> QED
    BY <2>1, <2>2, SumsCounted
<1>3. CASE StepEventAck(now)
  <2>1. Len(ack_ring') = Len(ack_ring) - 1 /\ Len(ack_ring) \in Nat
    BY <1>3 DEF StepEventAck, TypeOK
  <2>2. ASSUME NEW s \in ack_state_pending
        PROVE  Wait(s)' + 1 <= Wait(s)
    <3>1. s \in Stream
      BY DEF TypeOK
    <3>2. RrDistance(s)' = RrDistance(s) /\ RrDistance(s) \in Nat
      BY <1>3, <3>1, TurnsNatural DEF StepEventAck, RrDistance, TypeOK
    <3> QED
      BY <2>1, <3>2 DEF Wait
  <2> QED
    BY <1>2, <1>3, <2>2 DEF StepEventAck
<1>4. ASSUME NEW o \in Stream, StepStateAck(now, o)
      PROVE  /\ AcksSent' = AcksSent + 1 /\ EventAcksQueued' = EventAcksQueued
             /\ \A s \in ack_state_pending \cap ack_state_pending' : Wait(s)' + 1 <= Wait(s)
  <2>1. ASSUME NEW s \in ack_state_pending, s \in ack_state_pending'
        PROVE  Wait(s)' + 1 <= Wait(s)
    <3>1. s \in Stream /\ s # o /\ ack_rr_next \in Stream /\ ack_rr_next' = (o + 1) % N_STREAMS
      BY <1>4, <2>1 DEF StepStateAck, TypeOK
    <3>2. RrDistance(o) <= RrDistance(s)
      BY <1>4 DEF StepStateAck, NextInTurn
    <3>3. RrDistance(s)' + 1 <= RrDistance(s)
      BY <3>1, <3>2, TurnPassed, ReceiverAssumption DEF RrDistance, Stream
    <3>4. Len(ack_ring) = 0 /\ Len(ack_ring') = 0
      BY <1>4 DEF StepStateAck
    <3>5. RrDistance(s) \in Nat /\ RrDistance(s)' \in Nat
      <4>1. ack_rr_next' \in Stream
        BY <1>1 DEF TypeOK
      <4> QED
        BY <3>1, <4>1, TurnsNatural DEF RrDistance
    <3> QED
      BY <3>3, <3>4, <3>5 DEF Wait
  <2> QED
    BY <1>2, <1>4, <2>1 DEF StepStateAck
<1>5. CASE StepIdle(now)
  BY <1>5 DEF StepIdle
<1> QED
  BY <1>3, <1>4, <1>5 DEF Step

\* While a stream owes an ACK_STATE no opportunity idles and each takes one off its wait;
\* only a queued event ACK adds to it.
THEOREM ReceiverOwedWaitBounded == Spec => OwedWaitBounded
<1>1. TypeOK /\ [Next]_vars => [WaitRunsDown]_vars
  <2> SUFFICES ASSUME TypeOK, Next PROVE WaitRunsDown
    OBVIOUS
  <2>1. TypeOK'
    BY TypesKept
  <2>2. \A c \in Counter : stats[c] \in Nat /\ stats'[c] \in Nat
    BY <2>1 DEF TypeOK
  <2>3. /\ AcksSent \in Nat /\ EventAcksQueued \in Int /\ EventAcksQueued' \in Int
        /\ Len(ack_ring) \in Nat
    <3>1. /\ stats["ack_tx"] \in Nat /\ stats["ev_delivered"] \in Nat
          /\ stats["ev_duplicate"] \in Nat /\ stats["ack_event_dropped"] \in Nat
          /\ stats'["ev_delivered"] \in Nat /\ stats'["ev_duplicate"] \in Nat
          /\ stats'["ack_event_dropped"] \in Nat
      BY <2>2 DEF Counter
    <3>2. Len(ack_ring) \in Nat
      BY DEF TypeOK
    <3>3. AcksSent \in Nat /\ EventAcksQueued \in Int
      BY <3>1 DEF AcksSent, EventAcksQueued
    <3>4. EventAcksQueued' \in Int
      BY <3>1 DEF EventAcksQueued
    <3> QED
      BY <3>2, <3>3, <3>4
  <2>4. \A s \in ack_state_pending : RrDistance(s) \in Nat /\ RrDistance(s)' \in Nat
    BY <2>1, TurnsNatural DEF TypeOK, RrDistance
  <2>5. ASSUME NEW now \in Times, NEW f \in Frames, Ingest(now, f)
        PROVE  WaitRunsDown
    <3>1. /\ Arrived' = Arrived + 1 /\ Arrived \in Nat /\ AcksSent' = AcksSent
          /\ ack_rr_next' = ack_rr_next
          /\ Len(ack_ring') = Len(ack_ring) + EventAcksQueued' - EventAcksQueued
      BY <2>5, ArrivalWaits
    <3>2. ASSUME NEW s \in ack_state_pending
          PROVE  Wait(s)' + AcksSent' - AcksSent <= Wait(s) + EventAcksQueued' - EventAcksQueued
      <4>1. RrDistance(s)' = RrDistance(s)
        BY <3>1 DEF RrDistance
      <4> QED
        BY <2>3, <2>4, <3>1, <4>1 DEF Wait
    <3> QED
      BY <3>1, <3>2 DEF WaitRunsDown
  <2>6. ASSUME NEW now \in Times, Step(now)
        PROVE  WaitRunsDown
    <3>1. CASE ack_state_pending = {}
      BY <3>1 DEF WaitRunsDown
    <3>2. CASE ack_state_pending # {}
      <4>1. /\ AcksSent' = AcksSent + 1 /\ EventAcksQueued' = EventAcksQueued
            /\ \A s \in ack_state_pending \cap ack_state_pending' : Wait(s)' + 1 <= Wait(s)
        BY <2>6, <3>2, StepWaits
      <4>2. \A s \in ack_state_pending \cap ack_state_pending' : Wait(s) \in Nat /\ Wait(s)' \in Int
        <5> SUFFICES ASSUME NEW s \in ack_state_pending \cap ack_state_pending'
                     PROVE  Wait(s) \in Nat /\ Wait(s)' \in Int
          OBVIOUS
        <5>1. Wait(s) \in Nat
          BY <2>3, <2>4 DEF Wait
        <5>2. RrDistance(s)' \in Nat /\ Len(ack_ring') \in Nat
          BY <2>1, <2>4 DEF TypeOK
        <5> QED
          BY <5>1, <5>2 DEF Wait
      <4> QED
        BY <2>3, <4>1, <4>2 DEF WaitRunsDown
    <3> QED
      BY <3>1, <3>2
  <2> QED
    BY <2>5, <2>6 DEF Next
<1> QED
  BY <1>1, ReceiverTypes, PTL DEF Spec, OwedWaitBounded
=============================================================================
