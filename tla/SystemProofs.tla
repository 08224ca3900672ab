---------------------------- MODULE SystemProofs ----------------------------
(***************************************************************************)
(* Theorems about module System: the two cores joined by a link that loses,*)
(* delays and reorders frames, for every number of streams and slots, every*)
(* set of delays and lifetimes, every run length and slot, and any workload*)
(* and trace.  What a call does to a core is taken from the lemmas of      *)
(* SenderProofs and ReceiverProofs, through the instances Snd and Rcv.     *)
(* Then theorems about module Metrics, which watches that system, for every*)
(* threshold as well: they add the invariant Watched to the system's own.  *)
(***************************************************************************)
EXTENDS Metrics, DataProofs

-----------------------------------------------------------------------------
(* The inductive invariant. *)

\* m carries a snapshot of stream s, or the acknowledgement of one.
Snapshot(m, s)    == m.frame.type = "STATE" /\ m.frame.stream = s
SnapshotAck(m, s) == m.frame.type = "ACK_STATE" /\ m.frame.stream = s

\* The pairs of a sequence number and a generation time of stream s that are about:
\* under way in either direction, held by the receiver, and in the sender's books.
OnLink(s) == {<<m.frame.seq, m.frame.gen>> : m \in {d \in data_link : Snapshot(d, s)}}
               \cup {<<m.frame.seq, m.frame.gen>> : m \in {a \in ack_link : SnapshotAck(a, s)}}

AtReceiver(s) == IF rcv_streams[s].valid THEN {<<rcv_streams[s].seq, rcv_streams[s].gen>>} ELSE {}

AtSender(s) ==
  LET st == snd_streams[s]
  IN  (IF st.latest_valid THEN {<<st.latest_seq, st.latest_gen>>} ELSE {})
        \cup (IF st.max_sent_seq > 0 THEN {<<st.max_sent_seq, st.max_sent_gen>>} ELSE {})
        \cup (IF st.last_acked_seq > 0 THEN {<<st.last_acked_seq, st.last_acked_gen>>} ELSE {})

Pairs(s) == OnLink(s) \cup AtReceiver(s) \cup AtSender(s)

\* They are pairs that were published, so generation times follow the numbers and
\* one number has one generation time.
PairsOK(s) ==
  /\ Pairs(s) \subseteq Nat \X Nat
  /\ \A p \in Pairs(s) : p[1] >= 1 /\ p[1] <= snd_streams[s].latest_seq
  /\ \A p, q \in Pairs(s) : p[1] <= q[1] => p[2] <= q[2]

\* A data frame carries a snapshot that was sent or an event that was admitted.
DataFrameOK(f) ==
  \/ f \in StateFrame /\ f.stream \in Snd!Stream /\ f.seq <= snd_streams[f.stream].max_sent_seq
  \/ f \in EventFrame /\ f.id \in 1 .. Len(outcome) /\ outcome[f.id] # "REJECTED_FULL"

\* An ACK frame vouches for a snapshot no newer than the one the receiver holds or
\* an event it delivered.
AckFrameOK(f) ==
  \/ f \in AckStateFrame /\ f.stream \in Snd!Stream /\ f.seq <= Held(f.stream)
  \/ f \in AckEventFrame /\ f.id \in delivered

Honest ==
  /\ \A m \in data_link : DataFrameOK(m.frame)
  /\ \A m \in ack_link : AckFrameOK(m.frame)

Cores == t \in Nat /\ Snd!Safe /\ Rcv!Sound

\* The part of the invariant about snapshots, and that about events.
SnapshotsOK == IntervalHolds /\ \A s \in Snd!Stream : PairsOK(s)
EventsKnown == AckedWasDelivered

Truthful == Cores /\ Honest /\ SnapshotsOK /\ EventsKnown

-----------------------------------------------------------------------------
(* The cores are used as their own theorems ask. *)

\* The two cores speak of the same frames, streams and times as the system.
LEMMA SameFrames ==
  /\ Snd!AnyFrame = AnyFrame /\ Rcv!AnyFrame = AnyFrame
  /\ Snd!StateFrame = StateFrame /\ Snd!EventFrame = EventFrame
  /\ Rcv!AckStateFrame = AckStateFrame /\ Rcv!AckEventFrame = AckEventFrame
  /\ Rcv!Stream = Snd!Stream
  BY DEF AnyFrame, StateFrame, EventFrame, AckStateFrame, AckEventFrame, BadFrame, DecodeError,
         Snd!AnyFrame, Snd!StateFrame, Snd!EventFrame, Snd!AckStateFrame, Snd!AckEventFrame,
         Snd!BadFrame, Snd!DecodeError,
         Rcv!AnyFrame, Rcv!StateFrame, Rcv!EventFrame, Rcv!AckStateFrame, Rcv!AckEventFrame,
         Rcv!BadFrame, Rcv!DecodeError, Snd!Stream, Rcv!Stream

\* The assumptions of the cores' theorems follow from the system's.
LEMMA CoreAssumptions ==
  Snd!SenderAssumption /\ Snd!TimeNoneAssumption /\ Rcv!ReceiverAssumption
  BY SystemAssumption, SameFrames
     DEF Snd!SenderAssumption, Snd!TimeNoneAssumption, Rcv!ReceiverAssumption

\* A core that is not called is as it was.
LEMMA CoresIdle ==
  ASSUME Cores
  PROVE  /\ UNCHANGED sndVars => Snd!Safe'
         /\ UNCHANGED rcvVars => Rcv!Sound'
<1>1. UNCHANGED sndVars => UNCHANGED Snd!vars
  BY DEF sndVars, Snd!vars
<1>2. UNCHANGED rcvVars => UNCHANGED Rcv!vars
  BY DEF rcvVars, Rcv!vars
<1> QED
  BY <1>1, <1>2, CoreAssumptions, Snd!NextSafe, Rcv!SoundKept DEF Cores

\* What is known of the streams' books and of what the receiver holds, in numbers.
Numeric ==
  /\ Len(outcome) \in Nat /\ Len(outcome) = snd_stats["events_generated"]
  /\ \A s \in Snd!Stream :
       LET st == snd_streams[s]
       IN  /\ st.latest_valid \in BOOLEAN /\ st.latest_seq \in Nat /\ st.latest_gen \in Nat
           /\ st.max_sent_seq \in Nat /\ st.max_sent_gen \in Nat
           /\ st.last_acked_seq \in Nat /\ st.last_acked_gen \in Nat
           /\ st.last_acked_seq <= st.max_sent_seq /\ st.max_sent_seq <= st.latest_seq
           /\ ~ st.latest_valid => st.latest_seq = 0
           /\ rcv_streams[s].valid \in BOOLEAN
           /\ rcv_streams[s].seq \in Nat /\ rcv_streams[s].gen \in Nat /\ Held(s) \in Nat

\* The fields the properties look at hold numbers.
LEMMA Numbers == Cores => Numeric
<1> SUFFICES ASSUME Cores PROVE Numeric
  OBVIOUS
<1>1. Snd!Safe /\ Rcv!Sound
  BY DEF Cores
<1>2. Len(outcome) \in Nat /\ Len(outcome) = snd_stats["events_generated"]
  BY <1>1, CoreAssumptions, Snd!SafeFacts
<1>3. ASSUME NEW s \in Snd!Stream
      PROVE  LET st == snd_streams[s]
             IN  /\ st.latest_valid \in BOOLEAN /\ st.latest_seq \in Nat /\ st.latest_gen \in Nat
                 /\ st.max_sent_seq \in Nat /\ st.max_sent_gen \in Nat
                 /\ st.last_acked_seq \in Nat /\ st.last_acked_gen \in Nat
                 /\ st.last_acked_seq <= st.max_sent_seq /\ st.max_sent_seq <= st.latest_seq
                 /\ ~ st.latest_valid => st.latest_seq = 0
  BY <1>1, CoreAssumptions, Snd!SafeFacts
<1>4. ASSUME NEW s \in Snd!Stream
      PROVE  /\ rcv_streams[s].valid \in BOOLEAN
             /\ rcv_streams[s].seq \in Nat /\ rcv_streams[s].gen \in Nat /\ Held(s) \in Nat
  <2>1. s \in Rcv!Stream
    BY SameFrames
  <2>2. /\ rcv_streams[s].valid \in BOOLEAN
        /\ rcv_streams[s].seq \in Nat /\ rcv_streams[s].gen \in Nat
    BY <1>1, <2>1, CoreAssumptions, Rcv!SoundFacts
  <2> QED
    BY <2>2 DEF Held
<1> QED
  BY <1>2, <1>3, <1>4 DEF Numeric

\* The same of the state after a step.
LEMMA NumbersNext == Cores' => Numeric'
  BY Numbers, PTL

-----------------------------------------------------------------------------
(* Keeping the parts of the invariant. *)

\* Pairs that are among those there were are in order.
LEMMA PairsKept ==
  ASSUME NEW s \in Snd!Stream, PairsOK(s), Pairs(s)' \subseteq Pairs(s),
         snd_streams'[s].latest_seq = snd_streams[s].latest_seq
  PROVE  PairsOK(s)'
  BY DEF PairsOK

\* A call that only marks the newest snapshot as sent brings no new pair.
LEMMA BooksKept ==
  ASSUME NEW s \in Snd!Stream, Snd!KeptLatest(s), Snd!KeptAcked(s),
         Snd!KeptSent(s) \/ Snd!MarkedSent(s)
  PROVE  AtSender(s)' \subseteq AtSender(s)
  BY DEF AtSender, Snd!KeptLatest, Snd!KeptAcked, Snd!KeptSent, Snd!MarkedSent

\* Frames that were honest stay so while the sender's and the receiver's marks advance.
LEMMA HonestKept ==
  ASSUME Cores, Cores', Honest, Snd!IdsKept,
         \A m \in data_link' : m \in data_link \/ DataFrameOK(m.frame)',
         \A m \in ack_link' : m \in ack_link \/ AckFrameOK(m.frame)',
         \A s \in Snd!Stream : /\ snd_streams[s].max_sent_seq <= snd_streams'[s].max_sent_seq
                               /\ Held(s) <= Held(s)',
         delivered \subseteq delivered'
  PROVE  Honest'
<1>1. ASSUME NEW m \in data_link' PROVE DataFrameOK(m.frame)'
  <2>1. CASE m \in data_link /\ m.frame \in StateFrame /\ m.frame.stream \in Snd!Stream
             /\ m.frame.seq <= snd_streams[m.frame.stream].max_sent_seq
    <3>1. /\ m.frame.seq \in Nat
          /\ snd_streams[m.frame.stream].max_sent_seq \in Nat
          /\ snd_streams'[m.frame.stream].max_sent_seq \in Nat
      BY <2>1, Numbers, NumbersNext DEF Numeric, StateFrame
    <3>2. m.frame.seq <= snd_streams'[m.frame.stream].max_sent_seq
      BY <2>1, <3>1
    <3> QED
      BY <2>1, <3>2 DEF DataFrameOK
  <2>2. CASE m \in data_link /\ m.frame \in EventFrame /\ m.frame.id \in 1 .. Len(outcome)
             /\ outcome[m.frame.id] # "REJECTED_FULL"
    <3>1. Len(outcome) \in Nat /\ Len(outcome') \in Nat /\ Len(outcome) <= Len(outcome')
      BY Numbers, NumbersNext DEF Numeric, Snd!IdsKept
    <3>2. m.frame.id \in 1 .. Len(outcome') /\ outcome'[m.frame.id] # "REJECTED_FULL"
      BY <2>2, <3>1 DEF Snd!IdsKept
    <3> QED
      BY <2>2, <3>2 DEF DataFrameOK
  <2> QED
    BY <2>1, <2>2 DEF Honest, DataFrameOK
<1>2. ASSUME NEW m \in ack_link' PROVE AckFrameOK(m.frame)'
  <2>1. CASE m \in ack_link /\ m.frame \in AckStateFrame /\ m.frame.stream \in Snd!Stream
             /\ m.frame.seq <= Held(m.frame.stream)
    <3>1. m.frame.seq \in Nat /\ Held(m.frame.stream) \in Nat /\ Held(m.frame.stream)' \in Nat
      BY <2>1, Numbers, NumbersNext DEF Numeric, AckStateFrame
    <3>2. m.frame.seq <= Held(m.frame.stream)'
      BY <2>1, <3>1
    <3> QED
      BY <2>1, <3>2 DEF AckFrameOK
  <2>2. CASE m \in ack_link /\ m.frame \in AckEventFrame /\ m.frame.id \in delivered
    BY <2>2 DEF AckFrameOK
  <2> QED
    BY <2>1, <2>2 DEF Honest, AckFrameOK
<1> QED
  BY <1>1, <1>2 DEF Honest

\* Every pair that is about is no younger than the newest snapshot published, which is
\* no younger than the call.
LEMMA PairsPast ==
  ASSUME Cores, NEW s \in Snd!Stream, PairsOK(s), NEW p \in Pairs(s)
  PROVE  /\ snd_streams[s].latest_valid /\ p[1] \in Nat /\ p[2] \in Nat
         /\ p[2] <= snd_streams[s].latest_gen
         /\ Snd!Accepts(t) => p[2] <= t
<1> DEFINE st == snd_streams[s]
<1>1. p[1] \in Nat /\ p[2] \in Nat /\ p[1] >= 1 /\ p[1] <= st.latest_seq
  BY DEF PairsOK
<1>2. st.latest_valid
  BY <1>1, Numbers DEF Numeric
<1>3. <<st.latest_seq, st.latest_gen>> \in Pairs(s)
  BY <1>2 DEF Pairs, AtSender
<1>4. p[2] <= st.latest_gen
  BY <1>1, <1>3 DEF PairsOK
<1>5. ASSUME Snd!Accepts(t) PROVE p[2] <= t
  <2>1. st.latest_gen <= snd_now /\ snd_now <= HORIZON /\ snd_now \in Nat /\ st.latest_gen \in Nat
    BY <1>2, CoreAssumptions, Snd!SafeFacts DEF Cores
  <2>2. snd_now # TIME_NONE
    BY <2>1, SystemAssumption
  <2>3. t >= snd_now /\ t \in Nat
    BY <1>5, <2>2 DEF Snd!Accepts, Cores
  <2> QED
    BY <1>1, <1>4, <2>1, <2>3
<1> QED
  BY <1>1, <1>2, <1>4, <1>5

\* A new pair, with a number larger than all there are and the time of the call.
LEMMA PairsGrow ==
  ASSUME Cores, NEW s \in Snd!Stream, PairsOK(s), Snd!Accepts(t),
         snd_streams'[s].latest_seq = snd_streams[s].latest_seq + 1,
         Pairs(s)' \subseteq Pairs(s) \cup {<<snd_streams[s].latest_seq + 1, t>>}
  PROVE  PairsOK(s)'
<1> DEFINE n == snd_streams[s].latest_seq
           new == <<n + 1, t>>
<1>1. n \in Nat /\ t \in Nat
  BY Numbers DEF Numeric, Cores
<1>2. \A p \in Pairs(s) : p \in Nat \X Nat /\ p[1] >= 1 /\ p[1] <= n /\ p[2] <= t
  BY PairsPast DEF PairsOK
<1>3. new \in Nat \X Nat /\ new[1] = n + 1 /\ new[2] = t
  BY <1>1
<1> HIDE DEF n, new
<1>4. \A p \in Pairs(s)' : p \in Pairs(s) \/ p = new
  BY DEF new, n
<1>5. ASSUME NEW p \in Pairs(s)'
      PROVE  p \in Nat \X Nat /\ p[1] >= 1 /\ p[1] <= n + 1
  BY <1>1, <1>2, <1>3, <1>4
<1>6. ASSUME NEW p \in Pairs(s)', NEW q \in Pairs(s)', p[1] <= q[1]
      PROVE  p[2] <= q[2]
  <2>1. CASE p \in Pairs(s) /\ q \in Pairs(s)
    BY <1>6, <2>1 DEF PairsOK
  <2>2. CASE q = new
    BY <1>1, <1>2, <1>3, <1>4, <2>2
  <2>3. CASE p = new /\ q \in Pairs(s)
    BY <1>1, <1>2, <1>3, <1>6, <2>3
  <2> QED
    BY <1>4, <2>1, <2>2, <2>3
<1>7. Pairs(s)' \subseteq Nat \X Nat
  BY <1>5
<1>8. \A p \in Pairs(s)' : p[1] >= 1 /\ p[1] <= snd_streams'[s].latest_seq
  BY <1>5 DEF n
<1> QED
  BY <1>6, <1>7, <1>8 DEF PairsOK

\* A call of the sender that acknowledges nothing leaves outcomes and deliveries agreed.
LEMMA EventsKept ==
  ASSUME Cores, Cores', EventsKnown, Snd!IdsKept, Snd!NoneAcked, delivered' = delivered
  PROVE  EventsKnown'
<1>1. Len(outcome) \in Nat /\ Len(outcome') \in Nat /\ Len(outcome) <= Len(outcome')
  BY Numbers, NumbersNext DEF Numeric, Snd!IdsKept
<1>2. \A id \in 1 .. Len(outcome') : outcome'[id] = "ACKED" => id \in delivered'
  BY DEF EventsKnown, AckedWasDelivered, Snd!NoneAcked
<1>3. ASSUME NEW id \in delivered
      PROVE  id \in 1 .. Len(outcome') /\ outcome'[id] # "REJECTED_FULL"
  <2>1. id \in 1 .. Len(outcome) /\ outcome[id] # "REJECTED_FULL"
    BY DEF EventsKnown, AckedWasDelivered
  <2> QED
    BY <1>1, <2>1 DEF Snd!IdsKept
<1> QED
  BY <1>2, <1>3 DEF EventsKnown, AckedWasDelivered

-----------------------------------------------------------------------------
(* One lemma per step of the run that calls a core: what it keeps truthful. *)

\* A row publishes a snapshot.
LEMMA PublishTruthful ==
  ASSUME Truthful, NEW s \in Snd!Stream, Snd!Publish(t, s), t' = t,
         UNCHANGED <<rcvVars, data_link, ack_link>>
  PROVE  Truthful'
<1>0. Cores /\ Honest /\ SnapshotsOK /\ EventsKnown /\ Snd!Safe /\ t \in Nat
  BY DEF Truthful, Cores
<1>1. /\ Snd!Safe' /\ Snd!Accepts(t) /\ Snd!IdsKept /\ Snd!NoneAcked
      /\ \A r \in Snd!Stream : /\ Snd!KeptSent(r) /\ Snd!KeptAcked(r)
                              /\ \/ Snd!KeptLatest(r)
                                 \/ /\ snd_streams'[r].latest_valid
                                    /\ snd_streams'[r].latest_seq = snd_streams[r].latest_seq + 1
                                    /\ snd_streams'[r].latest_gen = t
  BY <1>0, CoreAssumptions, Snd!PublishChanges
<1>2. Cores'
  BY <1>0, <1>1, CoresIdle DEF Cores
<1>3. \A r \in Snd!Stream : Held(r)' = Held(r) /\ OnLink(r)' = OnLink(r) /\ AtReceiver(r)' = AtReceiver(r)
  BY DEF Held, OnLink, AtReceiver, rcvVars
<1>4. delivered' = delivered
  BY DEF rcvVars
<1>5. Honest'
  BY <1>0, <1>1, <1>2, <1>3, <1>4, HonestKept, Numbers DEF Snd!KeptSent, Numeric
<1>6. IntervalHolds'
  BY <1>0, <1>1, <1>3 DEF SnapshotsOK, IntervalHolds, Snd!KeptSent, Snd!KeptAcked
<1>7. ASSUME NEW r \in Snd!Stream PROVE PairsOK(r)'
  <2>1. CASE Snd!KeptLatest(r)
    <3>1. AtSender(r)' \subseteq AtSender(r)
      BY <1>1, <2>1, BooksKept
    <3> QED
      BY <1>0, <1>3, <2>1, <3>1, PairsKept DEF Pairs, Snd!KeptLatest, SnapshotsOK
  <2>2. CASE /\ snd_streams'[r].latest_valid
             /\ snd_streams'[r].latest_seq = snd_streams[r].latest_seq + 1
             /\ snd_streams'[r].latest_gen = t
    <3>1. AtSender(r)' \subseteq AtSender(r) \cup {<<snd_streams[r].latest_seq + 1, t>>}
      BY <1>1, <2>2 DEF AtSender, Snd!KeptSent, Snd!KeptAcked
    <3>2. Pairs(r)' \subseteq Pairs(r) \cup {<<snd_streams[r].latest_seq + 1, t>>}
      BY <1>3, <3>1 DEF Pairs
    <3> QED
      BY <1>0, <1>1, <2>2, <3>2, PairsGrow DEF SnapshotsOK
  <2> QED
    BY <1>1, <2>1, <2>2
<1>8. EventsKnown'
  BY <1>0, <1>1, <1>2, <1>4, EventsKept
<1> QED
  BY <1>2, <1>5, <1>6, <1>7, <1>8 DEF Truthful, SnapshotsOK

\* A row posts an event, admitted or not.
LEMMA PostTruthful ==
  ASSUME Truthful, NEW life \in Nat \X Nat, Snd!Post(t, life), t' = t,
         UNCHANGED <<rcvVars, data_link, ack_link>>
  PROVE  Truthful'
<1>0. Cores /\ Honest /\ SnapshotsOK /\ EventsKnown /\ Snd!Safe /\ t \in Nat
  BY DEF Truthful, Cores
<1>1. /\ Snd!Safe' /\ Snd!IdsKept /\ Snd!NoneAcked
      /\ \A r \in Snd!Stream : Snd!KeptLatest(r) /\ Snd!KeptSent(r) /\ Snd!KeptAcked(r)
  BY <1>0, CoreAssumptions, Snd!PostChanges
<1>2. Cores'
  BY <1>0, <1>1, CoresIdle DEF Cores
<1>3. \A r \in Snd!Stream : Held(r)' = Held(r) /\ OnLink(r)' = OnLink(r) /\ AtReceiver(r)' = AtReceiver(r)
  BY DEF Held, OnLink, AtReceiver, rcvVars
<1>4. delivered' = delivered
  BY DEF rcvVars
<1>5. Honest'
  BY <1>0, <1>1, <1>2, <1>3, <1>4, HonestKept, Numbers DEF Snd!KeptSent, Numeric
<1>6. IntervalHolds'
  BY <1>0, <1>1, <1>3 DEF SnapshotsOK, IntervalHolds, Snd!KeptSent, Snd!KeptAcked
<1>7. ASSUME NEW r \in Snd!Stream PROVE PairsOK(r)'
  <2>1. AtSender(r)' \subseteq AtSender(r)
    BY <1>1, BooksKept
  <2> QED
    BY <1>0, <1>1, <1>3, <2>1, PairsKept DEF Pairs, Snd!KeptLatest, SnapshotsOK
<1>8. EventsKnown'
  BY <1>0, <1>1, <1>2, <1>4, EventsKept
<1> QED
  BY <1>2, <1>5, <1>6, <1>7, <1>8 DEF Truthful, SnapshotsOK

\* A frame handed to the link is under way after it, or is not.
LEMMA CarriedFrames ==
  ASSUME NEW link, NEW f, NEW e, NEW m \in Carried(link, f, e)
  PROVE  m \in link \/ m.frame = f
  BY DEF Carried

\* A transmit opportunity forward.
LEMMA ForwardTruthful ==
  ASSUME Truthful, NEW e \in Entries, ForwardOn(e)
  PROVE  Truthful'
<1>0. Cores /\ Honest /\ SnapshotsOK /\ EventsKnown /\ Snd!Safe /\ t \in Nat
  BY DEF Truthful, Cores
<1>1. PICK c \in Snd!Choices(t) :
        /\ Snd!TimeOk(t) /\ Snd!StepWith(t, c)
        /\ \/ data_link' = data_link
           \/ \E f \in Snd!FramesSent(t, c) : data_link' = Carried(data_link, f, e)
  BY DEF ForwardOn
<1>2. UNCHANGED <<t, ack_link, rcvVars>>
  BY DEF ForwardOn
<1>3. /\ Snd!Safe' /\ Snd!IdsKept /\ Snd!NoneAcked
      /\ \A r \in Snd!Stream :
           /\ Snd!KeptLatest(r) /\ Snd!KeptAcked(r)
           /\ Snd!KeptSent(r) \/ (c.kind = "STATE" /\ c.stream = r /\ Snd!MarkedSent(r))
  BY <1>0, <1>1, CoreAssumptions, Snd!StepChanges
<1>4. \A f \in Snd!FramesSent(t, c) :
        \/ /\ f \in StateFrame /\ f.stream \in Snd!Stream
           /\ snd_streams[f.stream].latest_valid /\ f.seq = snd_streams[f.stream].latest_seq
           /\ f.gen = snd_streams[f.stream].latest_gen
           /\ f.seq = snd_streams'[f.stream].max_sent_seq
        \/ /\ f \in EventFrame /\ f.id \in 1 .. Len(outcome)
           /\ outcome'[f.id] # "REJECTED_FULL"
  BY <1>0, <1>1, CoreAssumptions, Snd!StepFrames, SameFrames
<1>5. Cores'
  BY <1>0, <1>2, <1>3, CoresIdle DEF Cores
<1>6. \A r \in Snd!Stream : Held(r)' = Held(r) /\ AtReceiver(r)' = AtReceiver(r)
  BY <1>2 DEF Held, AtReceiver, rcvVars
<1>7. delivered' = delivered
  BY <1>2 DEF rcvVars
<1>8. \A m \in data_link' : m \in data_link \/ m.frame \in Snd!FramesSent(t, c)
  BY <1>1, CarriedFrames
<1>9. \A r \in Snd!Stream : snd_streams[r].max_sent_seq <= snd_streams'[r].max_sent_seq
  BY <1>0, <1>3, Numbers DEF Numeric, Snd!KeptSent, Snd!MarkedSent
<1>10. Honest'
  <2>1. \A m \in data_link' : m \in data_link \/ DataFrameOK(m.frame)'
    <3> SUFFICES ASSUME NEW f \in Snd!FramesSent(t, c) PROVE DataFrameOK(f)'
      BY <1>8
    <3>1. CASE f \in StateFrame /\ f.stream \in Snd!Stream /\ f.seq = snd_streams'[f.stream].max_sent_seq
      <4>1. f.seq \in Nat
        BY <3>1 DEF StateFrame
      <4>2. f.seq <= snd_streams'[f.stream].max_sent_seq
        BY <3>1, <4>1
      <4> QED
        BY <3>1, <4>2 DEF DataFrameOK
    <3>2. CASE f \in EventFrame /\ f.id \in 1 .. Len(outcome) /\ outcome'[f.id] # "REJECTED_FULL"
      <4>1. f.id \in 1 .. Len(outcome')
        BY <1>0, <1>3, <1>5, <3>2, Numbers, NumbersNext DEF Numeric, Snd!IdsKept
      <4> QED
        BY <3>2, <4>1 DEF DataFrameOK
    <3> QED
      BY <1>4, <3>1, <3>2
  <2>2. \A r \in Snd!Stream : Held(r) <= Held(r)'
    BY <1>0, <1>6, Numbers DEF Numeric
  <2> QED
    BY <1>0, <1>2, <1>3, <1>5, <1>7, <1>9, <2>1, <2>2, HonestKept
<1>11. IntervalHolds'
  <2> SUFFICES ASSUME NEW r \in Snd!Stream
               PROVE  /\ snd_streams'[r].last_acked_seq <= Held(r)'
                      /\ Held(r)' <= snd_streams'[r].max_sent_seq
    BY DEF IntervalHolds
  <2>1. /\ snd_streams[r].last_acked_seq <= Held(r) /\ Held(r) <= snd_streams[r].max_sent_seq
        /\ Held(r) \in Nat /\ snd_streams[r].max_sent_seq \in Nat
        /\ snd_streams'[r].max_sent_seq \in Nat
    BY <1>0, <1>5, Numbers, NumbersNext DEF SnapshotsOK, IntervalHolds, Numeric
  <2>2. snd_streams'[r].last_acked_seq = snd_streams[r].last_acked_seq
    BY <1>3 DEF Snd!KeptAcked
  <2> QED
    BY <1>6, <1>9, <2>1, <2>2
<1>12. ASSUME NEW r \in Snd!Stream PROVE PairsOK(r)'
  <2>1. AtSender(r)' \subseteq AtSender(r)
    BY <1>3, BooksKept
  <2>2. OnLink(r)' \subseteq OnLink(r) \cup AtSender(r)
    <3> SUFFICES ASSUME NEW m \in data_link', m \notin data_link, Snapshot(m, r)
                 PROVE  <<m.frame.seq, m.frame.gen>> \in AtSender(r)
      BY <1>2 DEF OnLink
    <3>1. m.frame \in Snd!FramesSent(t, c) /\ m.frame.type = "STATE" /\ m.frame.stream = r
      BY <1>8 DEF Snapshot
    <3>2. m.frame \notin EventFrame
      BY <3>1 DEF EventFrame
    <3>3. /\ snd_streams[r].latest_valid /\ m.frame.seq = snd_streams[r].latest_seq
          /\ m.frame.gen = snd_streams[r].latest_gen
      BY <1>4, <3>1, <3>2
    <3> QED
      BY <3>3 DEF AtSender
  <2> QED
    BY <1>0, <1>3, <1>6, <2>1, <2>2, PairsKept DEF Pairs, Snd!KeptLatest, SnapshotsOK
<1>13. EventsKnown'
  BY <1>0, <1>3, <1>5, <1>7, EventsKept
<1> QED
  BY <1>5, <1>10, <1>11, <1>12, <1>13 DEF Truthful, SnapshotsOK

\* A data frame arrives.
LEMMA DataArrivalTruthful ==
  ASSUME Truthful, DataArrival
  PROVE  Truthful'
<1>0. Cores /\ Honest /\ SnapshotsOK /\ EventsKnown /\ Rcv!Sound /\ t \in Nat
  BY DEF Truthful, Cores
<1>1. PICK m \in data_link : Rcv!Ingest(t, m.frame) /\ data_link' = data_link \ {m}
  BY DEF DataArrival, NextDue
<1>2. UNCHANGED <<t, ack_link, sndVars>>
  BY DEF DataArrival
<1> DEFINE f == m.frame
<1>3. DataFrameOK(f) /\ f \in AnyFrame
  <2>1. DataFrameOK(f)
    BY <1>0 DEF Honest
  <2> QED
    BY <2>1 DEF DataFrameOK, AnyFrame
<1>4. /\ Rcv!Sound'
      /\ \A s \in Rcv!Stream :
           \/ rcv_streams'[s] = rcv_streams[s]
           \/ /\ f.type = "STATE" /\ f.stream = s
              /\ ~ rcv_streams[s].valid \/ f.seq > rcv_streams[s].seq
              /\ rcv_streams'[s].valid /\ rcv_streams'[s].seq = f.seq /\ rcv_streams'[s].gen = f.gen
      /\ delivered' = delivered \/ (f.type = "EVENT" /\ delivered' = delivered \cup {f.id})
  BY <1>0, <1>1, <1>3, CoreAssumptions, Rcv!IngestChanges
<1>5. Cores'
  BY <1>0, <1>2, <1>4, CoresIdle DEF Cores
<1>6. \A s \in Snd!Stream : /\ snd_streams'[s] = snd_streams[s]
                            /\ AtSender(s)' = AtSender(s)
  BY <1>2 DEF sndVars, AtSender
<1>7. outcome' = outcome /\ events' = events
  BY <1>2 DEF sndVars
<1>8. Snd!IdsKept /\ Snd!NoneAcked
  BY <1>0, <1>7, Numbers DEF Snd!IdsKept, Snd!NoneAcked, Snd!UsedSlots, Snd!Slot, Numeric
<1> HIDE DEF f
<1>9. ASSUME NEW s \in Snd!Stream
      PROVE  /\ Held(s) <= Held(s)' /\ Held(s)' <= snd_streams[s].max_sent_seq
             /\ AtReceiver(s)' \subseteq AtReceiver(s) \cup OnLink(s)
  <2>1. /\ Held(s) \in Nat /\ Held(s) <= snd_streams[s].max_sent_seq
        /\ rcv_streams[s].seq \in Nat /\ s \in Rcv!Stream
    BY <1>0, Numbers, SameFrames DEF Numeric, SnapshotsOK, IntervalHolds
  <2>2. CASE rcv_streams'[s] = rcv_streams[s]
    BY <2>1, <2>2 DEF Held, AtReceiver
  <2>3. CASE /\ f.type = "STATE" /\ f.stream = s
             /\ ~ rcv_streams[s].valid \/ f.seq > rcv_streams[s].seq
             /\ rcv_streams'[s].valid /\ rcv_streams'[s].seq = f.seq /\ rcv_streams'[s].gen = f.gen
    <3>1. f \in StateFrame /\ f.seq <= snd_streams[s].max_sent_seq /\ f.seq \in Nat
      BY <1>3, <2>3 DEF DataFrameOK, StateFrame, EventFrame
    <3>2. Held(s)' = f.seq /\ Held(s) <= f.seq
      BY <2>1, <2>3, <3>1 DEF Held
    <3>3. <<f.seq, f.gen>> \in OnLink(s)
      BY <1>1, <2>3 DEF OnLink, Snapshot, f
    <3>4. AtReceiver(s)' = {<<f.seq, f.gen>>}
      BY <2>3 DEF AtReceiver
    <3> QED
      BY <3>1, <3>2, <3>3, <3>4
  <2> QED
    BY <1>4, <2>1, <2>2, <2>3
<1>10. delivered \subseteq delivered'
  BY <1>4
<1>11. Honest'
  BY <1>0, <1>1, <1>2, <1>5, <1>6, <1>8, <1>9, <1>10, HonestKept, Numbers DEF Numeric
<1>12. IntervalHolds'
  <2> SUFFICES ASSUME NEW s \in Snd!Stream
               PROVE  /\ snd_streams'[s].last_acked_seq <= Held(s)'
                      /\ Held(s)' <= snd_streams'[s].max_sent_seq
    BY DEF IntervalHolds
  <2>1. /\ snd_streams[s].last_acked_seq <= Held(s) /\ Held(s) \in Nat /\ Held(s)' \in Nat
        /\ snd_streams[s].last_acked_seq \in Nat
    BY <1>0, <1>5, Numbers, NumbersNext DEF SnapshotsOK, IntervalHolds, Numeric
  <2> QED
    BY <1>6, <1>9, <2>1
<1>13. ASSUME NEW s \in Snd!Stream PROVE PairsOK(s)'
  <2>1. OnLink(s)' \subseteq OnLink(s)
    BY <1>1, <1>2 DEF OnLink
  <2> QED
    BY <1>0, <1>6, <1>9, <2>1, PairsKept DEF Pairs, SnapshotsOK
<1>14. EventsKnown'
  <2>1. \A id \in 1 .. Len(outcome') : outcome'[id] = "ACKED" => id \in delivered'
    BY <1>0, <1>7, <1>10 DEF EventsKnown, AckedWasDelivered
  <2>2. ASSUME NEW id \in delivered'
        PROVE  id \in 1 .. Len(outcome) /\ outcome[id] # "REJECTED_FULL"
    <3>1. CASE id \in delivered
      BY <1>0, <3>1 DEF EventsKnown, AckedWasDelivered
    <3>2. CASE f.type = "EVENT" /\ id = f.id
      BY <1>3, <3>2 DEF DataFrameOK, StateFrame
    <3> QED
      BY <1>4, <3>1, <3>2
  <2> QED
    BY <1>7, <2>1, <2>2 DEF EventsKnown, AckedWasDelivered
<1> QED
  BY <1>5, <1>11, <1>12, <1>13, <1>14 DEF Truthful, SnapshotsOK

\* An acknowledgement arrives.
LEMMA AckArrivalTruthful ==
  ASSUME Truthful, AckArrival
  PROVE  Truthful'
<1>0. Cores /\ Honest /\ SnapshotsOK /\ EventsKnown /\ Snd!Safe /\ t \in Nat
  BY DEF Truthful, Cores
<1>1. PICK m \in ack_link : Snd!IngestAck(t, m.frame) /\ ack_link' = ack_link \ {m}
  BY DEF AckArrival, NextDue
<1>2. UNCHANGED <<t, data_link, rcvVars>>
  BY DEF AckArrival
<1> DEFINE f == m.frame
<1>3. AckFrameOK(f) /\ f \in AnyFrame
  <2>1. AckFrameOK(f)
    BY <1>0 DEF Honest
  <2> QED
    BY <2>1 DEF AckFrameOK, AnyFrame
<1>4. /\ Snd!Safe' /\ Snd!IdsKept /\ Len(outcome') = Len(outcome)
      /\ \A r \in Snd!Stream :
           /\ Snd!KeptLatest(r) /\ Snd!KeptSent(r)
           /\ \/ Snd!KeptAcked(r)
              \/ /\ f.type = "ACK_STATE" /\ f.stream = r
                 /\ snd_streams'[r].last_acked_seq = f.seq /\ snd_streams'[r].last_acked_gen = f.gen
      /\ \A id \in 1 .. Len(outcome') :
           outcome'[id] = "ACKED" => outcome[id] = "ACKED" \/ (f.type = "ACK_EVENT" /\ f.id = id)
  BY <1>0, <1>1, <1>3, CoreAssumptions, Snd!IngestAckChanges, SameFrames
<1>5. Cores'
  BY <1>0, <1>2, <1>4, CoresIdle DEF Cores
<1>6. \A s \in Snd!Stream : Held(s)' = Held(s) /\ AtReceiver(s)' = AtReceiver(s)
  BY <1>2 DEF rcvVars, AtReceiver, Held
<1>7. delivered' = delivered
  BY <1>2 DEF rcvVars
<1> HIDE DEF f
<1>8. Honest'
  BY <1>0, <1>1, <1>2, <1>4, <1>5, <1>6, <1>7, HonestKept, Numbers DEF Numeric, Snd!KeptSent
<1>9. ASSUME NEW s \in Snd!Stream
      PROVE  /\ snd_streams'[s].last_acked_seq <= Held(s)' /\ Held(s)' <= snd_streams'[s].max_sent_seq
             /\ AtSender(s)' \subseteq AtSender(s) \cup OnLink(s)
  <2>1. /\ snd_streams[s].last_acked_seq <= Held(s) /\ Held(s) <= snd_streams[s].max_sent_seq
        /\ snd_streams'[s].max_sent_seq = snd_streams[s].max_sent_seq
    BY <1>0, <1>4 DEF SnapshotsOK, IntervalHolds, Snd!KeptSent
  <2>2. CASE Snd!KeptAcked(s)
    <3>1. AtSender(s)' \subseteq AtSender(s)
      BY <1>4, <2>2, BooksKept
    <3> QED
      BY <1>6, <2>1, <2>2, <3>1 DEF Snd!KeptAcked
  <2>3. CASE /\ f.type = "ACK_STATE" /\ f.stream = s
             /\ snd_streams'[s].last_acked_seq = f.seq /\ snd_streams'[s].last_acked_gen = f.gen
    <3>1. f.seq <= Held(s)
      BY <1>3, <2>3 DEF AckFrameOK, AckStateFrame, AckEventFrame
    <3>2. <<f.seq, f.gen>> \in OnLink(s)
      BY <1>1, <2>3 DEF OnLink, SnapshotAck, f
    <3>3. AtSender(s)' \subseteq AtSender(s) \cup {<<f.seq, f.gen>>}
      BY <1>4, <2>3 DEF AtSender, Snd!KeptLatest, Snd!KeptSent
    <3> QED
      BY <1>6, <2>1, <2>3, <3>1, <3>2, <3>3
  <2> QED
    BY <1>4, <2>2, <2>3
<1>10. IntervalHolds'
  BY <1>9 DEF IntervalHolds
<1>11. ASSUME NEW s \in Snd!Stream PROVE PairsOK(s)'
  <2>1. OnLink(s)' \subseteq OnLink(s)
    BY <1>1, <1>2 DEF OnLink
  <2> QED
    BY <1>0, <1>4, <1>6, <1>9, <2>1, PairsKept DEF Pairs, SnapshotsOK, Snd!KeptLatest
<1>12. EventsKnown'
  <2>1. ASSUME NEW id \in 1 .. Len(outcome'), outcome'[id] = "ACKED"
        PROVE  id \in delivered
    <3>1. CASE outcome[id] = "ACKED"
      BY <1>0, <1>4, <3>1 DEF EventsKnown, AckedWasDelivered
    <3>2. CASE f.type = "ACK_EVENT" /\ f.id = id
      BY <1>3, <3>2 DEF AckFrameOK, AckStateFrame
    <3> QED
      BY <1>4, <2>1, <3>1, <3>2
  <2>2. \A id \in delivered : id \in 1 .. Len(outcome') /\ outcome'[id] # "REJECTED_FULL"
    BY <1>0, <1>4 DEF EventsKnown, AckedWasDelivered, Snd!IdsKept
  <2> QED
    BY <1>7, <2>1, <2>2 DEF EventsKnown, AckedWasDelivered
<1> QED
  BY <1>5, <1>8, <1>10, <1>11, <1>12 DEF Truthful, SnapshotsOK

\* What fl_receiver_step may write vouches for what was received.
LEMMA AckSentOK ==
  ASSUME Cores, Rcv!Step(t), NEW f \in AckSent
  PROVE  \/ /\ f \in AckStateFrame /\ f.stream \in Snd!Stream
            /\ rcv_streams[f.stream].valid /\ f.seq = rcv_streams[f.stream].seq
            /\ f.gen = rcv_streams[f.stream].gen
         \/ f \in AckEventFrame /\ f.id \in delivered
<1>1. Rcv!Sound /\ t \in Nat
  BY DEF Cores
<1>2. /\ ack_ring # <<>> => Rcv!EventAck \in AckEventFrame /\ Rcv!EventAck.id \in delivered
      /\ \A s \in Rcv!Stream : Rcv!NextInTurn(s) =>
           /\ rcv_streams[s].valid /\ Rcv!StateAck(s) \in AckStateFrame /\ Rcv!StateAck(s).stream = s
           /\ Rcv!StateAck(s).seq = rcv_streams[s].seq /\ Rcv!StateAck(s).gen = rcv_streams[s].gen
  BY <1>1, CoreAssumptions, Rcv!StepChanges, SameFrames
<1>3. CASE ack_ring # <<>>
  BY <1>2, <1>3 DEF AckSent
<1>4. CASE ack_ring = <<>>
  <2>1. PICK s \in Rcv!Stream : Rcv!NextInTurn(s) /\ f = Rcv!StateAck(s)
    BY <1>4 DEF AckSent
  <2> QED
    BY <1>2, <2>1, SameFrames
<1> QED
  BY <1>3, <1>4

\* A transmit opportunity in reverse.
LEMMA ReverseTruthful ==
  ASSUME Truthful, NEW e \in Entries, ReverseOn(e)
  PROVE  Truthful'
<1>0. Cores /\ Honest /\ SnapshotsOK /\ EventsKnown /\ Rcv!Sound /\ t \in Nat
  BY DEF Truthful, Cores
<1>1. /\ Rcv!Step(t)
      /\ ack_link' = ack_link \/ \E f \in AckSent : ack_link' = Carried(ack_link, f, e)
  BY DEF ReverseOn
<1>2. UNCHANGED <<t, data_link, sndVars>>
  BY DEF ReverseOn
<1>3. Rcv!Sound' /\ rcv_streams' = rcv_streams /\ delivered' = delivered
  BY <1>0, <1>1, CoreAssumptions, Rcv!StepChanges
<1>4. Cores'
  BY <1>0, <1>2, <1>3, CoresIdle DEF Cores
<1>5. \A s \in Snd!Stream : /\ snd_streams'[s] = snd_streams[s] /\ AtSender(s)' = AtSender(s)
                            /\ Held(s)' = Held(s) /\ AtReceiver(s)' = AtReceiver(s)
  BY <1>2, <1>3 DEF sndVars, AtSender, Held, AtReceiver
<1>6. outcome' = outcome /\ events' = events
  BY <1>2 DEF sndVars
<1>7. Snd!IdsKept /\ Snd!NoneAcked
  BY <1>0, <1>6, Numbers DEF Snd!IdsKept, Snd!NoneAcked, Snd!UsedSlots, Snd!Slot, Numeric
<1>8. \A m \in ack_link' : m \in ack_link \/ m.frame \in AckSent
  BY <1>1, CarriedFrames
<1>9. Honest'
  <2>1. \A m \in ack_link' : m \in ack_link \/ AckFrameOK(m.frame)'
    <3> SUFFICES ASSUME NEW f \in AckSent PROVE AckFrameOK(f)'
      BY <1>8
    <3>1. CASE /\ f \in AckStateFrame /\ f.stream \in Snd!Stream
               /\ rcv_streams[f.stream].valid /\ f.seq = rcv_streams[f.stream].seq
      <4>1. Held(f.stream)' = f.seq /\ f.seq \in Nat
        BY <1>5, <3>1 DEF Held, AckStateFrame
      <4> QED
        BY <3>1, <4>1 DEF AckFrameOK
    <3>2. CASE f \in AckEventFrame /\ f.id \in delivered
      BY <1>3, <3>2 DEF AckFrameOK
    <3> QED
      BY <1>0, <1>1, <3>1, <3>2, AckSentOK
  <2> QED
    BY <1>0, <1>2, <1>3, <1>4, <1>5, <1>7, <2>1, HonestKept, Numbers DEF Numeric
<1>10. IntervalHolds'
  BY <1>0, <1>5 DEF SnapshotsOK, IntervalHolds
<1>11. ASSUME NEW s \in Snd!Stream PROVE PairsOK(s)'
  <2>1. OnLink(s)' \subseteq OnLink(s) \cup AtReceiver(s)
    <3> SUFFICES ASSUME NEW m \in ack_link', m \notin ack_link, SnapshotAck(m, s)
                 PROVE  <<m.frame.seq, m.frame.gen>> \in AtReceiver(s)
      BY <1>2 DEF OnLink
    <3>1. m.frame \in AckSent /\ m.frame.type = "ACK_STATE" /\ m.frame.stream = s
      BY <1>8 DEF SnapshotAck
    <3>2. m.frame \notin AckEventFrame
      BY <3>1 DEF AckEventFrame
    <3>3. /\ rcv_streams[s].valid /\ m.frame.seq = rcv_streams[s].seq
          /\ m.frame.gen = rcv_streams[s].gen
      BY <1>0, <1>1, <3>1, <3>2, AckSentOK
    <3> QED
      BY <3>3 DEF AtReceiver
  <2> QED
    BY <1>0, <1>5, <2>1, PairsKept DEF Pairs, SnapshotsOK
<1>12. EventsKnown'
  BY <1>0, <1>3, <1>4, <1>7, EventsKept
<1> QED
  BY <1>4, <1>9, <1>10, <1>11, <1>12 DEF Truthful, SnapshotsOK

\* A step that calls neither core and leaves the link alone.
LEMMA IdleTruthful ==
  ASSUME Truthful, t' \in Nat, UNCHANGED <<sndVars, rcvVars, data_link, ack_link>>
  PROVE  Truthful'
<1>1. Cores'
  BY CoresIdle DEF Truthful, Cores
<1>2. Honest'
  BY DEF Truthful, Honest, DataFrameOK, AckFrameOK, Held, sndVars, rcvVars
<1>3. IntervalHolds'
  BY DEF Truthful, SnapshotsOK, IntervalHolds, Held, sndVars, rcvVars
<1>4. \A s \in Snd!Stream : PairsOK(s)'
  BY DEF Truthful, SnapshotsOK, PairsOK, Pairs, OnLink, AtReceiver, AtSender, sndVars, rcvVars
<1>5. EventsKnown'
  BY DEF Truthful, EventsKnown, AckedWasDelivered, sndVars, rcvVars
<1> QED
  BY <1>1, <1>2, <1>3, <1>4, <1>5 DEF Truthful, SnapshotsOK

\* A workload row, whatever it is.
LEMMA RowTruthful ==
  ASSUME Truthful, NEW row \in StateRows \cup EventRows, TakeRow(row)
  PROVE  Truthful'
<1>1. UNCHANGED <<t, data_link, ack_link, rcvVars>>
  BY DEF TakeRow
<1>2. CASE row.action = "STATE"
  <2>1. row.stream \in Snd!Stream /\ Snd!Publish(t, row.stream)
    BY <1>2 DEF TakeRow, StateRows, EventRows
  <2> QED
    BY <1>1, <2>1, PublishTruthful
<1>3. CASE row.action # "STATE"
  <2>1. row.life \in Nat \X Nat /\ Snd!Post(t, row.life)
    BY <1>3, SystemAssumption DEF TakeRow, StateRows, EventRows
  <2> QED
    BY <1>1, <2>1, PostTruthful
<1> QED
  BY <1>2, <1>3

\* Every step of the run keeps the system truthful.
LEMMA TruthfulKept == Truthful /\ [Next]_vars => Truthful'
<1> SUFFICES ASSUME Truthful, [Next]_vars PROVE Truthful'
  OBVIOUS
<1>1. t \in Nat
  BY DEF Truthful, Cores
<1>2. CASE WorkloadRow
  BY <1>2, RowTruthful DEF WorkloadRow
<1>3. CASE Forward
  BY <1>3, ForwardTruthful DEF Forward
<1>4. CASE Reverse
  BY <1>4, ReverseTruthful DEF Reverse
<1>5. CASE WorkloadDone \/ DataDone \/ AckDone \/ EndOfMs
  <2>1. t' \in Nat
    BY <1>1, <1>5 DEF WorkloadDone, DataDone, AckDone, EndOfMs
  <2>2. UNCHANGED <<sndVars, rcvVars, data_link, ack_link>>
    BY <1>5 DEF WorkloadDone, DataDone, AckDone, EndOfMs
  <2> QED
    BY <2>1, <2>2, IdleTruthful
<1>6. CASE UNCHANGED vars
  BY <1>1, <1>6, IdleTruthful DEF vars, hostVars
<1> QED
  BY <1>2, <1>3, <1>4, <1>5, <1>6, DataArrivalTruthful, AckArrivalTruthful DEF Next

\* Before the run nothing was published, sent or delivered.
LEMMA InitTruthful == Init => Truthful
<1> SUFFICES ASSUME Init PROVE Truthful
  OBVIOUS
<1>1. Cores
  <2>1. Snd!Safe
    BY CoreAssumptions, Snd!InitSafe DEF Init
  <2>2. Rcv!Sound
    BY CoreAssumptions, Rcv!InitSound DEF Init
  <2> QED
    BY <2>1, <2>2 DEF Cores, Init
<1>2. /\ data_link = {} /\ ack_link = {} /\ outcome = <<>> /\ delivered = {}
      /\ \A s \in Snd!Stream :
           /\ snd_streams[s].latest_valid = FALSE /\ snd_streams[s].last_acked_seq = 0
           /\ snd_streams[s].max_sent_seq = 0
           /\ rcv_streams[s].valid = FALSE
  BY SameFrames DEF Init, Snd!Init, Rcv!Init
<1>3. Honest
  BY <1>2 DEF Honest
<1>4. IntervalHolds
  BY <1>2 DEF IntervalHolds, Held
<1>5. ASSUME NEW s \in Snd!Stream PROVE PairsOK(s)
  <2>1. Pairs(s) = {}
    BY <1>2 DEF Pairs, OnLink, AtReceiver, AtSender
  <2> QED
    BY <2>1 DEF PairsOK
<1>6. EventsKnown
  <2>1. 1 .. Len(outcome) = {}
    BY <1>2
  <2> QED
    BY <1>2, <2>1 DEF EventsKnown, AckedWasDelivered
<1> QED
  BY <1>1, <1>3, <1>4, <1>5, <1>6 DEF Truthful, SnapshotsOK

-----------------------------------------------------------------------------
(* The theorems about truth. *)

\* The invariant about truth holds: every frame under way tells what was, and the two
\* cores agree about it.
THEOREM SystemTruthful == Spec => []Truthful
  BY InitTruthful, TruthfulKept, PTL DEF Spec

\* What the receiver holds of a stream lies between what the sender knows and what it
\* sent, at every instant, under any losses, delays and reordering.
THEOREM SystemIntervalHolds == Spec => []IntervalHolds
<1>1. Truthful => IntervalHolds
  BY DEF Truthful, SnapshotsOK
<1> QED
  BY <1>1, SystemTruthful, PTL

\* The age the sender estimates never flatters, and its pair was published together.
THEOREM SystemEstimateConservative == Spec => []EstimateConservative
<1>1. Truthful => EstimateConservative
  <2> SUFFICES ASSUME Truthful, NEW s \in Snd!Stream, snd_streams[s].last_acked_seq > 0
               PROVE  /\ snd_streams[s].last_acked_gen <= rcv_streams[s].gen
                      /\ snd_streams[s].last_acked_seq = Held(s)
                           => snd_streams[s].last_acked_gen = rcv_streams[s].gen
    BY DEF EstimateConservative
  <2> DEFINE a == <<snd_streams[s].last_acked_seq, snd_streams[s].last_acked_gen>>
             h == <<rcv_streams[s].seq, rcv_streams[s].gen>>
  <2>1. /\ snd_streams[s].last_acked_seq <= Held(s) /\ PairsOK(s)
        /\ snd_streams[s].last_acked_seq \in Nat /\ snd_streams[s].last_acked_gen \in Nat
        /\ rcv_streams[s].seq \in Nat /\ rcv_streams[s].gen \in Nat
    BY Numbers DEF Truthful, SnapshotsOK, IntervalHolds, Numeric
  <2>2. rcv_streams[s].valid /\ Held(s) = rcv_streams[s].seq
    BY <2>1 DEF Held
  <2>3. a \in Pairs(s)
    BY DEF Pairs, AtSender
  <2>4. h \in Pairs(s)
    BY <2>2 DEF Pairs, AtReceiver
  <2>5. /\ a[1] <= h[1] => a[2] <= h[2]
        /\ h[1] <= a[1] => h[2] <= a[2]
    BY <2>1, <2>3, <2>4 DEF PairsOK
  <2> QED
    BY <2>1, <2>2, <2>5
<1> QED
  BY <1>1, SystemTruthful, PTL

\* What the ledger calls acknowledged was delivered, and nothing rejected was.
THEOREM SystemAckedWasDelivered == Spec => []AckedWasDelivered
<1>1. Truthful => AckedWasDelivered
  BY DEF Truthful, EventsKnown
<1> QED
  BY <1>1, SystemTruthful, PTL

\* No event is left in the table past its retention once a slot's turn forward is over.
THEOREM SystemRetentionBound == Spec => []RetentionBound
<1>1. Init => RetentionBound
  BY DEF Init, RetentionBound
<1>2. Truthful /\ RetentionBound /\ [Next]_vars => RetentionBound'
  <2> SUFFICES ASSUME Truthful, RetentionBound, [Next]_vars PROVE RetentionBound'
    OBVIOUS
  <2>1. CASE WorkloadRow \/ WorkloadDone \/ DataArrival \/ DataDone \/ AckArrival \/ EndOfMs
    <3>1. phase' \notin {"reverse", "check"}
      BY <2>1 DEF WorkloadRow, TakeRow, WorkloadDone, DataArrival, DataDone, AckArrival, EndOfMs
    <3> QED
      BY <3>1 DEF RetentionBound
  <2>2. CASE AckDone
    <3>1. t' = t /\ (phase' = "forward" \/ (phase' = "check" /\ t % SLOT_MS # 0))
      BY <2>2 DEF AckDone
    <3> QED
      BY <3>1 DEF RetentionBound
  <2>3. CASE Forward
    <3>1. PICK c \in Snd!Choices(t) : Snd!TimeOk(t) /\ Snd!StepWith(t, c) /\ t' = t
      BY <2>3 DEF Forward, ForwardOn
    <3>2. \A i \in Snd!UsedSlots' : t < events'[i].retention
      BY <3>1, CoreAssumptions, Snd!StepChanges DEF Truthful, Cores
    <3> QED
      BY <3>1, <3>2 DEF RetentionBound
  <2>4. CASE Reverse
    <3>1. UNCHANGED <<t, events>> /\ phase = "reverse"
      BY <2>4 DEF Reverse, ReverseOn, sndVars
    <3> QED
      BY <3>1 DEF RetentionBound, Snd!UsedSlots, Snd!Slot
  <2>5. CASE UNCHANGED vars
    BY <2>5 DEF vars, hostVars, sndVars, RetentionBound, Snd!UsedSlots, Snd!Slot
  <2> QED
    BY <2>1, <2>2, <2>3, <2>4, <2>5 DEF Next
<1> QED
  BY <1>1, <1>2, SystemTruthful, PTL DEF Spec

-----------------------------------------------------------------------------
(* Conservation. *)

\* An event that was never transmitted is under way nowhere and was not delivered, so
\* no honest acknowledgement names it.
Untried ==
  \A i \in Snd!UsedSlots : events[i].attempts = 0 =>
    /\ events[i].id \notin delivered
    /\ \A m \in data_link : m.frame.type = "EVENT" => m.frame.id # events[i].id

\* What is under way was sent in a slot that is over, or in this one after its turn
\* came, and is not overdue: what is due now is taken before its phase ends.
Timely ==
  /\ \A m \in data_link \cup ack_link :
       /\ m.sent \in Nat /\ m.sent <= t
       /\ m.arrival \in Nat /\ t <= m.arrival /\ m.arrival < RUN_MS
  /\ \A m \in data_link : /\ m.sent = t => phase \in {"reverse", "check", "end"}
                          /\ m.arrival = t => phase \in {"workload", "data"}
  /\ \A m \in ack_link : /\ m.sent = t => phase \in {"check", "end"}
                         /\ m.arrival = t => phase \in {"workload", "data", "ack"}

\* The counters: every frame has one fate, and none was refused.
DataBooked ==
  /\ IsFiniteSet(data_link)
  /\ Snd!Transmissions = count["data_frames"]
  /\ rcv_stats["frames_ok"] + count["data_lost"] + count["in_transit_data"]
       + Cardinality(data_link) = count["data_frames"]
  /\ rcv_stats["frames_rejected"] = 0

AckBooked ==
  /\ IsFiniteSet(ack_link)
  /\ rcv_stats["ack_tx"] = count["ack_frames"]
  /\ Snd!AcksTaken + count["ack_lost"] + count["in_transit_ack"]
       + Cardinality(ack_link) = count["ack_frames"]
  /\ snd_stats["acks_impossible"] = 0 /\ snd_stats["acks_rejected_frame"] = 0

Conserved ==
  /\ count \in [Tally -> Nat]
  /\ Untried /\ Timely /\ DataBooked /\ AckBooked

\* Before its phase ends the link has delivered everything due.
LEMMA NoneDue ==
  ASSUME NEW link, \A m \in link : m.sent \in Nat, ~ Due(link)
  PROVE  \A m \in link : m.arrival # t
<1> SUFFICES ASSUME NEW m \in link, m.arrival = t PROVE FALSE
  OBVIOUS
<1> DEFINE D == {d \in link : d.arrival = t}
           T == {d.sent : d \in D}
<1>1. T \subseteq Nat /\ m.sent \in T
  OBVIOUS
<1>2. PICK x \in T : \A y \in T : x <= y
  BY <1>1, NatMin
<1>3. PICK d \in D : d.sent = x
  BY <1>2
<1>4. d \in NextDue(link)
  BY <1>2, <1>3 DEF NextDue
<1> QED
  BY <1>4 DEF Due

\* A frame under way was sent now and arrives later, before the end of the run.
LEMMA CarriedTimes ==
  ASSUME t \in Nat, NEW link, NEW f, NEW e \in Entries, NEW m \in Carried(link, f, e)
  PROVE  \/ m \in link
         \/ m.sent = t /\ m.arrival \in Nat /\ t < m.arrival /\ m.arrival < RUN_MS
<1>1. e = 0 \/ (e \in Nat /\ e >= 1)
  BY SystemAssumption DEF Entries, Lost
<1>2. CASE Fate(e) = "under_way"
  <2>1. e \in Nat /\ e >= 1 /\ ~ (t + e >= RUN_MS)
    BY <1>1, <1>2 DEF Fate, Lost
  <2>2. m \in link \/ m = [sent |-> t, arrival |-> t + e, frame |-> f]
    BY <1>2 DEF Carried
  <2>3. RUN_MS \in Nat
    BY SystemAssumption
  <2> QED
    BY <2>1, <2>2, <2>3
<1>3. CASE Fate(e) # "under_way"
  BY <1>3 DEF Carried
<1> QED
  BY <1>2, <1>3

\* A frame handed to the link adds one to what is under way, lost or in transit.
LEMMA CarriedCount ==
  ASSUME t \in Nat, NEW link, IsFiniteSet(link), \A m \in link : m.sent # t, NEW f, NEW e
  PROVE  LET n == Carried(link, f, e)
         IN  /\ IsFiniteSet(n) /\ Cardinality(link) \in Nat
             /\ Cardinality(n) = Cardinality(link) + (IF Fate(e) = "under_way" THEN 1 ELSE 0)
<1> DEFINE r == [sent |-> t, arrival |-> t + e, frame |-> f]
           n == Carried(link, f, e)
<1>1. Cardinality(link) \in Nat
  BY FS_CardinalityType
<1>2. CASE Fate(e) = "under_way"
  <2>1. n = link \cup {r} /\ r \notin link
    BY <1>2 DEF Carried
  <2>2. IsFiniteSet(n) /\ Cardinality(n) = Cardinality(link) + 1
    BY <2>1, FS_AddElement
  <2> QED
    BY <1>1, <1>2, <2>2
<1>3. CASE Fate(e) # "under_way"
  <2>1. n = link
    BY <1>3 DEF Carried
  <2> QED
    BY <1>1, <1>3, <2>1
<1> QED
  BY <1>2, <1>3

\* The counters one frame adds to: one for the direction and one unless it is under way.
LEMMA Bumped ==
  ASSUME count \in [Tally -> Nat], NEW e
  PROVE  /\ Bump(DataTally(Fate(e))) =>
              /\ count' \in [Tally -> Nat] /\ count'["data_frames"] = count["data_frames"] + 1
              /\ count'["data_lost"] + count'["in_transit_data"]
                   + (IF Fate(e) = "under_way" THEN 1 ELSE 0)
                   = count["data_lost"] + count["in_transit_data"] + 1
              /\ \A k \in {"ack_frames", "ack_lost", "in_transit_ack"} : count'[k] = count[k]
         /\ Bump(AckTally(Fate(e))) =>
              /\ count' \in [Tally -> Nat] /\ count'["ack_frames"] = count["ack_frames"] + 1
              /\ count'["ack_lost"] + count'["in_transit_ack"]
                   + (IF Fate(e) = "under_way" THEN 1 ELSE 0)
                   = count["ack_lost"] + count["in_transit_ack"] + 1
              /\ \A k \in {"data_frames", "data_lost", "in_transit_data"} : count'[k] = count[k]
<1>0. \A k \in Tally : count[k] \in Nat
  OBVIOUS
<1>1. Fate(e) \in {"lost", "in_transit", "under_way"}
  BY DEF Fate
<1>2. CASE Fate(e) = "lost"
  BY <1>0, <1>2 DEF Bump, DataTally, AckTally, Tally
<1>3. CASE Fate(e) = "in_transit"
  BY <1>0, <1>3 DEF Bump, DataTally, AckTally, Tally
<1>4. CASE Fate(e) = "under_way"
  BY <1>0, <1>4 DEF Bump, DataTally, AckTally, Tally
<1> QED
  BY <1>1, <1>2, <1>3, <1>4

\* An event with no attempt had none before, or is new; either way nothing names it.
LEMMA UntriedKept ==
  ASSUME Truthful, Untried, Snd!IdsKept, delivered' = delivered,
         \A m \in data_link' :
           \/ m \in data_link
           \/ m.frame.type = "EVENT" =>
                \A i \in Snd!UsedSlots' : events'[i].id = m.frame.id => events'[i].attempts # 0
  PROVE  Untried'
<1> SUFFICES ASSUME NEW i \in Snd!UsedSlots', events'[i].attempts = 0
             PROVE  /\ events'[i].id \notin delivered
                    /\ \A m \in data_link' : m.frame.type = "EVENT" => m.frame.id # events'[i].id
  BY DEF Untried
<1>1. Len(outcome) \in Nat
  BY Numbers DEF Truthful, Numeric
<1>2. CASE i \in Snd!UsedSlots /\ events[i].id = events'[i].id /\ events[i].attempts = 0
  BY <1>2 DEF Untried
<1>3. CASE events'[i].id = Len(outcome) + 1
  <2>1. events'[i].id \notin 1 .. Len(outcome)
    BY <1>1, <1>3
  <2>2. events'[i].id \notin delivered
    BY <2>1 DEF Truthful, EventsKnown, AckedWasDelivered
  <2>3. \A m \in data_link : m.frame.type = "EVENT" => m.frame.id # events'[i].id
    BY <2>1 DEF Truthful, Honest, DataFrameOK, StateFrame
  <2> QED
    BY <2>2, <2>3
<1> QED
  BY <1>2, <1>3 DEF Snd!IdsKept

\* A workload row sends nothing.
LEMMA RowConserved ==
  ASSUME Truthful, Conserved, NEW row \in StateRows \cup EventRows, TakeRow(row)
  PROVE  Conserved'
<1>0. Cores /\ Snd!Safe /\ t \in Nat
  BY DEF Truthful, Cores
<1>1. UNCHANGED <<t, phase, data_link, ack_link, count, rcvVars>>
  BY DEF TakeRow
<1>2. /\ Snd!IdsKept /\ Snd!Transmissions' = Snd!Transmissions /\ Snd!AcksTaken' = Snd!AcksTaken
      /\ snd_stats'["acks_impossible"] = snd_stats["acks_impossible"]
      /\ snd_stats'["acks_rejected_frame"] = snd_stats["acks_rejected_frame"]
  <2>1. CASE row.action = "STATE"
    <3>1. row.stream \in Snd!Stream /\ Snd!Publish(t, row.stream)
      BY <2>1 DEF TakeRow, StateRows, EventRows
    <3> QED
      BY <1>0, <3>1, CoreAssumptions, Snd!PublishChanges
  <2>2. CASE row.action # "STATE"
    <3>1. row.life \in Nat \X Nat /\ Snd!Post(t, row.life)
      BY <2>2, SystemAssumption DEF TakeRow, StateRows, EventRows
    <3> QED
      BY <1>0, <3>1, CoreAssumptions, Snd!PostChanges
  <2> QED
    BY <2>1, <2>2
<1>3. delivered' = delivered /\ rcv_stats' = rcv_stats
  BY <1>1 DEF rcvVars
<1>4. Untried'
  BY <1>1, <1>2, <1>3, UntriedKept DEF Conserved
<1>5. Timely'
  BY <1>1 DEF Conserved, Timely
<1>6. DataBooked' /\ AckBooked'
  BY <1>1, <1>2, <1>3 DEF Conserved, DataBooked, AckBooked
<1> QED
  BY <1>1, <1>4, <1>5, <1>6 DEF Conserved

\* The end of a phase, or of a millisecond: what was due has been taken.
LEMMA PhaseConserved ==
  ASSUME Truthful, Conserved, WorkloadDone \/ DataDone \/ AckDone \/ EndOfMs
  PROVE  Conserved'
<1>0. t \in Nat /\ RUN_MS \in Nat
  BY SystemAssumption DEF Truthful, Cores
<1>1. UNCHANGED <<data_link, ack_link, count, sndVars, rcvVars>>
  BY DEF WorkloadDone, DataDone, AckDone, EndOfMs
<1>2. DataBooked' /\ AckBooked'
  BY <1>1 DEF Conserved, DataBooked, AckBooked, Snd!Transmissions, Snd!AcksTaken, sndVars, rcvVars
<1>3. Untried'
  BY <1>1 DEF Conserved, Untried, Snd!UsedSlots, Snd!Slot, sndVars, rcvVars
<1>4. Timely'
  <2>1. /\ Timely
        /\ \A m \in data_link : m.sent \in Nat /\ m.sent <= t /\ m.arrival \in Nat
                                /\ t <= m.arrival /\ m.arrival < RUN_MS
        /\ \A m \in ack_link : m.sent \in Nat /\ m.sent <= t /\ m.arrival \in Nat
                               /\ t <= m.arrival /\ m.arrival < RUN_MS
    BY DEF Conserved, Timely
  <2>2. CASE WorkloadDone
    BY <1>1, <2>1, <2>2 DEF WorkloadDone, Timely
  <2>3. CASE DataDone
    <3>1. \A m \in data_link : m.arrival # t
      BY <2>1, <2>3, NoneDue DEF DataDone
    <3> QED
      BY <1>1, <2>1, <2>3, <3>1 DEF DataDone, Timely
  <2>4. CASE AckDone
    <3>1. \A m \in ack_link : m.arrival # t
      BY <2>1, <2>4, NoneDue DEF AckDone
    <3> QED
      BY <1>1, <2>1, <2>4, <3>1 DEF AckDone, Timely
  <2>5. CASE EndOfMs
    <3>1. /\ phase = "check" /\ t' = t + 1
          /\ phase' = IF t' = RUN_MS THEN "end" ELSE "workload"
      BY <2>5 DEF EndOfMs
    <3>2. \A m \in data_link \cup ack_link : m.arrival # t
      BY <2>1, <3>1 DEF Timely
    <3>3. \A m \in data_link \cup ack_link :
            /\ m.sent \in Nat /\ m.sent <= t' /\ m.sent # t'
            /\ m.arrival \in Nat /\ t' <= m.arrival /\ m.arrival < RUN_MS
      BY <1>0, <2>1, <3>1, <3>2
    <3>4. \A m \in data_link \cup ack_link : m.arrival = t' => phase' = "workload"
      BY <1>0, <3>1, <3>3
    <3> QED
      BY <1>1, <3>3, <3>4 DEF Timely
  <2> QED
    BY <2>2, <2>3, <2>4, <2>5
<1> QED
  BY <1>1, <1>2, <1>3, <1>4 DEF Conserved

\* A frame that arrives leaves the link with one frame less.
LEMMA TakenCount ==
  ASSUME NEW link, IsFiniteSet(link), NEW m \in link
  PROVE  /\ IsFiniteSet(link \ {m}) /\ Cardinality(link) \in Nat
         /\ Cardinality(link \ {m}) \in Nat
         /\ Cardinality(link \ {m}) + 1 = Cardinality(link)
<1>1. IsFiniteSet(link \ {m}) /\ Cardinality(link \ {m}) = Cardinality(link) - 1
  BY FS_RemoveElement
<1>2. Cardinality(link) \in Nat /\ Cardinality(link \ {m}) \in Nat
  BY <1>1, FS_CardinalityType
<1> QED
  BY <1>1, <1>2

\* A data frame that arrives is received, never refused.
LEMMA DataArrivalConserved ==
  ASSUME Truthful, Conserved, DataArrival
  PROVE  Conserved'
<1>0. Cores /\ Honest /\ Rcv!Sound /\ t \in Nat
  BY DEF Truthful, Cores
<1>1. PICK m \in data_link : Rcv!Ingest(t, m.frame) /\ data_link' = data_link \ {m}
  BY DEF DataArrival, NextDue
<1>2. UNCHANGED <<t, phase, ack_link, count, sndVars>>
  BY DEF DataArrival
<1> DEFINE f == m.frame
<1>3. DataFrameOK(f)
  BY <1>0 DEF Honest
<1>4. /\ f \in AnyFrame
      /\ (f.type = "STATE" /\ f.stream \in Rcv!Stream) \/ (f.type = "EVENT" /\ f.id # 0)
  <2>1. CASE f \in StateFrame /\ f.stream \in Snd!Stream
    BY <2>1, SameFrames DEF AnyFrame, StateFrame
  <2>2. CASE f \in EventFrame /\ f.id \in 1 .. Len(outcome)
    <3>1. f.id # 0
      BY <1>0, <2>2, Numbers DEF Numeric
    <3> QED
      BY <2>2, <3>1 DEF AnyFrame, EventFrame
  <2> QED
    BY <1>3, <2>1, <2>2 DEF DataFrameOK
<1>5. /\ rcv_stats'["ack_tx"] = rcv_stats["ack_tx"]
      /\ rcv_stats'["frames_ok"] = rcv_stats["frames_ok"] + 1
      /\ rcv_stats'["frames_rejected"] = rcv_stats["frames_rejected"]
      /\ delivered' = delivered \/ (f.type = "EVENT" /\ delivered' = delivered \cup {f.id})
  BY <1>0, <1>1, <1>4, CoreAssumptions, Rcv!IngestChanges
<1>6. Untried'
  <2> SUFFICES ASSUME NEW i \in Snd!UsedSlots, events[i].attempts = 0
               PROVE  /\ events[i].id \notin delivered'
                      /\ \A d \in data_link' : d.frame.type = "EVENT" => d.frame.id # events[i].id
    BY <1>2 DEF Untried, Snd!UsedSlots, Snd!Slot, sndVars
  <2>1. /\ events[i].id \notin delivered
        /\ \A d \in data_link : d.frame.type = "EVENT" => d.frame.id # events[i].id
    BY DEF Conserved, Untried
  <2> QED
    BY <1>1, <1>5, <2>1
<1>7. Timely'
  BY <1>1, <1>2 DEF Conserved, Timely
<1>8. DataBooked'
  <2>1. /\ IsFiniteSet(data_link') /\ Cardinality(data_link) \in Nat /\ Cardinality(data_link') \in Nat
        /\ Cardinality(data_link') + 1 = Cardinality(data_link)
    BY <1>1, TakenCount DEF Conserved, DataBooked
  <2>2. /\ rcv_stats["frames_ok"] \in Nat
        /\ count["data_lost"] \in Nat /\ count["in_transit_data"] \in Nat
    BY <1>0, CoreAssumptions, Rcv!SoundFacts DEF Conserved, Tally, Rcv!Counter
  <2>3. rcv_stats'["frames_ok"] + count'["data_lost"] + count'["in_transit_data"]
          + Cardinality(data_link') = count'["data_frames"]
    BY <1>2, <1>5, <2>1, <2>2 DEF Conserved, DataBooked
  <2> QED
    BY <1>2, <1>5, <2>1, <2>3 DEF Conserved, DataBooked, Snd!Transmissions, sndVars
<1>9. AckBooked'
  BY <1>2, <1>5 DEF Conserved, AckBooked, Snd!AcksTaken, sndVars
<1> QED
  BY <1>2, <1>6, <1>7, <1>8, <1>9 DEF Conserved

\* However late or overtaken, an honest acknowledgement is possible.
LEMMA HonestIsPossible ==
  ASSUME Truthful, Untried, NEW m \in ack_link, Snd!IngestAck(t, m.frame)
  PROVE  /\ m.frame \in AnyFrame
         /\ \/ /\ m.frame.type = "ACK_STATE" /\ m.frame.stream \in Snd!Stream
               /\ ~ Snd!ImpossibleState(t, m.frame)
            \/ m.frame.type = "ACK_EVENT" /\ ~ Snd!ImpossibleEvent(m.frame)
<1> DEFINE f == m.frame
<1>0. Cores /\ Honest /\ SnapshotsOK /\ EventsKnown /\ Snd!Safe /\ t \in Nat
  BY DEF Truthful, Cores
<1>1. AckFrameOK(f)
  BY <1>0 DEF Honest
<1>2. f \in AnyFrame
  BY <1>1 DEF AckFrameOK, AnyFrame
<1>3. Snd!Accepts(t)
  BY <1>0, <1>2, CoreAssumptions, SameFrames, Snd!WhatIsPossible
<1>4. CASE f \in AckStateFrame /\ f.stream \in Snd!Stream /\ f.seq <= Held(f.stream)
  <2> DEFINE s == f.stream
             st == snd_streams[s]
             p == <<f.seq, f.gen>>
             top == <<st.max_sent_seq, st.max_sent_gen>>
             ack == <<st.last_acked_seq, st.last_acked_gen>>
  <2>1. f.type = "ACK_STATE" /\ f.seq \in Nat /\ f.gen \in Nat /\ s \in Snd!Stream
    BY <1>4 DEF AckStateFrame
  <2>2. /\ PairsOK(s) /\ Held(s) <= st.max_sent_seq /\ Held(s) \in Nat
        /\ st.max_sent_seq \in Nat /\ st.max_sent_gen \in Nat
        /\ st.last_acked_seq \in Nat /\ st.last_acked_gen \in Nat
    BY <1>0, <2>1, Numbers DEF SnapshotsOK, IntervalHolds, Numeric
  <2>3. p \in Pairs(s)
    BY <2>1 DEF Pairs, OnLink, SnapshotAck
  <2>4. f.seq >= 1 /\ f.seq <= st.max_sent_seq
    BY <1>4, <2>1, <2>2, <2>3 DEF PairsOK
  <2>5. f.gen <= t
    BY <1>0, <1>3, <2>1, <2>2, <2>3, PairsPast
  <2>6. top \in Pairs(s)
    BY <2>1, <2>2, <2>4 DEF Pairs, AtSender
  <2>7. /\ f.gen <= st.max_sent_gen
        /\ f.seq = st.max_sent_seq => f.gen = st.max_sent_gen
    <3>1. /\ p[1] <= top[1] => p[2] <= top[2]
          /\ top[1] <= p[1] => top[2] <= p[2]
      BY <2>2, <2>3, <2>6 DEF PairsOK
    <3> QED
      BY <2>1, <2>2, <2>4, <3>1
  <2>8. f.seq = st.last_acked_seq => f.gen = st.last_acked_gen
    <3> SUFFICES ASSUME f.seq = st.last_acked_seq PROVE f.gen = st.last_acked_gen
      OBVIOUS
    <3>1. ack \in Pairs(s)
      BY <2>1, <2>2, <2>4 DEF Pairs, AtSender
    <3>2. /\ p[1] <= ack[1] => p[2] <= ack[2]
          /\ ack[1] <= p[1] => ack[2] <= p[2]
      BY <2>2, <2>3, <3>1 DEF PairsOK
    <3> QED
      BY <2>1, <2>2, <3>2
  <2>9. ~ Snd!ImpossibleState(t, f)
    BY <1>0, <1>2, <2>1, <2>4, <2>5, <2>7, <2>8, CoreAssumptions, SameFrames, Snd!WhatIsPossible
  <2> QED
    BY <1>2, <2>1, <2>9
<1>5. CASE f \in AckEventFrame /\ f.id \in delivered
  <2>1. f.type = "ACK_EVENT" /\ f.id \in 1 .. Len(outcome)
    BY <1>0, <1>5 DEF AckEventFrame, EventsKnown, AckedWasDelivered
  <2>2. \A i \in Snd!UsedSlots : events[i].id = f.id => events[i].attempts # 0
    BY <1>5 DEF Untried
  <2>3. ~ Snd!ImpossibleEvent(f)
    BY <1>0, <1>2, <2>1, <2>2, CoreAssumptions, SameFrames, Snd!WhatIsPossible
  <2> QED
    BY <1>2, <2>1, <2>3
<1> QED
  BY <1>1, <1>4, <1>5 DEF AckFrameOK

\* An acknowledgement that arrives is taken.
LEMMA AckArrivalConserved ==
  ASSUME Truthful, Conserved, AckArrival
  PROVE  Conserved'
<1>0. Cores /\ Snd!Safe /\ t \in Nat
  BY DEF Truthful, Cores
<1>1. PICK m \in ack_link : Snd!IngestAck(t, m.frame) /\ ack_link' = ack_link \ {m}
  BY DEF AckArrival, NextDue
<1>2. UNCHANGED <<t, phase, data_link, count, rcvVars>>
  BY DEF AckArrival
<1> DEFINE f == m.frame
<1>3. /\ f \in AnyFrame
      /\ \/ f.type = "ACK_STATE" /\ f.stream \in Snd!Stream /\ ~ Snd!ImpossibleState(t, f)
         \/ f.type = "ACK_EVENT" /\ ~ Snd!ImpossibleEvent(f)
  BY <1>1, HonestIsPossible DEF Conserved
<1>4. /\ Snd!AcksTaken' = Snd!AcksTaken + 1
      /\ snd_stats'["acks_impossible"] = snd_stats["acks_impossible"]
      /\ snd_stats'["acks_rejected_frame"] = snd_stats["acks_rejected_frame"]
  BY <1>0, <1>1, <1>3, CoreAssumptions, SameFrames, Snd!PossibleTaken
<1>5. Snd!IdsKept /\ Snd!Transmissions' = Snd!Transmissions
  BY <1>0, <1>1, <1>3, CoreAssumptions, SameFrames, Snd!IngestAckChanges
<1>6. delivered' = delivered /\ rcv_stats' = rcv_stats
  BY <1>2 DEF rcvVars
<1>7. Untried'
  BY <1>2, <1>5, <1>6, UntriedKept DEF Conserved
<1>8. Timely'
  BY <1>1, <1>2 DEF Conserved, Timely
<1>9. AckBooked'
  <2>1. /\ IsFiniteSet(ack_link') /\ Cardinality(ack_link) \in Nat /\ Cardinality(ack_link') \in Nat
        /\ Cardinality(ack_link') + 1 = Cardinality(ack_link)
    BY <1>1, TakenCount DEF Conserved, AckBooked
  <2>2. Snd!AcksTaken \in Nat /\ count["ack_lost"] \in Nat /\ count["in_transit_ack"] \in Nat
    <3>1. snd_stats["acks_ok"] \in Nat /\ snd_stats["acks_unmatched"] \in Nat
      BY <1>0, CoreAssumptions, Snd!SafeFacts DEF Snd!Counter
    <3>2. Snd!AcksTaken \in Nat
      BY <3>1 DEF Snd!AcksTaken
    <3>3. count["ack_lost"] \in Nat /\ count["in_transit_ack"] \in Nat
      BY DEF Conserved, Tally
    <3> QED
      BY <3>2, <3>3
  <2>3. Snd!AcksTaken' + count'["ack_lost"] + count'["in_transit_ack"]
          + Cardinality(ack_link') = count'["ack_frames"]
    BY <1>2, <1>4, <2>1, <2>2 DEF Conserved, AckBooked
  <2> QED
    BY <1>2, <1>4, <1>6, <2>1, <2>3 DEF Conserved, AckBooked
<1>10. DataBooked'
  BY <1>2, <1>5, <1>6 DEF Conserved, DataBooked
<1> QED
  BY <1>2, <1>7, <1>8, <1>9, <1>10 DEF Conserved

\* An opportunity forward hands over at most one frame, and counts it once.
LEMMA ForwardConserved ==
  ASSUME Truthful, Conserved, NEW e \in Entries, ForwardOn(e)
  PROVE  Conserved'
<1>0. Cores /\ Snd!Safe /\ t \in Nat
  BY DEF Truthful, Cores
<1>1. PICK c \in Snd!Choices(t) :
        /\ Snd!TimeOk(t) /\ Snd!StepWith(t, c)
        /\ IF Snd!FramesSent(t, c) = {}
           THEN UNCHANGED <<data_link, count>>
           ELSE \E f \in Snd!FramesSent(t, c) :
                  data_link' = Carried(data_link, f, e) /\ Bump(DataTally(Fate(e)))
  BY DEF ForwardOn
<1>2. phase = "forward" /\ phase' = "reverse" /\ UNCHANGED <<t, ack_link, rcvVars>>
  BY DEF ForwardOn
<1>3. delivered' = delivered /\ rcv_stats' = rcv_stats
  BY <1>2 DEF rcvVars
<1>4. /\ Snd!IdsKept /\ Snd!AcksTaken' = Snd!AcksTaken
      /\ snd_stats'["acks_impossible"] = snd_stats["acks_impossible"]
      /\ snd_stats'["acks_rejected_frame"] = snd_stats["acks_rejected_frame"]
  BY <1>0, <1>1, CoreAssumptions, Snd!StepChanges
<1>5. /\ Snd!FramesSent(t, c) = {} => Snd!Transmissions' = Snd!Transmissions
      /\ Snd!FramesSent(t, c) # {} => Snd!Transmissions' = Snd!Transmissions + 1
      /\ \A f \in Snd!FramesSent(t, c) : f.type = "EVENT" =>
           \A i \in Snd!UsedSlots' : events'[i].id = f.id => events'[i].attempts # 0
  <2>1. \A f \in Snd!FramesSent(t, c) :
          \/ f \in StateFrame
          \/ \A i \in Snd!UsedSlots' : events'[i].id = f.id => events'[i].attempts > 0
    BY <1>0, <1>1, CoreAssumptions, SameFrames, Snd!StepFrames
  <2>2. /\ Snd!FramesSent(t, c) = {} => Snd!Transmissions' = Snd!Transmissions
        /\ Snd!FramesSent(t, c) # {} => Snd!Transmissions' = Snd!Transmissions + 1
    BY <1>0, <1>1, CoreAssumptions, Snd!StepFrames
  <2>3. \A f \in StateFrame : f.type # "EVENT"
    BY DEF StateFrame
  <2> QED
    BY <2>1, <2>2, <2>3
<1>6. \A m \in data_link' : m \in data_link \/ m.frame \in Snd!FramesSent(t, c)
  BY <1>1, CarriedFrames
<1>7. Untried'
  BY <1>3, <1>4, <1>5, <1>6, UntriedKept DEF Conserved
<1>8. Timely'
  <2>1. \A m \in data_link' :
          \/ m \in data_link
          \/ m.sent = t /\ m.arrival \in Nat /\ t < m.arrival /\ m.arrival < RUN_MS
    BY <1>0, <1>1, CarriedTimes
  <2>2. \A m \in data_link' : /\ m.sent \in Nat /\ m.sent <= t
                              /\ m.arrival \in Nat /\ t <= m.arrival /\ m.arrival < RUN_MS
                              /\ m.arrival # t
    BY <1>0, <1>2, <2>1 DEF Conserved, Timely
  <2> QED
    BY <1>2, <2>2 DEF Conserved, Timely
<1>9. AckBooked' /\ DataBooked' /\ count' \in [Tally -> Nat]
  <2>0. count \in [Tally -> Nat] /\ DataBooked /\ AckBooked
    BY DEF Conserved
  <2>1. CASE Snd!FramesSent(t, c) = {}
    BY <1>1, <1>2, <1>3, <1>4, <1>5, <2>0, <2>1 DEF DataBooked, AckBooked
  <2>2. CASE Snd!FramesSent(t, c) # {}
    <3>1. PICK f \in Snd!FramesSent(t, c) :
            data_link' = Carried(data_link, f, e) /\ Bump(DataTally(Fate(e)))
      BY <1>1, <2>2
    <3>2. /\ count' \in [Tally -> Nat] /\ count'["data_frames"] = count["data_frames"] + 1
          /\ count'["data_lost"] + count'["in_transit_data"]
               + (IF Fate(e) = "under_way" THEN 1 ELSE 0)
               = count["data_lost"] + count["in_transit_data"] + 1
          /\ \A k \in {"ack_frames", "ack_lost", "in_transit_ack"} : count'[k] = count[k]
      BY <2>0, <3>1, Bumped
    <3>3. \A m \in data_link : m.sent # t
      BY <1>2 DEF Conserved, Timely
    <3>4. /\ IsFiniteSet(data_link') /\ Cardinality(data_link) \in Nat
          /\ Cardinality(data_link') = Cardinality(data_link) + (IF Fate(e) = "under_way" THEN 1 ELSE 0)
      BY <1>0, <2>0, <3>1, <3>3, CarriedCount DEF DataBooked
    <3>5. /\ rcv_stats["frames_ok"] \in Nat
          /\ count["data_lost"] \in Nat /\ count["in_transit_data"] \in Nat
          /\ count'["data_lost"] \in Nat /\ count'["in_transit_data"] \in Nat
      BY <1>0, <2>0, <3>2, CoreAssumptions, Rcv!SoundFacts DEF Cores, Tally, Rcv!Counter
    <3>6. rcv_stats'["frames_ok"] + count'["data_lost"] + count'["in_transit_data"]
            + Cardinality(data_link') = count'["data_frames"]
      BY <1>3, <2>0, <3>2, <3>4, <3>5 DEF DataBooked
    <3>7. DataBooked'
      BY <1>3, <1>5, <2>0, <2>2, <3>2, <3>4, <3>6 DEF DataBooked
    <3>8. AckBooked'
      BY <1>2, <1>3, <1>4, <2>0, <3>2 DEF AckBooked
    <3> QED
      BY <3>2, <3>7, <3>8
  <2> QED
    BY <2>1, <2>2
<1> QED
  BY <1>7, <1>8, <1>9 DEF Conserved

\* An opportunity in reverse hands over an acknowledgement if one is owed.
LEMMA ReverseConserved ==
  ASSUME Truthful, Conserved, NEW e \in Entries, ReverseOn(e)
  PROVE  Conserved'
<1>0. Cores /\ Rcv!Sound /\ Snd!Safe /\ t \in Nat
  BY DEF Truthful, Cores
<1>1. /\ Rcv!Step(t)
      /\ IF AckSent = {}
         THEN UNCHANGED <<ack_link, count>>
         ELSE \E f \in AckSent :
                ack_link' = Carried(ack_link, f, e) /\ Bump(AckTally(Fate(e)))
  BY DEF ReverseOn
<1>2. phase = "reverse" /\ phase' = "check" /\ UNCHANGED <<t, data_link, sndVars>>
  BY DEF ReverseOn
<1>3. /\ delivered' = delivered
      /\ rcv_stats'["frames_ok"] = rcv_stats["frames_ok"]
      /\ rcv_stats'["frames_rejected"] = rcv_stats["frames_rejected"]
      /\ AckSent = {} => rcv_stats'["ack_tx"] = rcv_stats["ack_tx"]
      /\ AckSent # {} => rcv_stats'["ack_tx"] = rcv_stats["ack_tx"] + 1
  BY <1>0, <1>1, CoreAssumptions, Rcv!StepChanges DEF AckSent
<1>4. Untried'
  BY <1>2, <1>3 DEF Conserved, Untried, Snd!UsedSlots, Snd!Slot, sndVars
<1>5. Timely'
  <2>1. \A m \in ack_link' :
          \/ m \in ack_link
          \/ m.sent = t /\ m.arrival \in Nat /\ t < m.arrival /\ m.arrival < RUN_MS
    BY <1>0, <1>1, CarriedTimes
  <2>2. \A m \in ack_link' : /\ m.sent \in Nat /\ m.sent <= t
                             /\ m.arrival \in Nat /\ t <= m.arrival /\ m.arrival < RUN_MS
                             /\ m.arrival # t
    BY <1>0, <1>2, <2>1 DEF Conserved, Timely
  <2> QED
    BY <1>2, <2>2 DEF Conserved, Timely
<1>6. AckBooked' /\ DataBooked' /\ count' \in [Tally -> Nat]
  <2>0. /\ count \in [Tally -> Nat] /\ DataBooked /\ AckBooked
        /\ snd_stats' = snd_stats /\ Snd!Transmissions' = Snd!Transmissions
        /\ Snd!AcksTaken' = Snd!AcksTaken
    BY <1>2 DEF Conserved, sndVars, Snd!Transmissions, Snd!AcksTaken
  <2>1. CASE AckSent = {}
    BY <1>1, <1>2, <1>3, <2>0, <2>1 DEF DataBooked, AckBooked
  <2>2. CASE AckSent # {}
    <3>1. PICK f \in AckSent : ack_link' = Carried(ack_link, f, e) /\ Bump(AckTally(Fate(e)))
      BY <1>1, <2>2
    <3>2. /\ count' \in [Tally -> Nat] /\ count'["ack_frames"] = count["ack_frames"] + 1
          /\ count'["ack_lost"] + count'["in_transit_ack"]
               + (IF Fate(e) = "under_way" THEN 1 ELSE 0)
               = count["ack_lost"] + count["in_transit_ack"] + 1
          /\ \A k \in {"data_frames", "data_lost", "in_transit_data"} : count'[k] = count[k]
      BY <2>0, <3>1, Bumped
    <3>3. \A m \in ack_link : m.sent # t
      BY <1>2 DEF Conserved, Timely
    <3>4. /\ IsFiniteSet(ack_link') /\ Cardinality(ack_link) \in Nat
          /\ Cardinality(ack_link') = Cardinality(ack_link) + (IF Fate(e) = "under_way" THEN 1 ELSE 0)
      BY <1>0, <2>0, <3>1, <3>3, CarriedCount DEF AckBooked
    <3>5. Snd!AcksTaken \in Nat
      <4>1. snd_stats["acks_ok"] \in Nat /\ snd_stats["acks_unmatched"] \in Nat
        BY <1>0, CoreAssumptions, Snd!SafeFacts DEF Snd!Counter
      <4> QED
        BY <4>1 DEF Snd!AcksTaken
    <3>6. /\ count["ack_lost"] \in Nat /\ count["in_transit_ack"] \in Nat
          /\ count'["ack_lost"] \in Nat /\ count'["in_transit_ack"] \in Nat
      BY <2>0, <3>2 DEF Tally
    <3>7. Snd!AcksTaken' + count'["ack_lost"] + count'["in_transit_ack"]
            + Cardinality(ack_link') = count'["ack_frames"]
      BY <2>0, <3>2, <3>4, <3>5, <3>6 DEF AckBooked
    <3>8. AckBooked'
      BY <1>3, <2>0, <2>2, <3>2, <3>4, <3>7 DEF AckBooked
    <3>9. DataBooked'
      BY <1>2, <1>3, <2>0, <3>2 DEF DataBooked
    <3> QED
      BY <3>2, <3>8, <3>9
  <2> QED
    BY <2>1, <2>2
<1> QED
  BY <1>4, <1>5, <1>6 DEF Conserved

\* Every step of the run keeps the frames accounted for.
LEMMA ConservedKept == Truthful /\ Conserved /\ [Next]_vars => Conserved'
<1> SUFFICES ASSUME Truthful, Conserved, [Next]_vars PROVE Conserved'
  OBVIOUS
<1>1. CASE WorkloadRow
  BY <1>1, RowConserved DEF WorkloadRow
<1>2. CASE Forward
  BY <1>2, ForwardConserved DEF Forward
<1>3. CASE Reverse
  BY <1>3, ReverseConserved DEF Reverse
<1>4. CASE WorkloadDone \/ DataDone \/ AckDone \/ EndOfMs
  BY <1>4, PhaseConserved
<1>5. CASE UNCHANGED vars
  <2>1. UNCHANGED <<t, phase, data_link, ack_link, count, sndVars, rcvVars>>
    BY <1>5 DEF vars, hostVars
  <2>2. Untried' /\ Timely'
    BY <2>1 DEF Conserved, Untried, Timely, Snd!UsedSlots, Snd!Slot, sndVars, rcvVars
  <2>3. DataBooked' /\ AckBooked'
    BY <2>1 DEF Conserved, DataBooked, AckBooked, Snd!Transmissions, Snd!AcksTaken, sndVars, rcvVars
  <2> QED
    BY <2>1, <2>2, <2>3 DEF Conserved
<1> QED
  BY <1>1, <1>2, <1>3, <1>4, <1>5, DataArrivalConserved, AckArrivalConserved DEF Next

\* Before the run every counter is zero and nothing is under way.
LEMMA InitConserved == Init => Conserved
<1> SUFFICES ASSUME Init PROVE Conserved
  OBVIOUS
<1>1. /\ data_link = {} /\ ack_link = {} /\ count = [k \in Tally |-> 0]
      /\ \A k \in Tally : count[k] = 0
  BY DEF Init
<1>2. /\ \A c \in Snd!Counter : snd_stats[c] = 0
      /\ \A c \in Rcv!Counter : rcv_stats[c] = 0
      /\ Snd!UsedSlots = {}
  BY DEF Init, Snd!Init, Rcv!Init, Snd!UsedSlots, Snd!Free, Snd!Stream, Rcv!Stream
<1>3. Untried /\ Timely
  BY <1>1, <1>2 DEF Untried, Timely
<1>4. IsFiniteSet({}) /\ Cardinality({}) = 0
  BY FS_EmptySet
<1>5. DataBooked
  BY <1>1, <1>2, <1>4 DEF DataBooked, Snd!Transmissions, Tally, Snd!Counter, Rcv!Counter
<1>6. AckBooked
  BY <1>1, <1>2, <1>4 DEF AckBooked, Snd!AcksTaken, Tally, Snd!Counter, Rcv!Counter
<1> QED
  BY <1>1, <1>3, <1>5, <1>6 DEF Conserved

\* At every instant each frame was received, lost, is under way and not overdue, or
\* arrives after the end of the run; neither core refuses one or finds it impossible.
THEOREM SystemFramesConserved == Spec => []FramesConserved
<1>1. Conserved => FramesConserved
  BY DEF Conserved, DataBooked, AckBooked, Timely, FramesConserved, Snd!Transmissions,
         Snd!AcksTaken
<1> QED
  BY <1>1, InitConserved, ConservedKept, SystemTruthful, PTL DEF Spec


-----------------------------------------------------------------------------
(* The host's ledger. *)

LedgerRow == [attempts : Nat, first_tx : Nat, rx_first : Nat, rx_dups : Nat, rx_oow : Nat]

AttemptsOf(l) == [id \in DOMAIN l |-> l[id].attempts]
DupsOf(l)     == [id \in DOMAIN l |-> l[id].rx_dups]

\* One row for each id given out; the rows add up to the cores' counters, and that of a
\* pending event agrees with its slot.
Entered ==
  /\ ledger \in Seq(LedgerRow) /\ Len(ledger) = Len(outcome)
  /\ SumFunction(AttemptsOf(ledger)) = snd_stats["event_tx"]
  /\ SumFunction(DupsOf(ledger)) = rcv_stats["ev_duplicate"]
  /\ \A i \in Snd!UsedSlots : ledger[events[i].id].attempts = events[i].attempts

\* The times of a row are times of the run, and in their order because no frame of an
\* event is older than its first transmission.
Dated ==
  /\ \A id \in DOMAIN ledger :
       LET r == ledger[id]
       IN  /\ r.first_tx = TIME_NONE \/ r.first_tx <= t
           /\ id \in delivered => r.first_tx < r.rx_first /\ r.rx_first <= HORIZON
           /\ id \notin delivered => r.rx_first = TIME_NONE
  /\ \A m \in data_link : m.frame.type = "EVENT" => ledger[m.frame.id].first_tx <= m.sent

Reconciled == Entered /\ Dated

\* A row that changes changes no other, and the sums by what it adds.
LEMMA RowChanged ==
  ASSUME ledger \in Seq(LedgerRow), NEW id \in DOMAIN ledger, NEW r \in LedgerRow
  PROVE  LET l == ledger
             n == [ledger EXCEPT ![id] = r]
         IN  /\ n \in Seq(LedgerRow) /\ Len(n) = Len(l) /\ DOMAIN n = DOMAIN l /\ n[id] = r
             /\ \A k \in DOMAIN l : k # id => n[k] = l[k]
             /\ r.attempts = l[id].attempts => SumFunction(AttemptsOf(n)) = SumFunction(AttemptsOf(l))
             /\ r.attempts = l[id].attempts + 1
                  => SumFunction(AttemptsOf(n)) = SumFunction(AttemptsOf(l)) + 1
             /\ r.rx_dups = l[id].rx_dups => SumFunction(DupsOf(n)) = SumFunction(DupsOf(l))
             /\ r.rx_dups = l[id].rx_dups + 1
                  => SumFunction(DupsOf(n)) = SumFunction(DupsOf(l)) + 1
<1> DEFINE l == ledger
           n == [ledger EXCEPT ![id] = r]
           S == DOMAIN l
<1>0. n \in Seq(LedgerRow) /\ Len(n) = Len(l) /\ DOMAIN n = S
  OBVIOUS
<1>1. n[id] = r /\ \A k \in S : k # id => n[k] = l[k]
  OBVIOUS
<1>2. S = 1 .. Len(l) /\ Len(l) \in Nat /\ \A k \in S : l[k] \in LedgerRow /\ n[k] \in LedgerRow
  BY <1>0
<1>3. IsFiniteSet(S)
  BY <1>2, FS_Interval
<1> HIDE DEF n, l, S
<1>4. /\ AttemptsOf(l) \in [S -> Nat] /\ AttemptsOf(n) \in [S -> Nat]
      /\ DupsOf(l) \in [S -> Nat] /\ DupsOf(n) \in [S -> Nat]
      /\ \A k \in S : /\ AttemptsOf(l)[k] = l[k].attempts /\ AttemptsOf(n)[k] = n[k].attempts
                      /\ DupsOf(l)[k] = l[k].rx_dups /\ DupsOf(n)[k] = n[k].rx_dups
  BY <1>0, <1>2 DEF AttemptsOf, DupsOf, LedgerRow, S
<1>5. id \in S
  BY DEF S, l
<1> DEFINE al == AttemptsOf(l)
           an == AttemptsOf(n)
           dl == DupsOf(l)
           dn == DupsOf(n)
<1>6. /\ al \in [S -> Nat] /\ an \in [S -> Nat] /\ al[id] = l[id].attempts /\ an[id] = r.attempts
      /\ \A k \in S \ {id} : an[k] = al[k]
  <2>1. al \in [S -> Nat] /\ an \in [S -> Nat]
    BY <1>4
  <2>2. al[id] = l[id].attempts /\ an[id] = n[id].attempts
    BY <1>4, <1>5
  <2>3. ASSUME NEW k \in S, k # id PROVE an[k] = al[k]
    <3>1. an[k] = n[k].attempts /\ al[k] = l[k].attempts /\ n[k] = l[k]
      BY <1>1, <1>4, <2>3
    <3> QED
      BY <3>1
  <2> QED
    BY <1>1, <2>1, <2>2, <2>3
<1>7. /\ dl \in [S -> Nat] /\ dn \in [S -> Nat] /\ dl[id] = l[id].rx_dups /\ dn[id] = r.rx_dups
      /\ \A k \in S \ {id} : dn[k] = dl[k]
  <2>1. dl \in [S -> Nat] /\ dn \in [S -> Nat]
    BY <1>4
  <2>2. dl[id] = l[id].rx_dups /\ dn[id] = n[id].rx_dups
    BY <1>4, <1>5
  <2>3. ASSUME NEW k \in S, k # id PROVE dn[k] = dl[k]
    <3>1. dn[k] = n[k].rx_dups /\ dl[k] = l[k].rx_dups /\ n[k] = l[k]
      BY <1>1, <1>4, <2>3
    <3> QED
      BY <3>1
  <2> QED
    BY <1>1, <2>1, <2>2, <2>3
<1> HIDE DEF al, an, dl, dn
<1>8. (r.attempts = l[id].attempts => an = al) /\ (r.rx_dups = l[id].rx_dups => dn = dl)
  <2>1. r.attempts = l[id].attempts => \A k \in S : an[k] = al[k]
    BY <1>6
  <2>2. r.rx_dups = l[id].rx_dups => \A k \in S : dn[k] = dl[k]
    BY <1>7
  <2> QED
    BY <1>6, <1>7, <2>1, <2>2
<1>9. r.attempts = l[id].attempts + 1 => SumFunction(an) = SumFunction(al) + 1
  BY <1>3, <1>5, <1>6, SumOfOneMore
<1>10. r.rx_dups = l[id].rx_dups + 1 => SumFunction(dn) = SumFunction(dl) + 1
  BY <1>3, <1>5, <1>7, SumOfOneMore
<1> QED
  BY <1>0, <1>1, <1>8, <1>9, <1>10 DEF l, n, S, al, an, dl, dn

\* A new row adds nothing.
LEMMA RowAppended ==
  ASSUME ledger \in Seq(LedgerRow)
  PROVE  LET l == ledger
             n == Append(ledger, NewRecord)
         IN  /\ n \in Seq(LedgerRow) /\ Len(n) = Len(l) + 1 /\ n[Len(l) + 1] = NewRecord
             /\ \A k \in DOMAIN l : n[k] = l[k]
             /\ SumFunction(AttemptsOf(n)) = SumFunction(AttemptsOf(l))
             /\ SumFunction(DupsOf(n)) = SumFunction(DupsOf(l))
<1> DEFINE l == ledger
           n == Append(ledger, NewRecord)
           S == DOMAIN l
           x == Len(l) + 1
           T == DOMAIN n
<1>1. NewRecord \in LedgerRow /\ NewRecord.attempts = 0 /\ NewRecord.rx_dups = 0
  BY SystemAssumption DEF NewRecord, LedgerRow
<1>2. /\ n \in Seq(LedgerRow) /\ Len(n) = Len(l) + 1 /\ n[x] = NewRecord
      /\ \A k \in S : n[k] = l[k]
  BY <1>1
<1>3. /\ S = 1 .. Len(l) /\ Len(l) \in Nat /\ T = S \cup {x} /\ x \notin S
      /\ \A k \in S : l[k] \in LedgerRow
      /\ \A k \in T : n[k] \in LedgerRow
  BY <1>1, <1>2
<1>4. IsFiniteSet(S)
  BY <1>3, FS_Interval
<1> HIDE DEF n, l, S, T, x
<1> DEFINE al == AttemptsOf(l)
           an == AttemptsOf(n)
           dl == DupsOf(l)
           dn == DupsOf(n)
<1>5. /\ al \in [S -> Nat] /\ an \in [T -> Nat] /\ an[x] = 0
      /\ dl \in [S -> Nat] /\ dn \in [T -> Nat] /\ dn[x] = 0
      /\ \A k \in S : an[k] = al[k] /\ dn[k] = dl[k]
  <2>1. DOMAIN l = S /\ DOMAIN n = T
    BY DEF S, T
  <2> QED
    BY <1>1, <1>2, <1>3, <2>1 DEF AttemptsOf, DupsOf, LedgerRow
<1> HIDE DEF al, an, dl, dn
<1>6. SumFunction(an) = SumFunction(al)
  <2>1. x \notin S /\ T = S \cup {x}
    BY <1>3
  <2>2. /\ al \in [S -> Nat] /\ an \in [T -> Nat] /\ an[x] = 0
        /\ \A k \in S : an[k] = al[k]
    BY <1>5
  <2> QED
    BY <1>4, <2>1, <2>2, SumOfMore
<1>7. SumFunction(dn) = SumFunction(dl)
  <2>1. x \notin S /\ T = S \cup {x}
    BY <1>3
  <2>2. /\ dl \in [S -> Nat] /\ dn \in [T -> Nat] /\ dn[x] = 0
        /\ \A k \in S : dn[k] = dl[k]
    BY <1>5
  <2> QED
    BY <1>4, <2>1, <2>2, SumOfMore
<1> QED
  BY <1>2, <1>6, <1>7 DEF l, n, S, x, al, an, dl, dn

\* An event in the table has one of the ids given out.
IdsGiven == \A i \in Snd!UsedSlots : events[i].id \in 1 .. Len(outcome)

\* A sender in order keeps to that.
LEMMA IdsGivenNow == Snd!Safe => IdsGiven
  BY CoreAssumptions, Snd!SafeFacts DEF IdsGiven

\* The same of the state after a step.
LEMMA IdsGivenNext == Snd!Safe' => IdsGiven'
  BY IdsGivenNow, PTL

\* The rows are those of the ids given out.
LEMMA RowsAre ==
  ASSUME Cores, Entered
  PROVE  /\ DOMAIN ledger = 1 .. Len(outcome) /\ Len(outcome) \in Nat
         /\ \A id \in DOMAIN ledger : ledger[id] \in LedgerRow
         /\ \A i \in Snd!UsedSlots : events[i].id \in DOMAIN ledger
<1>1. Len(outcome) \in Nat /\ \A i \in Snd!UsedSlots : events[i].id \in 1 .. Len(outcome)
  BY CoreAssumptions, Snd!SafeFacts DEF Cores
<1>2. DOMAIN ledger = 1 .. Len(outcome) /\ \A id \in DOMAIN ledger : ledger[id] \in LedgerRow
  BY DEF Entered
<1> QED
  BY <1>1, <1>2

\* A workload row transmits nothing; an event posted gets a row of its own.
LEMMA RowReconciled ==
  ASSUME Truthful, Conserved, Reconciled, NEW row \in StateRows \cup EventRows, TakeRow(row)
  PROVE  Reconciled'
<1>0. /\ Cores /\ Snd!Safe /\ t \in Nat /\ Entered /\ Dated /\ Honest
      /\ AckedWasDelivered /\ Timely
  BY DEF Truthful, Cores, Reconciled, EventsKnown, Conserved
<1>1. Snd!AttemptsKept /\ (Len(outcome') = Len(outcome) \/ Len(outcome') = Len(outcome) + 1)
      /\ Snd!Safe'
  <2>1. CASE row.action = "STATE"
    <3>1. row.stream \in Snd!Stream /\ Snd!Publish(t, row.stream)
      BY <2>1 DEF TakeRow, StateRows, EventRows
    <3> QED
      BY <1>0, <3>1, CoreAssumptions, Snd!QuietCalls, Snd!PublishChanges
  <2>2. CASE row.action # "STATE"
    <3>1. row.life \in Nat \X Nat /\ Snd!Post(t, row.life)
      BY <2>2, SystemAssumption DEF TakeRow, StateRows, EventRows
    <3> QED
      BY <1>0, <3>1, CoreAssumptions, Snd!QuietCalls, Snd!PostChanges
  <2> QED
    BY <2>1, <2>2
<1>2. UNCHANGED <<t, data_link, delivered, rcv_stats>>
  BY DEF TakeRow, rcvVars
<1>3. ledger \in Seq(LedgerRow) /\ Len(ledger) = Len(outcome) /\ DOMAIN ledger = 1 .. Len(outcome)
      /\ Len(outcome) \in Nat
  BY <1>0, RowsAre DEF Entered
<1>4. /\ ledger' \in Seq(LedgerRow) /\ Len(ledger') = Len(outcome')
      /\ \A id \in DOMAIN ledger : ledger'[id] = ledger[id]
      /\ DOMAIN ledger' = 1 .. Len(outcome')
      /\ Len(outcome') # Len(outcome) => ledger'[Len(outcome) + 1] = NewRecord
      /\ SumFunction(AttemptsOf(ledger')) = SumFunction(AttemptsOf(ledger))
      /\ SumFunction(DupsOf(ledger')) = SumFunction(DupsOf(ledger))
  <2>0. ledger' = IF Len(outcome') > Len(ledger) THEN Append(ledger, NewRecord) ELSE ledger
    BY DEF TakeRow
  <2>1. CASE Len(outcome') = Len(outcome)
    <3>1. ledger' = ledger
      <4>1. ~ (Len(outcome') > Len(ledger))
        BY <1>3, <2>1
      <4> QED
        BY <2>0, <4>1
    <3>2. /\ ledger' \in Seq(LedgerRow) /\ Len(ledger') = Len(outcome')
          /\ DOMAIN ledger' = 1 .. Len(outcome')
      BY <1>3, <2>1, <3>1
    <3> QED
      BY <2>1, <3>1, <3>2
  <2>2. CASE Len(outcome') = Len(outcome) + 1
    <3>1. ledger' = Append(ledger, NewRecord)
      <4>1. Len(outcome') > Len(ledger)
        BY <1>3, <2>2
      <4> QED
        BY <2>0, <4>1
    <3>2. /\ ledger' \in Seq(LedgerRow) /\ Len(ledger') = Len(outcome')
          /\ ledger'[Len(outcome) + 1] = NewRecord
          /\ \A id \in DOMAIN ledger : ledger'[id] = ledger[id]
          /\ SumFunction(AttemptsOf(ledger')) = SumFunction(AttemptsOf(ledger))
          /\ SumFunction(DupsOf(ledger')) = SumFunction(DupsOf(ledger))
      BY <1>3, <2>2, <3>1, RowAppended
    <3> QED
      BY <3>2
  <2> QED
    BY <1>1, <2>1, <2>2
<1>5. \A i \in Snd!UsedSlots' : ledger'[events'[i].id].attempts = events'[i].attempts
  <2> SUFFICES ASSUME NEW i \in Snd!UsedSlots'
               PROVE  ledger'[events'[i].id].attempts = events'[i].attempts
    OBVIOUS
  <2>1. CASE /\ i \in Snd!UsedSlots /\ events'[i].id = events[i].id
             /\ events'[i].attempts = events[i].attempts
    <3>1. events[i].id \in DOMAIN ledger /\ ledger[events[i].id].attempts = events[i].attempts
      BY <1>0, <2>1, RowsAre DEF Entered
    <3> QED
      BY <1>4, <2>1, <3>1
  <2>2. CASE events'[i].id = Len(outcome) + 1 /\ events'[i].attempts = 0
    <3>1. events'[i].id \in 1 .. Len(outcome')
      BY <1>1, IdsGivenNext DEF IdsGiven
    <3>2. Len(outcome') # Len(outcome)
      BY <1>3, <2>2, <3>1
    <3> QED
      BY <1>4, <2>2, <3>2 DEF NewRecord
  <2> QED
    BY <1>1, <2>1, <2>2 DEF Snd!AttemptsKept
<1>6. Entered'
  BY <1>0, <1>1, <1>2, <1>4, <1>5 DEF Entered, Snd!AttemptsKept
<1>7. Dated'
  <2>1. ASSUME NEW id \in DOMAIN ledger'
        PROVE  LET r == ledger'[id]
               IN  /\ r.first_tx = TIME_NONE \/ r.first_tx <= t
                   /\ id \in delivered => r.first_tx < r.rx_first /\ r.rx_first <= HORIZON
                   /\ id \notin delivered => r.rx_first = TIME_NONE
    <3>1. CASE id \in DOMAIN ledger
      <4>1. ledger'[id] = ledger[id]
        BY <1>4, <3>1
      <4>2. Dated
        BY <1>0
      <4> QED
        BY <3>1, <4>1, <4>2 DEF Dated
    <3>2. CASE id \notin DOMAIN ledger
      <4>1. id = Len(outcome) + 1 /\ Len(outcome') # Len(outcome)
        <5>1. id \in 1 .. Len(outcome') /\ id \notin 1 .. Len(outcome)
          BY <1>3, <1>4, <3>2
        <5> QED
          BY <1>1, <1>3, <5>1
      <4>2. id \notin delivered
        BY <1>0, <1>3, <4>1 DEF AckedWasDelivered
      <4> QED
        BY <1>4, <4>1, <4>2 DEF NewRecord
    <3> QED
      BY <3>1, <3>2
  <2>2. \A m \in data_link : m.frame.type = "EVENT" => m.frame.id \in DOMAIN ledger
    BY <1>0, <1>3 DEF Honest, DataFrameOK, StateFrame
  <2>3. \A m \in data_link : m.frame.type = "EVENT" => ledger'[m.frame.id].first_tx <= m.sent
    BY <1>0, <1>4, <2>2 DEF Dated
  <2> QED
    BY <1>2, <2>1, <2>3 DEF Dated
<1> QED
  BY <1>6, <1>7 DEF Reconciled

\* A data frame that arrives is entered under its event, as the receiver judged it.
LEMMA DataArrivalReconciled ==
  ASSUME Truthful, Conserved, Reconciled, DataArrival
  PROVE  Reconciled'
<1>0. /\ Cores /\ Rcv!Sound /\ t \in Nat /\ Entered /\ Dated /\ Honest /\ Timely
  BY DEF Truthful, Cores, Reconciled, Conserved
<1>1. PICK m \in data_link : /\ phase = "data" /\ Rcv!Ingest(t, m.frame)
                             /\ data_link' = data_link \ {m} /\ ledger' = LedgerWith(m.frame)
  BY DEF DataArrival, NextDue
<1>2. UNCHANGED <<t, events, outcome, snd_stats>>
  BY DEF DataArrival, sndVars
<1>3. /\ DOMAIN ledger = 1 .. Len(outcome) /\ Len(outcome) \in Nat
      /\ ledger \in Seq(LedgerRow) /\ \A id \in DOMAIN ledger : ledger[id] \in LedgerRow
  BY <1>0, RowsAre DEF Entered
<1> DEFINE f == m.frame
<1>4. f \in AnyFrame /\ (f.type = "EVENT" => f.id # 0 /\ f.id \in DOMAIN ledger)
  <2>1. DataFrameOK(f)
    BY <1>0, <1>1 DEF Honest
  <2>2. CASE f \in StateFrame
    BY <2>2 DEF AnyFrame, StateFrame
  <2>3. CASE f \in EventFrame /\ f.id \in 1 .. Len(outcome)
    BY <1>3, <2>3 DEF AnyFrame
  <2> QED
    BY <2>1, <2>2, <2>3 DEF DataFrameOK
<1>5. t <= HORIZON /\ t < TIME_NONE /\ HORIZON \in Nat /\ HORIZON < TIME_NONE /\ TIME_NONE \in Nat
  <2>1. t <= HORIZON
    BY <1>0, <1>1, <1>4, CoreAssumptions, SameFrames, Rcv!Verdicts
  <2> QED
    BY <1>0, <2>1, SystemAssumption
<1>6. f.type = "EVENT" => ledger[f.id].first_tx < t
  <2>1. m.sent \in Nat /\ m.sent < t
    BY <1>0, <1>1 DEF Timely
  <2>2. f.type = "EVENT" => ledger[f.id].first_tx \in Nat /\ ledger[f.id].first_tx <= m.sent
    BY <1>0, <1>1, <1>3, <1>4 DEF Dated, LedgerRow
  <2> QED
    BY <1>0, <2>1, <2>2
<1>7. \A i \in Snd!UsedSlots' : i \in Snd!UsedSlots /\ events'[i] = events[i]
  BY <1>2 DEF Snd!UsedSlots, Snd!Slot
<1>8. ASSUME ledger' = ledger, delivered' = delivered,
             rcv_stats'["ev_duplicate"] = rcv_stats["ev_duplicate"]
      PROVE  Reconciled'
  BY <1>0, <1>1, <1>2, <1>7, <1>8 DEF Reconciled, Entered, Dated
<1>9. ASSUME NEW r \in LedgerRow, f.type = "EVENT", ledger' = [ledger EXCEPT ![f.id] = r],
             r.attempts = ledger[f.id].attempts, r.first_tx = ledger[f.id].first_tx,
             \/ /\ r.rx_dups = ledger[f.id].rx_dups
                /\ rcv_stats'["ev_duplicate"] = rcv_stats["ev_duplicate"]
             \/ /\ r.rx_dups = ledger[f.id].rx_dups + 1
                /\ rcv_stats'["ev_duplicate"] = rcv_stats["ev_duplicate"] + 1,
             \/ r.rx_first = ledger[f.id].rx_first /\ delivered' = delivered
             \/ r.rx_first = t /\ delivered' = delivered \cup {f.id}
      PROVE  Reconciled'
  <2>1. /\ ledger' \in Seq(LedgerRow) /\ Len(ledger') = Len(ledger) /\ DOMAIN ledger' = DOMAIN ledger
        /\ ledger'[f.id] = r
        /\ \A k \in DOMAIN ledger : k # f.id => ledger'[k] = ledger[k]
        /\ SumFunction(AttemptsOf(ledger')) = SumFunction(AttemptsOf(ledger))
        /\ r.rx_dups = ledger[f.id].rx_dups => SumFunction(DupsOf(ledger')) = SumFunction(DupsOf(ledger))
        /\ r.rx_dups = ledger[f.id].rx_dups + 1
             => SumFunction(DupsOf(ledger')) = SumFunction(DupsOf(ledger)) + 1
    BY <1>3, <1>4, <1>9, RowChanged
  <2>2. SumFunction(DupsOf(ledger')) = rcv_stats'["ev_duplicate"]
    BY <1>0, <1>9, <2>1 DEF Entered
  <2>3. \A k \in DOMAIN ledger : /\ ledger'[k].attempts = ledger[k].attempts
                                 /\ ledger'[k].first_tx = ledger[k].first_tx
    BY <1>9, <2>1
  <2>4. \A i \in Snd!UsedSlots' : ledger'[events'[i].id].attempts = events'[i].attempts
    BY <1>0, <1>7, <2>3, RowsAre DEF Entered
  <2>5. Entered'
    BY <1>0, <1>2, <2>1, <2>2, <2>4 DEF Entered
  <2>6. \A k \in data_link' : k.frame.type = "EVENT" => ledger'[k.frame.id].first_tx <= k.sent
    <3>1. \A k \in data_link : k.frame.type = "EVENT" => k.frame.id \in DOMAIN ledger
      BY <1>0, <1>3 DEF Honest, DataFrameOK, StateFrame
    <3> QED
      BY <1>0, <1>1, <2>3, <3>1 DEF Dated
  <2>7. ASSUME NEW id \in DOMAIN ledger'
        PROVE  LET q == ledger'[id]
               IN  /\ q.first_tx = TIME_NONE \/ q.first_tx <= t
                   /\ id \in delivered' => q.first_tx < q.rx_first /\ q.rx_first <= HORIZON
                   /\ id \notin delivered' => q.rx_first = TIME_NONE
    <3>1. /\ ledger[id].first_tx = TIME_NONE \/ ledger[id].first_tx <= t
          /\ id \in delivered => ledger[id].first_tx < ledger[id].rx_first
                                 /\ ledger[id].rx_first <= HORIZON
          /\ id \notin delivered => ledger[id].rx_first = TIME_NONE
      BY <1>0, <2>1, <2>7 DEF Dated
    <3>2. CASE id # f.id
      <4>1. ledger'[id] = ledger[id] /\ (id \in delivered' <=> id \in delivered)
        BY <1>9, <2>1, <3>2
      <4> QED
        BY <3>1, <4>1
    <3>3. CASE id = f.id
      BY <1>5, <1>6, <1>9, <2>1, <3>1, <3>3
    <3> QED
      BY <3>2, <3>3
  <2>8. Dated'
    BY <1>2, <2>6, <2>7 DEF Dated
  <2> QED
    BY <2>5, <2>8 DEF Reconciled
<1>10. CASE f.type # "EVENT"
  <2>1. ledger' = ledger
    BY <1>1, <1>10 DEF LedgerWith
  <2>2. delivered' = delivered /\ rcv_stats'["ev_duplicate"] = rcv_stats["ev_duplicate"]
    BY <1>0, <1>1, <1>4, <1>10, CoreAssumptions, SameFrames, Rcv!Verdicts
  <2> QED
    BY <1>8, <2>1, <2>2
<1>11. CASE f.type = "EVENT"
  <2> DEFINE l == ledger[f.id]
  <2>1. l \in LedgerRow /\ f.id # 0
    BY <1>3, <1>4, <1>11
  <2>2. CASE Rcv!Deliverable(f)
    <3> DEFINE r == [l EXCEPT !.rx_first = t]
    <3>1. ledger' = [ledger EXCEPT ![f.id] = r]
      BY <1>1, <1>11, <2>2 DEF LedgerWith
    <3>2. /\ delivered' = delivered \cup {f.id}
          /\ rcv_stats'["ev_duplicate"] = rcv_stats["ev_duplicate"]
      BY <1>0, <1>1, <1>4, <1>11, <2>2, CoreAssumptions, SameFrames, Rcv!Verdicts
    <3>3. /\ r \in LedgerRow /\ r.attempts = l.attempts /\ r.first_tx = l.first_tx
          /\ r.rx_dups = l.rx_dups /\ r.rx_first = t
      <4> HIDE DEF l
      <4> QED
        BY <1>0, <2>1 DEF LedgerRow
    <3> HIDE DEF r
    <3> QED
      BY <1>9, <1>11, <3>1, <3>2, <3>3
  <2>3. CASE ~ Rcv!Deliverable(f) /\ Rcv!Duplicate(f)
    <3> DEFINE r == [l EXCEPT !.rx_dups = l.rx_dups + 1]
    <3>1. ledger' = [ledger EXCEPT ![f.id] = r]
      BY <1>1, <1>11, <2>3 DEF LedgerWith
    <3>2. /\ delivered' = delivered
          /\ rcv_stats'["ev_duplicate"] = rcv_stats["ev_duplicate"] + 1
      BY <1>0, <1>1, <1>4, <1>11, <2>3, CoreAssumptions, SameFrames, Rcv!Verdicts
    <3>3. /\ r \in LedgerRow /\ r.attempts = l.attempts /\ r.first_tx = l.first_tx
          /\ r.rx_dups = l.rx_dups + 1 /\ r.rx_first = l.rx_first
      <4> HIDE DEF l
      <4> QED
        BY <1>0, <2>1 DEF LedgerRow
    <3> HIDE DEF r
    <3> QED
      BY <1>9, <1>11, <3>1, <3>2, <3>3
  <2>4. CASE ~ Rcv!Deliverable(f) /\ ~ Rcv!Duplicate(f)
    <3> DEFINE r == [l EXCEPT !.rx_oow = l.rx_oow + 1]
    <3>1. ledger' = [ledger EXCEPT ![f.id] = r]
      BY <1>1, <1>11, <2>4 DEF LedgerWith
    <3>2. /\ delivered' = delivered
          /\ rcv_stats'["ev_duplicate"] = rcv_stats["ev_duplicate"]
      BY <1>0, <1>1, <1>4, <1>11, <2>4, CoreAssumptions, SameFrames, Rcv!Verdicts
    <3>3. /\ r \in LedgerRow /\ r.attempts = l.attempts /\ r.first_tx = l.first_tx
          /\ r.rx_dups = l.rx_dups /\ r.rx_first = l.rx_first
      <4> HIDE DEF l
      <4> QED
        BY <1>0, <2>1 DEF LedgerRow
    <3> HIDE DEF r
    <3> QED
      BY <1>9, <1>11, <3>1, <3>2, <3>3
  <2> QED
    BY <2>2, <2>3, <2>4
<1> QED
  BY <1>10, <1>11

\* An acknowledgement makes no attempt.
LEMMA AckArrivalReconciled ==
  ASSUME Truthful, Conserved, Reconciled, AckArrival
  PROVE  Reconciled'
<1>0. Cores /\ Snd!Safe /\ t \in Nat /\ Entered /\ Dated
  BY DEF Truthful, Cores, Reconciled
<1>1. PICK m \in ack_link : Snd!IngestAck(t, m.frame)
  BY DEF AckArrival, NextDue
<1>2. UNCHANGED <<t, data_link, ledger, delivered, rcv_stats>>
  BY DEF AckArrival, rcvVars
<1>3. m.frame \in AnyFrame
  BY <1>1, HonestIsPossible DEF Conserved
<1>4. Snd!AttemptsKept /\ Len(outcome') = Len(outcome) /\ Snd!Safe'
  BY <1>0, <1>1, <1>3, CoreAssumptions, SameFrames, Snd!QuietCalls, Snd!IngestAckChanges
<1>5. ASSUME NEW i \in Snd!UsedSlots'
      PROVE  ledger[events'[i].id].attempts = events'[i].attempts
  <2>1. events'[i].id # Len(outcome) + 1
    <3>1. events'[i].id \in 1 .. Len(outcome) /\ Len(outcome) \in Nat
      BY <1>0, <1>4, IdsGivenNext, RowsAre DEF IdsGiven
    <3> QED
      BY <3>1
  <2>2. /\ i \in Snd!UsedSlots /\ events'[i].id = events[i].id
        /\ events'[i].attempts = events[i].attempts
    BY <1>4, <2>1 DEF Snd!AttemptsKept
  <2> QED
    BY <1>0, <2>2 DEF Entered
<1>6. Entered'
  BY <1>0, <1>2, <1>4, <1>5 DEF Entered, Snd!AttemptsKept
<1>7. Dated'
  BY <1>0, <1>2 DEF Dated
<1> QED
  BY <1>6, <1>7 DEF Reconciled

\* A transmission is entered under its event, with the count of the slot and, the first
\* time, the date.
LEMMA ForwardReconciled ==
  ASSUME Truthful, Conserved, Reconciled, NEW e \in Entries, ForwardOn(e)
  PROVE  Reconciled'
<1>0. Cores /\ Snd!Safe /\ t \in Nat /\ Entered /\ Dated /\ Honest /\ Timely
  BY DEF Truthful, Cores, Reconciled, Conserved
<1>1. PICK c \in Snd!Choices(t) :
        /\ Snd!TimeOk(t) /\ Snd!StepWith(t, c) /\ ledger' \in LedgerAfter(c)
        /\ \/ data_link' = data_link
           \/ \E f \in Snd!FramesSent(t, c) : data_link' = Carried(data_link, f, e)
  BY DEF ForwardOn
<1>2. UNCHANGED <<t, delivered, rcv_stats>>
  BY DEF ForwardOn, rcvVars
<1>3. /\ DOMAIN ledger = 1 .. Len(outcome) /\ Len(outcome) \in Nat
      /\ ledger \in Seq(LedgerRow) /\ \A id \in DOMAIN ledger : ledger[id] \in LedgerRow
      /\ \A i \in Snd!UsedSlots : events[i].id \in DOMAIN ledger
                                  /\ ledger[events[i].id].attempts = events[i].attempts
  BY <1>0, RowsAre DEF Entered
<1>4. /\ t <= HORIZON /\ Len(outcome') = Len(outcome) /\ Snd!Safe'
      /\ c.kind # "EVENT" => Snd!AttemptsKept
      /\ c.kind = "EVENT" =>
           /\ snd_stats'["event_tx"] = snd_stats["event_tx"] + 1
           /\ \E i \in Snd!UsedSlots :
                /\ Snd!SlotOf(events, c.id) = {i} /\ events[i].id = c.id
                /\ \A j \in Snd!UsedSlots' :
                     /\ j \in Snd!UsedSlots /\ events'[j].id = events[j].id
                     /\ events'[j].attempts = events[j].attempts + (IF j = i THEN 1 ELSE 0)
  BY <1>0, <1>1, CoreAssumptions, Snd!StepAttempts, Snd!StepChanges
<1>5. t < TIME_NONE /\ HORIZON \in Nat /\ TIME_NONE \in Nat /\ HORIZON < TIME_NONE
  BY <1>0, <1>4, SystemAssumption
<1>6. \A m \in data_link' : m \in data_link \/ (m.sent = t /\ m.frame \in Snd!FramesSent(t, c))
  BY <1>1 DEF Carried
<1>7. \A m \in data_link : m.frame.type = "EVENT" => m.frame.id \in DOMAIN ledger
  BY <1>0, <1>3 DEF Honest, DataFrameOK, StateFrame
<1>8. CASE c.kind # "EVENT"
  <2>1. ledger' = ledger
    BY <1>1, <1>8 DEF LedgerAfter
  <2>2. ASSUME NEW i \in Snd!UsedSlots'
        PROVE  ledger[events'[i].id].attempts = events'[i].attempts
    <3>1. events'[i].id # Len(outcome) + 1
      <4>1. events'[i].id \in 1 .. Len(outcome)
        BY <1>4, IdsGivenNext DEF IdsGiven
      <4> QED
        BY <1>3, <4>1
    <3>2. /\ i \in Snd!UsedSlots /\ events'[i].id = events[i].id
          /\ events'[i].attempts = events[i].attempts
      BY <1>4, <1>8, <3>1 DEF Snd!AttemptsKept
    <3> QED
      BY <1>3, <3>2
  <2>3. Entered'
    BY <1>0, <1>2, <1>4, <1>8, <2>1, <2>2 DEF Entered, Snd!AttemptsKept
  <2>4. \A f \in Snd!FramesSent(t, c) : f.type # "EVENT"
    <3>1. c.kind \in {"STATE", "NONE"}
      BY <1>1, <1>8 DEF Snd!StepWith, Snd!StepEvent, Snd!StepState, Snd!StepIdle
    <3>2. CASE c.kind = "STATE"
      BY <3>2 DEF Snd!FramesSent
    <3>3. CASE c.kind = "NONE"
      BY <3>3 DEF Snd!FramesSent
    <3> QED
      BY <3>1, <3>2, <3>3
  <2>5. \A m \in data_link' : m.frame.type = "EVENT" => ledger[m.frame.id].first_tx <= m.sent
    BY <1>0, <1>6, <2>4 DEF Dated
  <2>6. Dated'
    BY <1>0, <1>2, <2>1, <2>5 DEF Dated
  <2> QED
    BY <2>3, <2>6 DEF Reconciled
<1>9. CASE c.kind = "EVENT"
  <2>1. PICK i \in Snd!UsedSlots :
          /\ Snd!SlotOf(events, c.id) = {i} /\ events[i].id = c.id
          /\ \A j \in Snd!UsedSlots' :
               /\ j \in Snd!UsedSlots /\ events'[j].id = events[j].id
               /\ events'[j].attempts = events[j].attempts + (IF j = i THEN 1 ELSE 0)
    BY <1>4, <1>9
  <2> DEFINE l == ledger[c.id]
             first == IF l.first_tx = TIME_NONE THEN t ELSE l.first_tx
             q == [l EXCEPT !.attempts = events[i].attempts + 1]
             r == [q EXCEPT !.first_tx = first]
  <2>2. c.id \in DOMAIN ledger /\ l \in LedgerRow /\ l.attempts = events[i].attempts
    BY <1>3, <2>1
  <2>3. ledger' = [ledger EXCEPT ![c.id] = r]
    <3>1. ledger' = [ledger EXCEPT ![c.id].attempts = events[i].attempts + 1,
                                   ![c.id].first_tx = IF @ = TIME_NONE THEN t ELSE @]
      BY <1>1, <1>9, <2>1 DEF LedgerAfter
    <3>2. q.first_tx = l.first_tx
      <4> HIDE DEF l
      <4> QED
        BY <2>2 DEF LedgerRow
    <3> QED
      BY <2>2, <3>1, <3>2
  <2>4. first \in Nat /\ first <= t
    <3>1. l.first_tx = TIME_NONE \/ l.first_tx <= t
      BY <1>0, <2>2 DEF Dated
    <3>2. l.first_tx \in Nat
      <4> HIDE DEF l
      <4> QED
        BY <2>2 DEF LedgerRow
    <3> QED
      BY <1>0, <3>1, <3>2
  <2>5. /\ r \in LedgerRow /\ r.attempts = l.attempts + 1 /\ r.first_tx = first
        /\ r.rx_first = l.rx_first /\ r.rx_dups = l.rx_dups
    <3> HIDE DEF l, first
    <3>1. l.attempts \in Nat
      BY <2>2 DEF LedgerRow
    <3>2. /\ q \in LedgerRow /\ q.attempts = l.attempts + 1
          /\ q.rx_first = l.rx_first /\ q.rx_dups = l.rx_dups
      BY <2>2, <3>1 DEF LedgerRow
    <3> HIDE DEF q
    <3> QED
      BY <2>4, <3>2 DEF LedgerRow
  <2> HIDE DEF q, r
  <2>6. /\ ledger' \in Seq(LedgerRow) /\ Len(ledger') = Len(ledger) /\ DOMAIN ledger' = DOMAIN ledger
        /\ ledger'[c.id] = r
        /\ \A k \in DOMAIN ledger : k # c.id => ledger'[k] = ledger[k]
        /\ SumFunction(AttemptsOf(ledger')) = SumFunction(AttemptsOf(ledger)) + 1
        /\ SumFunction(DupsOf(ledger')) = SumFunction(DupsOf(ledger))
    BY <1>3, <2>2, <2>3, <2>5, RowChanged
  <2>7. \A j \in Snd!UsedSlots' : ledger'[events'[j].id].attempts = events'[j].attempts
    <3> SUFFICES ASSUME NEW j \in Snd!UsedSlots'
                 PROVE  ledger'[events'[j].id].attempts = events'[j].attempts
      OBVIOUS
    <3>1. /\ j \in Snd!UsedSlots /\ events'[j].id = events[j].id /\ events[j].id \in DOMAIN ledger
          /\ ledger[events[j].id].attempts = events[j].attempts
          /\ events'[j].attempts = events[j].attempts + (IF j = i THEN 1 ELSE 0)
          /\ events[j].attempts \in Nat
      BY <1>0, <1>3, <2>1, CoreAssumptions, Snd!SafeFacts
    <3>2. CASE j = i
      BY <2>1, <2>2, <2>5, <2>6, <3>1, <3>2
    <3>3. CASE j # i
      <4>1. events[j].id # c.id
        BY <2>1, <3>1, <3>3 DEF Snd!SlotOf, Snd!UsedSlots
      <4> QED
        BY <2>6, <3>1, <3>3, <4>1
    <3> QED
      BY <3>2, <3>3
  <2>8. Entered'
    BY <1>0, <1>2, <1>4, <1>9, <2>6, <2>7 DEF Entered
  <2>9. \A m \in data_link' : m.frame.type = "EVENT" => ledger'[m.frame.id].first_tx <= m.sent
    <3> SUFFICES ASSUME NEW m \in data_link', m.frame.type = "EVENT"
                 PROVE  ledger'[m.frame.id].first_tx <= m.sent
      OBVIOUS
    <3>1. CASE m \in data_link
      <4>1. /\ m.frame.id \in DOMAIN ledger /\ ledger[m.frame.id].first_tx <= m.sent
            /\ m.sent \in Nat /\ m.sent <= t
        BY <1>0, <1>7, <3>1 DEF Dated, Timely
      <4>2. m.frame.id = c.id => l.first_tx # TIME_NONE
        BY <1>0, <1>5, <4>1
      <4> QED
        BY <2>5, <2>6, <4>1, <4>2
    <3>2. CASE m.sent = t /\ m.frame \in Snd!FramesSent(t, c)
      <4>1. m.frame.id = c.id
        BY <1>9, <3>2 DEF Snd!FramesSent
      <4> QED
        BY <2>4, <2>5, <2>6, <3>2, <4>1
    <3> QED
      BY <1>6, <3>1, <3>2
  <2>10. ASSUME NEW id \in DOMAIN ledger
         PROVE  LET w == ledger'[id]
                IN  /\ w.first_tx = TIME_NONE \/ w.first_tx <= t
                    /\ id \in delivered => w.first_tx < w.rx_first /\ w.rx_first <= HORIZON
                    /\ id \notin delivered => w.rx_first = TIME_NONE
    <3>1. /\ ledger[id].first_tx = TIME_NONE \/ ledger[id].first_tx <= t
          /\ id \in delivered => ledger[id].first_tx < ledger[id].rx_first
                                 /\ ledger[id].rx_first <= HORIZON
          /\ id \notin delivered => ledger[id].rx_first = TIME_NONE
      BY <1>0, <2>10 DEF Dated
    <3>2. CASE id # c.id
      BY <2>6, <3>1, <3>2
    <3>3. CASE id = c.id
      <4>1. l.rx_first \in Nat /\ l.first_tx \in Nat
        <5> HIDE DEF l
        <5> QED
          BY <2>2 DEF LedgerRow
      <4>2. id \in delivered => l.first_tx # TIME_NONE
        BY <1>5, <3>1, <3>3, <4>1
      <4> QED
        BY <2>4, <2>5, <2>6, <3>1, <3>3, <4>2
    <3> QED
      BY <3>2, <3>3
  <2>11. Dated'
    BY <1>2, <2>6, <2>9, <2>10 DEF Dated
  <2> QED
    BY <2>8, <2>11 DEF Reconciled
<1> QED
  BY <1>8, <1>9

\* The steps that leave the ledger and what it is reconciled with alone.
LEMMA RestReconciled ==
  ASSUME Truthful, Reconciled,
         Reverse \/ WorkloadDone \/ DataDone \/ AckDone \/ EndOfMs \/ UNCHANGED vars
  PROVE  Reconciled'
<1>0. Cores /\ Rcv!Sound /\ t \in Nat /\ Entered /\ Dated
  BY DEF Truthful, Cores, Reconciled
<1>1. UNCHANGED <<ledger, events, outcome, snd_stats, data_link>> /\ t' \in Nat /\ t <= t'
  BY <1>0 DEF Reverse, ReverseOn, WorkloadDone, DataDone, AckDone, EndOfMs, vars, hostVars, sndVars
<1>2. delivered' = delivered /\ rcv_stats'["ev_duplicate"] = rcv_stats["ev_duplicate"]
  <2>1. CASE Reverse
    <3>1. Rcv!Step(t)
      BY <2>1 DEF Reverse, ReverseOn
    <3> QED
      BY <1>0, <3>1, CoreAssumptions, Rcv!StepVerdicts
  <2> QED
    BY <2>1 DEF WorkloadDone, DataDone, AckDone, EndOfMs, vars, rcvVars
<1>3. \A i \in Snd!UsedSlots' : i \in Snd!UsedSlots /\ events'[i] = events[i]
  BY <1>1 DEF Snd!UsedSlots, Snd!Slot
<1>4. Entered'
  BY <1>0, <1>1, <1>2, <1>3 DEF Entered
<1>5. \A id \in DOMAIN ledger : ledger[id].first_tx \in Nat
  BY <1>0, RowsAre DEF LedgerRow
<1>6. \A id \in DOMAIN ledger : ledger[id].first_tx = TIME_NONE \/ ledger[id].first_tx <= t'
  BY <1>0, <1>1, <1>5 DEF Dated
<1>7. Dated'
  BY <1>0, <1>1, <1>2, <1>6 DEF Dated
<1> QED
  BY <1>4, <1>7 DEF Reconciled

\* Every step of the run keeps the ledger reconciled.
LEMMA ReconciledKept == Truthful /\ Conserved /\ Reconciled /\ [Next]_vars => Reconciled'
<1> SUFFICES ASSUME Truthful, Conserved, Reconciled, [Next]_vars PROVE Reconciled'
  OBVIOUS
<1>1. CASE WorkloadRow
  BY <1>1, RowReconciled DEF WorkloadRow
<1>2. CASE Forward
  BY <1>2, ForwardReconciled DEF Forward
<1> QED
  BY <1>1, <1>2, DataArrivalReconciled, AckArrivalReconciled, RestReconciled DEF Next

\* Before the run the ledger is empty and every counter is zero.
LEMMA InitReconciled == Init => Reconciled
<1> SUFFICES ASSUME Init PROVE Reconciled
  OBVIOUS
<1>1. ledger = <<>> /\ outcome = <<>> /\ data_link = {}
  BY DEF Init, Snd!Init
<1>2. /\ snd_stats["event_tx"] = 0 /\ rcv_stats["ev_duplicate"] = 0 /\ Snd!UsedSlots = {}
  BY DEF Init, Snd!Init, Rcv!Init, Snd!UsedSlots, Snd!Free, Snd!Stream, Rcv!Stream,
         Snd!Counter, Rcv!Counter
<1>3. DOMAIN AttemptsOf(ledger) = {} /\ DOMAIN DupsOf(ledger) = {}
  BY <1>1 DEF AttemptsOf, DupsOf
<1>4. SumFunction(AttemptsOf(ledger)) = 0 /\ SumFunction(DupsOf(ledger)) = 0
  BY <1>3, SumOfNone
<1>5. Entered
  BY <1>1, <1>2, <1>4 DEF Entered
<1>6. Dated
  BY <1>1 DEF Dated
<1> QED
  BY <1>5, <1>6 DEF Reconciled

\* The host's ledger agrees with both cores at every instant: its attempts and duplicates
\* add up to theirs, and an event is received once, after it was first transmitted.
THEOREM SystemLedgerReconciles == Spec => []LedgerReconciles
<1>1. Truthful /\ Reconciled => LedgerReconciles
  <2> SUFFICES ASSUME Truthful, Reconciled PROVE LedgerReconciles
    OBVIOUS
  <2>1. Cores /\ Entered /\ Dated
    BY DEF Truthful, Reconciled
  <2>2. Len(ledger) = snd_stats["events_generated"]
    BY <2>1, Numbers DEF Numeric, Entered
  <2>3. /\ SumFunction([id \in DOMAIN ledger |-> ledger[id].attempts]) = snd_stats["event_tx"]
        /\ SumFunction([id \in DOMAIN ledger |-> ledger[id].rx_dups]) = rcv_stats["ev_duplicate"]
    BY <2>1 DEF Entered, AttemptsOf, DupsOf
  <2>4. HORIZON \in Nat /\ TIME_NONE \in Nat /\ HORIZON < TIME_NONE
    BY SystemAssumption
  <2>5. \A id \in DOMAIN ledger : ledger[id].rx_first \in Nat
    BY <2>1, RowsAre DEF LedgerRow
  <2>6. \A id \in DOMAIN ledger :
          /\ ledger[id].rx_first # TIME_NONE <=> id \in delivered
          /\ id \in delivered => ledger[id].first_tx < ledger[id].rx_first
    BY <2>1, <2>4, <2>5 DEF Dated
  <2> QED
    BY <2>1, <2>2, <2>3, <2>6 DEF LedgerReconciles, Entered
<1> QED
  BY <1>1, InitReconciled, ReconciledKept, SystemTruthful, InitConserved, ConservedKept, PTL
     DEF Spec

-----------------------------------------------------------------------------
(* The metrics of a run: the inductive invariant. *)

\* The run's clock stands at RUN_MS when the loop has ended and below it before, and the
\* sender's is not ahead of it.
Clocked ==
  /\ phase \in {"workload", "data", "ack", "forward", "reverse", "check", "end"}
  /\ phase = "end" => t = RUN_MS
  /\ phase # "end" => t < RUN_MS
  /\ snd_now = TIME_NONE \/ snd_now <= t

\* The snapshots of stream s under way.
UnderWay(s) == {m \in data_link : Snapshot(m, s)}

\* The snapshots of stream s that were sent, up to the one the receiver holds.
SentUpTo(s, n) == {q \in 1 .. n : <<s, q>> \in sent}

StreamCounts == [published : Nat, sent : Nat, applied : Nat, stale_dropped : Nat]

\* The counts of a stream: one snapshot applied is one more that was sent, of those no
\* newer than the one held, and each frame sent is applied, stale, under way or lost.
CountedStream(s) ==
  /\ sc[s].published = snd_streams[s].latest_seq
  /\ sc[s].applied <= Cardinality(SentUpTo(s, Held(s)))
  /\ sc[s].applied + sc[s].stale_dropped + Cardinality(UnderWay(s)) <= sc[s].sent
  /\ sc[s].applied > 0 <=> Held(s) > 0

\* A decision to send is seen by its date, since a slot has one: no stream was sent at t
\* before the turn came.
DatedStream(s) ==
  LET tx == snd_streams[s].last_tx
  IN  tx = TIME_NONE \/ tx < t \/ (tx = t /\ phase \in {"reverse", "check"})

Counted ==
  /\ sc \in [Snd!Stream -> StreamCounts]
  /\ \A s \in Snd!Stream : CountedStream(s) /\ DatedStream(s)
  /\ \A m \in data_link : m.frame.type = "STATE" => <<m.frame.stream, m.frame.seq>> \in sent
  /\ SumFunction([s \in Snd!Stream |-> sc[s].sent]) = snd_stats["state_tx"]

\* An event was generated no later than it was transmitted, and confirmed later than it
\* was received, because its acknowledgement left no earlier than that and travelled.
TimedEvent(id) ==
  /\ times[id].gen <= t /\ times[id].gen <= ledger[id].first_tx
  /\ id \in delivered => ledger[id].rx_first <= t /\ ledger[id].rx_first < RUN_MS
  /\ outcome[id] = "ACKED" => /\ ledger[id].rx_first < times[id].terminal
                              /\ times[id].terminal < RUN_MS

Timed ==
  /\ times \in [1 .. Len(outcome) -> [gen : Nat, terminal : Nat]]
  /\ \A id \in 1 .. Len(outcome) : TimedEvent(id)
  /\ \A m \in ack_link :
       /\ m.sent < m.arrival
       /\ m.frame.type = "ACK_EVENT" => ledger[m.frame.id].rx_first <= m.sent

\* A receive log: its times do not go back and no snapshot is from the future.
LogOK(log) ==
  /\ log \in Seq(Nat \X Nat)
  /\ \A i \in 1 .. Len(log) : log[i][2] <= log[i][1]
  /\ \A i, j \in 1 .. Len(log) : i <= j => log[i][1] <= log[j][1]

\* Accumulator a is exact for the log up to the time end.
ExactTo(a, log, end) ==
  /\ a.area2 = Area2(log, end)
  /\ a.over_ms = OverMs(log, end)
  /\ a.peak = Largest(Peaks(log, end))

Accumulator ==
  [defined : BOOLEAN, first_apply : Nat, seg_start : Nat, cur_gen : Nat, area2 : Nat,
   over_ms : Nat, peak : Nat, unknown_ms : Nat, final_age : Nat, finished : BOOLEAN]

\* While the run goes on, it is exact up to the segment that is open, which began with the
\* last snapshot of the log.
Running(a, log) ==
  /\ a \in Accumulator /\ ~ a.finished /\ LogOK(log)
  /\ a.defined <=> log # <<>>
  /\ log # <<>> => /\ a.seg_start = log[Len(log)][1] /\ a.cur_gen = log[Len(log)][2]
                   /\ a.unknown_ms = log[1][1] /\ a.seg_start <= t
  /\ ExactTo(a, log, a.seg_start)

Ended(a, log) ==
  /\ ExactTo(a, log, RUN_MS)
  /\ a.unknown_ms = RUN_MS - Cardinality(Known(log, RUN_MS))
  /\ log # <<>> => a.final_age = Age(log, RUN_MS)

Reported ==
  \/ summary = NoSummary /\ \A s \in Snd!Stream : Running(aoi[s], rxlog[s])
  \/ /\ phase = "end" /\ summary = Totals
     /\ \A s \in Snd!Stream : Ended(aoi[s], rxlog[s])

Watched == Clocked /\ Snd!Ledger /\ Counted /\ Timed /\ Reported

-----------------------------------------------------------------------------
(* What the receive log gives. *)

\* The largest of a set is its maximum, zero if there is none.
LEMMA LargestOf ==
  ASSUME NEW S, S \subseteq Nat, IsFiniteSet(S)
  PROVE  /\ Largest(S) \in Nat /\ Largest(S) \in S \cup {0}
         /\ \A n \in S : n <= Largest(S)
<1> DEFINE Z == S \cup {0}
<1>1. Z \subseteq Nat /\ Z # {} /\ IsFiniteSet(Z)
  BY FS_AddElement
<1>2. \E m \in Z : \A n \in Z : n <= m
  <2> HIDE DEF Z
  <2> QED
    BY <1>1, NatMax
<1>3. \E m \in Z : \A n \in Z : m >= n
  BY <1>1, <1>2
<1>4. Max(Z) \in Z /\ \A n \in Z : Max(Z) >= n
  <2> HIDE DEF Z
  <2> QED
    BY <1>3 DEF Max
<1>5. Largest(S) = Max(Z)
  BY DEF Largest
<1> QED
  BY <1>1, <1>4, <1>5

\* A member, or zero, that none exceeds is the largest.
LEMMA LargestIs ==
  ASSUME NEW S, S \subseteq Nat, IsFiniteSet(S), NEW m \in S \cup {0}, \A n \in S : n <= m
  PROVE  Largest(S) = m
<1>1. /\ Largest(S) \in Nat /\ Largest(S) \in S \cup {0}
      /\ \A n \in S : n <= Largest(S)
  BY LargestOf
<1>2. m \in Nat
  OBVIOUS
<1>3. Largest(S) <= m
  BY <1>1, <1>2
<1>4. m <= Largest(S)
  BY <1>1, <1>2
<1> QED
  BY <1>1, <1>2, <1>3, <1>4

\* The entries of a log are numbers.
LEMMA LogEntries ==
  ASSUME NEW log, LogOK(log)
  PROVE  /\ Len(log) \in Nat /\ DOMAIN log = 1 .. Len(log)
         /\ \A i \in 1 .. Len(log) : log[i][1] \in Nat /\ log[i][2] \in Nat
         /\ log # <<>> <=> Len(log) > 0
<1>1. log \in Seq(Nat \X Nat)
  BY DEF LogOK
<1>2. Len(log) \in Nat /\ DOMAIN log = 1 .. Len(log)
  BY <1>1
<1>3. \A i \in 1 .. Len(log) : log[i] \in Nat \X Nat
  BY <1>1
<1>4. log # <<>> <=> Len(log) > 0
  BY <1>1
<1> QED
  BY <1>2, <1>3, <1>4

\* The entry a log is read at: the last one not after x.
LEMMA ReadAt ==
  ASSUME NEW log, LogOK(log), log # <<>>, NEW x \in Nat, log[1][1] <= x
  PROVE  LET E == {i \in DOMAIN log : log[i][1] <= x}
         IN  Max(E) \in 1 .. Len(log) /\ log[Max(E)][1] <= x /\ \A i \in E : i <= Max(E)
<1> DEFINE E == {i \in DOMAIN log : log[i][1] <= x}
<1>0. /\ Len(log) \in Nat /\ DOMAIN log = 1 .. Len(log)
      /\ \A i \in 1 .. Len(log) : log[i][1] \in Nat /\ log[i][2] \in Nat
      /\ Len(log) > 0
  BY LogEntries
<1>1. 1 \in E /\ E \subseteq 1 .. Len(log)
  BY <1>0
<1>2. E \subseteq Nat /\ IsFiniteSet(E)
  <2>1. 1 .. Len(log) \subseteq Nat /\ IsFiniteSet(1 .. Len(log))
    BY <1>0, FS_Interval
  <2> HIDE DEF E
  <2> QED
    BY <1>1, <2>1, FS_Subset
<1>3. \E m \in E : \A n \in E : m >= n
  <2>1. \E m \in E : \A n \in E : n <= m
    <3> HIDE DEF E
    <3> QED
      BY <1>1, <1>2, NatMax
  <2> HIDE DEF E
  <2> QED
    BY <1>2, <2>1
<1>4. Max(E) \in E /\ \A n \in E : Max(E) >= n
  <2> HIDE DEF E
  <2> QED
    BY <1>3 DEF Max
<1>5. log[Max(E)][1] <= x
  BY <1>4
<1> HIDE DEF E
<1>6. \A n \in E : n <= Max(E)
  BY <1>2, <1>4
<1>7. Max(E) \in 1 .. Len(log)
  BY <1>1, <1>4
<1> QED
  BY <1>5, <1>6, <1>7 DEF E

\* The age read is never negative, and after the last entry it counts from that one.
LEMMA AgeRead ==
  ASSUME NEW log, LogOK(log), log # <<>>, NEW x \in Nat, log[1][1] <= x
  PROVE  /\ Age(log, x) \in Nat
         /\ log[Len(log)][1] <= x => Age(log, x) = x - log[Len(log)][2]
<1> DEFINE E == {i \in DOMAIN log : log[i][1] <= x}
           k == Max(E)
<1>0. /\ Len(log) \in Nat /\ DOMAIN log = 1 .. Len(log)
      /\ \A i \in 1 .. Len(log) : log[i][1] \in Nat /\ log[i][2] \in Nat
      /\ Len(log) > 0
  BY LogEntries
<1>1. k \in 1 .. Len(log) /\ log[k][1] <= x /\ \A i \in E : i <= k
  BY ReadAt
<1>2. Age(log, x) = x - log[k][2]
  BY DEF Age
<1>3. log[k][2] <= log[k][1]
  BY <1>1 DEF LogOK
<1>4. ASSUME log[Len(log)][1] <= x PROVE k = Len(log)
  <2>1. Len(log) \in E
    BY <1>0, <1>4
  <2>2. Len(log) <= k
    BY <1>1, <2>1
  <2>3. k \in 1 .. Len(log) /\ Len(log) \in Nat
    BY <1>0, <1>1
  <2> HIDE DEF k, E
  <2> QED
    BY <2>2, <2>3
<1> HIDE DEF k
<1>5. Age(log, x) \in Nat
  BY <1>0, <1>1, <1>2, <1>3
<1> QED
  BY <1>2, <1>4, <1>5

\* A later entry does not change what was read before it.
LEMMA AgeKept ==
  ASSUME NEW log, LogOK(log), log # <<>>, NEW u \in Nat, NEW g \in Nat,
         NEW x \in Nat, log[1][1] <= x, x < u
  PROVE  Age(Append(log, <<u, g>>), x) = Age(log, x)
<1> DEFINE n == Append(log, <<u, g>>)
           E == {i \in DOMAIN log : log[i][1] <= x}
           F == {i \in DOMAIN n : n[i][1] <= x}
<1>0. /\ Len(log) \in Nat /\ DOMAIN log = 1 .. Len(log) /\ log \in Seq(Nat \X Nat)
      /\ \A i \in 1 .. Len(log) : log[i][1] \in Nat /\ log[i][2] \in Nat
      /\ Len(log) > 0
  BY LogEntries DEF LogOK
<1>1. /\ Len(n) = Len(log) + 1 /\ DOMAIN n = 1 .. Len(log) + 1
      /\ \A i \in 1 .. Len(log) : n[i] = log[i]
      /\ n[Len(log) + 1] = <<u, g>>
  BY <1>0
<1>2. E = F
  <2>1. Len(log) + 1 \notin F
    <3>1. n[Len(log) + 1][1] = u
      BY <1>1
    <3> QED
      BY <3>1
  <2>2. \A i \in 1 .. Len(log) : i \in F <=> i \in E
    BY <1>0, <1>1
  <2>3. \A i \in F : i \in 1 .. Len(log)
    <3>1. \A i \in F : i \in 1 .. Len(log) + 1 /\ i # Len(log) + 1
      BY <1>1, <2>1
    <3> HIDE DEF F
    <3> QED
      BY <1>0, <3>1
  <2>4. \A i \in E : i \in 1 .. Len(log)
    BY <1>0
  <2> HIDE DEF E, F
  <2> QED
    BY <2>2, <2>3, <2>4
<1>3. Max(E) \in 1 .. Len(log)
  BY ReadAt
<1>4. n[Max(E)] = log[Max(E)]
  BY <1>1, <1>3
<1>5. Age(n, x) = x - n[Max(F)][2] /\ Age(log, x) = x - log[Max(E)][2]
  BY DEF Age
<1> QED
  BY <1>2, <1>4, <1>5

\* The milliseconds of a log: one more up to a later time, none that was not known before
\* its first entry.
LEMMA KnownMore ==
  ASSUME NEW log, LogOK(log), log # <<>>, NEW u \in Nat, log[1][1] <= u
  PROVE  /\ IsFiniteSet(Known(log, u)) /\ Known(log, u) \subseteq Nat
         /\ \A x \in Known(log, u) : x \in Nat /\ log[1][1] <= x /\ x < u
         /\ Known(log, u + 1) = Known(log, u) \cup {u} /\ u \notin Known(log, u)
<1>1. log[1][1] \in Nat
  BY LogEntries
<1>2. Known(log, u) = log[1][1] .. u - 1 /\ Known(log, u + 1) = log[1][1] .. (u + 1) - 1
  BY DEF Known
<1>3. IsFiniteSet(log[1][1] .. u - 1)
  BY <1>1, FS_Interval
<1> QED
  BY <1>1, <1>2, <1>3

\* The terms of the area and the milliseconds over the threshold, up to a time.
Term(log, u)  == [x \in Known(log, u) |-> 2 * Age(log, x) + 1]
Above(log, u) == {x \in Known(log, u) : Age(log, x) >= AoiThreshold}

\* They are numbers.
LEMMA TermTypes ==
  ASSUME NEW log, LogOK(log), log # <<>>, NEW u \in Nat, log[1][1] <= u
  PROVE  /\ Term(log, u) \in [Known(log, u) -> Nat] /\ Area2(log, u) \in Nat
         /\ IsFiniteSet(Above(log, u)) /\ OverMs(log, u) \in Nat
<1>1. /\ IsFiniteSet(Known(log, u))
      /\ \A x \in Known(log, u) : x \in Nat /\ log[1][1] <= x
  BY KnownMore
<1>2. \A x \in Known(log, u) : Age(log, x) \in Nat
  BY <1>1, AgeRead
<1>3. \A x \in Known(log, u) : 2 * Age(log, x) + 1 \in Nat
  BY <1>2
<1>4. Term(log, u) \in [Known(log, u) -> Nat]
  BY <1>3 DEF Term
<1>5. Area2(log, u) \in Nat
  BY <1>1, <1>4, SumIsNat DEF Area2, Term
<1>6. IsFiniteSet(Above(log, u))
  BY <1>1, FS_Subset DEF Above
<1>7. OverMs(log, u) \in Nat
  BY <1>6, FS_CardinalityType DEF OverMs, Above
<1> QED
  BY <1>4, <1>5, <1>6, <1>7

\* One term more.
LEMMA TermsAdd ==
  ASSUME NEW log, NEW u \in Nat, IsFiniteSet(Known(log, u)), u \notin Known(log, u),
         Known(log, u + 1) = Known(log, u) \cup {u},
         Term(log, u) \in [Known(log, u) -> Nat],
         Term(log, u + 1) \in [Known(log, u + 1) -> Nat],
         \A y \in Known(log, u) : Term(log, u + 1)[y] = Term(log, u)[y]
  PROVE  SumFunction(Term(log, u + 1)) = SumFunction(Term(log, u)) + Term(log, u + 1)[u]
<1> DEFINE T == Known(log, u + 1)
           f == Term(log, u)
           h == Term(log, u + 1)
           x == u
<1>1. IsFiniteSet(T) /\ x \in T
  BY FS_AddElement
<1>2. h \in [T -> Nat]
  OBVIOUS
<1>3. f = [y \in T \ {x} |-> h[y]]
  OBVIOUS
<1> HIDE DEF T, f, h, x
<1>4. SumFunction(h) = SumFunction([y \in T \ {x} |-> h[y]]) + h[x]
  BY <1>1, <1>2, SumSplit
<1> QED
  BY <1>3, <1>4 DEF f, h, x

\* One millisecond more, the last snapshot being generated at g.
LEMMA OneMore ==
  ASSUME NEW log, LogOK(log), log # <<>>, NEW u \in Nat, log[Len(log)][1] <= u
  PROVE  LET age == u - log[Len(log)][2]
         IN  /\ age \in Nat
             /\ Area2(log, u + 1) = Area2(log, u) + (2 * age + 1)
             /\ OverMs(log, u + 1) = OverMs(log, u) + (IF age >= AoiThreshold THEN 1 ELSE 0)
<1> DEFINE age == u - log[Len(log)][2]
<1>1. /\ Len(log) \in Nat /\ Len(log) > 0
      /\ \A i \in 1 .. Len(log) : log[i][1] \in Nat /\ log[i][2] \in Nat
  BY LogEntries
<1>2. log[1][1] \in Nat /\ log[1][1] <= u
  <2>1. log[1][1] <= log[Len(log)][1]
    BY <1>1 DEF LogOK
  <2> QED
    BY <1>1, <2>1
<1>3. u \in Nat /\ u + 1 \in Nat /\ log[1][1] <= u + 1
  BY <1>2
<1>4. /\ IsFiniteSet(Known(log, u)) /\ Known(log, u + 1) = Known(log, u) \cup {u}
      /\ u \notin Known(log, u)
  BY <1>2, KnownMore
<1>5. age \in Nat /\ Age(log, u) = age
  BY <1>2, AgeRead
<1>6. Area2(log, u + 1) = Area2(log, u) + (2 * age + 1)
  <2>1. Term(log, u) \in [Known(log, u) -> Nat] /\ Term(log, u + 1) \in [Known(log, u + 1) -> Nat]
    BY <1>2, <1>3, TermTypes
  <2>2. /\ \A x \in Known(log, u) : Term(log, u + 1)[x] = Term(log, u)[x]
        /\ Term(log, u + 1)[u] = 2 * age + 1
    BY <1>4, <1>5 DEF Term
  <2>3. SumFunction(Term(log, u + 1)) = SumFunction(Term(log, u)) + Term(log, u + 1)[u]
    BY <1>4, <2>1, <2>2, TermsAdd
  <2> QED
    BY <2>2, <2>3 DEF Area2, Term
<1>7. OverMs(log, u + 1) = OverMs(log, u) + (IF age >= AoiThreshold THEN 1 ELSE 0)
  <2>1. IsFiniteSet(Above(log, u)) /\ OverMs(log, u) = Cardinality(Above(log, u))
          /\ OverMs(log, u + 1) = Cardinality(Above(log, u + 1)) /\ OverMs(log, u) \in Nat
    BY <1>2, TermTypes DEF OverMs, Above
  <2>2. Above(log, u + 1) = Above(log, u) \cup (IF age >= AoiThreshold THEN {u} ELSE {})
    BY <1>4, <1>5 DEF Above
  <2>3. u \notin Above(log, u)
    BY <1>4 DEF Above
  <2> HIDE DEF age
  <2>4. CASE age >= AoiThreshold
    <3>1. Above(log, u + 1) = Above(log, u) \cup {u}
      BY <2>2, <2>4
    <3>2. Cardinality(Above(log, u) \cup {u}) = Cardinality(Above(log, u)) + 1
      BY <2>1, <2>3, FS_AddElement
    <3>3. OverMs(log, u + 1) = OverMs(log, u) + 1
      BY <2>1, <3>1, <3>2
    <3> QED
      BY <2>4, <3>3
  <2>5. CASE ~ (age >= AoiThreshold)
    <3>1. Above(log, u + 1) = Above(log, u)
      BY <2>2, <2>5
    <3>2. OverMs(log, u + 1) = OverMs(log, u) + 0
      BY <2>1, <3>1
    <3> QED
      BY <2>5, <3>2
  <2> QED
    BY <2>4, <2>5
<1> QED
  BY <1>5, <1>6, <1>7

\* A segment of k milliseconds that opens at age a0: its area and its time over the
\* threshold are what the accumulator computes in one piece.
LEMMA SegmentArea ==
  ASSUME NEW log, LogOK(log), log # <<>>, NEW k \in Nat
  PROVE  LET e  == log[Len(log)][1]
             a0 == e - log[Len(log)][2]
         IN  /\ a0 \in Nat
             /\ Area2(log, e + k) = Area2(log, e) + 2 * k * a0 + k * k
             /\ OverMs(log, e + k) = OverMs(log, e) + A!OverMs(k, a0, a0 + k)
<1> DEFINE e  == log[Len(log)][1]
           a0 == e - log[Len(log)][2]
           Good(i) == /\ Area2(log, e + i) = Area2(log, e) + 2 * i * a0 + i * i
                      /\ OverMs(log, e + i) = OverMs(log, e) + A!OverMs(i, a0, a0 + i)
           Bad == {i \in Nat : ~ Good(i)}
<1>1. /\ Len(log) \in Nat /\ Len(log) > 0
      /\ \A i \in 1 .. Len(log) : log[i][1] \in Nat /\ log[i][2] \in Nat
  BY LogEntries
<1>2. e \in Nat /\ a0 \in Nat
  <2>1. log[Len(log)][2] <= log[Len(log)][1]
    BY <1>1 DEF LogOK
  <2> QED
    BY <1>1, <2>1
<1>3. log[1][1] \in Nat /\ log[1][1] <= e
  BY <1>1 DEF LogOK
<1>4. \A i \in Nat : Area2(log, e + i) \in Nat /\ OverMs(log, e + i) \in Nat
  <2> SUFFICES ASSUME NEW i \in Nat PROVE Area2(log, e + i) \in Nat /\ OverMs(log, e + i) \in Nat
    OBVIOUS
  <2>1. e + i \in Nat /\ log[1][1] <= e + i
    BY <1>2, <1>3
  <2> QED
    BY <2>1, TermTypes
<1>5. ASSUME NEW i \in Nat
      PROVE  /\ Area2(log, e + (i + 1)) = Area2(log, e + i) + (2 * (a0 + i) + 1)
             /\ OverMs(log, e + (i + 1)) =
                  OverMs(log, e + i) + (IF a0 + i >= AoiThreshold THEN 1 ELSE 0)
  <2>1. e + i \in Nat /\ e <= e + i
    BY <1>2
  <2>2. (e + i) + 1 = e + (i + 1) /\ (e + i) - log[Len(log)][2] = a0 + i
    <3> DEFINE g == log[Len(log)][2]
    <3>1. g \in Nat /\ a0 = e - g
      BY <1>1
    <3> HIDE DEF e, g, a0
    <3>2. (e + i) + 1 = e + (i + 1) /\ (e + i) - g = a0 + i
      BY <1>2, <3>1
    <3> QED
      BY <3>2 DEF g
  <2>3. LET age == (e + i) - log[Len(log)][2]
        IN  /\ age \in Nat
            /\ Area2(log, (e + i) + 1) = Area2(log, e + i) + (2 * age + 1)
            /\ OverMs(log, (e + i) + 1) = OverMs(log, e + i) + (IF age >= AoiThreshold THEN 1 ELSE 0)
    BY <2>1, OneMore
  <2> QED
    BY <2>2, <2>3
<1>6. Bad = {}
  <2> SUFFICES ASSUME Bad # {} PROVE FALSE
    OBVIOUS
  <2>1. PICK i \in Bad : \A y \in Bad : i <= y
    BY NatMin
  <2>2. i \in Nat /\ ~ Good(i)
    BY <2>1
  <2>3. CASE i = 0
    <3>1. e + 0 = e /\ a0 + 0 = a0
      BY <1>2
    <3>2. A!OverMs(0, a0, a0) = 0
      BY <1>2, ThresholdAssumption DEF A!OverMs
    <3>3. Area2(log, e) \in Nat /\ OverMs(log, e) \in Nat
      BY <1>4, <3>1
    <3>4. Area2(log, e) + 2 * 0 * a0 + 0 * 0 = Area2(log, e)
      BY <1>2, <3>3
    <3> HIDE DEF e, a0
    <3> QED
      BY <2>2, <2>3, <3>1, <3>2, <3>3, <3>4
  <2>4. CASE i # 0
    <3> DEFINE j == i - 1
    <3>1. j \in Nat /\ i = j + 1 /\ j < i
      BY <2>2, <2>4
    <3>2. Good(j)
      <4>1. j \notin Bad
        <5> HIDE DEF Bad, j
        <5> QED
          BY <2>1, <2>2, <3>1
      <4> HIDE DEF j
      <4> QED
        BY <3>1, <4>1
    <3>3. /\ Area2(log, e + (j + 1)) = Area2(log, e + j) + (2 * (a0 + j) + 1)
          /\ OverMs(log, e + (j + 1)) = OverMs(log, e + j) + (IF a0 + j >= AoiThreshold THEN 1 ELSE 0)
      BY <1>5, <3>1
    <3>4. ASSUME NEW p \in Nat, NEW q \in Nat
          PROVE  2 * p * q + p * p + (2 * (q + p) + 1) = 2 * (p + 1) * q + (p + 1) * (p + 1)
      OBVIOUS
    <3>5. A!OverMs(j + 1, a0, a0 + (j + 1)) =
            A!OverMs(j, a0, a0 + j) + (IF a0 + j >= AoiThreshold THEN 1 ELSE 0)
          /\ A!OverMs(j, a0, a0 + j) \in Nat
      <4> HIDE DEF Good, Bad, a0, j
      <4> QED
        BY <1>2, <3>1, ThresholdAssumption DEF A!OverMs
    <3>6. Area2(log, e) \in Nat /\ OverMs(log, e) \in Nat
      <4>1. e + 0 = e
        BY <1>2
      <4> QED
        BY <1>4, <4>1
    <3>7. Area2(log, e + j) = Area2(log, e) + 2 * j * a0 + j * j
          /\ OverMs(log, e + j) = OverMs(log, e) + A!OverMs(j, a0, a0 + j)
      BY <3>2
    <3>8. 2 * j * a0 + j * j + (2 * (a0 + j) + 1) = 2 * (j + 1) * a0 + (j + 1) * (j + 1)
      <4> HIDE DEF Good, Bad, a0, j
      <4> QED
        BY <1>2, <3>1, <3>4
    <3>9. /\ 2 * j * a0 \in Nat /\ j * j \in Nat /\ 2 * (j + 1) * a0 \in Nat
          /\ (j + 1) * (j + 1) \in Nat
      <4>1. ASSUME NEW p \in Nat, NEW q \in Nat PROVE 2 * p * q \in Nat /\ p * p \in Nat
        OBVIOUS
      <4>2. j + 1 \in Nat
        BY <3>1
      <4> HIDE DEF Good, Bad, a0, j
      <4> QED
        BY <1>2, <3>1, <4>1, <4>2
    <3>10. Area2(log, e + i) = Area2(log, e) + 2 * i * a0 + i * i
      <4> DEFINE p == 2 * j * a0
                 q == j * j
                 r == 2 * (j + 1) * a0
                 w == (j + 1) * (j + 1)
                 d == 2 * (a0 + j) + 1
      <4>1. p \in Nat /\ q \in Nat /\ r \in Nat /\ w \in Nat /\ d \in Nat /\ p + q + d = r + w
        <5>1. d \in Nat
          <6> HIDE DEF a0, j
          <6> QED
            BY <1>2, <3>1
        <5> HIDE DEF d
        <5>2. p + q + d = r + w
          BY <3>8 DEF d
        <5> QED
          BY <3>9, <5>1, <5>2
      <4> DEFINE x == Area2(log, e)
                 y == Area2(log, e + i)
      <4>2. x \in Nat /\ y = (x + p + q) + d
        BY <3>1, <3>3, <3>6, <3>7
      <4>3. r = 2 * i * a0 /\ w = i * i
        BY <3>1
      <4>4. y = x + r + w
        <5> HIDE DEF Good, Bad, p, q, r, w, d, x, y, a0, e, j
        <5> QED
          BY <4>1, <4>2
      <4> HIDE DEF r, w, a0, e, j
      <4> QED
        BY <4>3, <4>4
    <3>11. OverMs(log, e + i) = OverMs(log, e) + A!OverMs(i, a0, a0 + i)
      <4> HIDE DEF Good, Bad, a0, e, j
      <4> QED
        BY <3>1, <3>3, <3>5, <3>6, <3>7
    <3> QED
      BY <2>2, <3>10, <3>11
  <2> QED
    BY <2>3, <2>4
<1> QED
  BY <1>2, <1>6

\* The peaks are numbers, and finitely many.
LEMMA PeakTypes ==
  ASSUME NEW log, LogOK(log), log # <<>>, NEW u \in Nat, log[1][1] <= u
  PROVE  Peaks(log, u) \subseteq Nat /\ IsFiniteSet(Peaks(log, u))
<1> DEFINE K == Known(log, u)
           I == 1 .. Len(log) - 1
           P == {Age(log, x) + 1 : x \in K}
           Q == {log[i + 1][1] - log[i][2] : i \in I}
<1>1. /\ Len(log) \in Nat /\ Len(log) > 0
      /\ \A i \in 1 .. Len(log) : log[i][1] \in Nat /\ log[i][2] \in Nat
  BY LogEntries
<1>2. IsFiniteSet(K) /\ \A x \in K : x \in Nat /\ log[1][1] <= x
  BY KnownMore
<1>3. \A x \in K : Age(log, x) + 1 \in Nat
  <2>1. \A x \in K : Age(log, x) \in Nat
    BY <1>2, AgeRead
  <2> HIDE DEF K
  <2> QED
    BY <2>1
<1>4. \A i \in I : log[i + 1][1] - log[i][2] \in Nat
  <2> SUFFICES ASSUME NEW i \in I PROVE log[i + 1][1] - log[i][2] \in Nat
    OBVIOUS
  <2>1. i \in 1 .. Len(log) /\ i + 1 \in 1 .. Len(log) /\ i <= i + 1
    BY <1>1
  <2>2. log[i][2] <= log[i][1] /\ log[i][1] <= log[i + 1][1]
    BY <2>1 DEF LogOK
  <2>3. log[i][1] \in Nat /\ log[i][2] \in Nat /\ log[i + 1][1] \in Nat
    BY <1>1, <2>1
  <2> QED
    BY <2>2, <2>3
<1>5. IsFiniteSet(P)
  <2> DEFINE f == [x \in K |-> Age(log, x) + 1]
  <2>1. DOMAIN f = K /\ f = [x \in K |-> f[x]]
    OBVIOUS
  <2>2. P = {f[x] : x \in K}
    OBVIOUS
  <2> HIDE DEF K, f, P
  <2> QED
    BY <1>2, <2>1, <2>2, ValuesFinite
<1>6. IsFiniteSet(Q)
  <2>1. IsFiniteSet(I)
    BY <1>1, FS_Interval
  <2> DEFINE f == [i \in I |-> log[i + 1][1] - log[i][2]]
  <2>2. DOMAIN f = I /\ f = [i \in I |-> f[i]]
    OBVIOUS
  <2>3. Q = {f[i] : i \in I}
    OBVIOUS
  <2> HIDE DEF I, f, Q
  <2> QED
    BY <2>1, <2>2, <2>3, ValuesFinite
<1>7. P \subseteq Nat /\ Q \subseteq Nat
  <2> HIDE DEF K, I
  <2> QED
    BY <1>3, <1>4
<1>8. Peaks(log, u) = P \cup Q
  BY DEF Peaks
<1> HIDE DEF P, Q
<1>9. IsFiniteSet(P \cup Q)
  BY <1>5, <1>6, FS_Union
<1> QED
  BY <1>7, <1>8, <1>9

\* A segment that lasts until u peaks at its end, which a millisecond of it shows unless
\* it is empty.
LEMMA SegmentPeak ==
  ASSUME NEW log, LogOK(log), log # <<>>, NEW u \in Nat, log[Len(log)][1] <= u
  PROVE  LET e   == log[Len(log)][1]
             top == u - log[Len(log)][2]
             old == Largest(Peaks(log, e))
         IN  /\ top \in Nat
             /\ Largest(Peaks(log, u) \cup {top}) = IF top > old THEN top ELSE old
             /\ u > e => Peaks(log, u) \cup {top} = Peaks(log, u)
<1> DEFINE e   == log[Len(log)][1]
           g   == log[Len(log)][2]
           top == u - g
           P   == Peaks(log, e)
           R   == Peaks(log, u)
           old == Largest(P)
<1>1. /\ Len(log) \in Nat /\ Len(log) > 0
      /\ \A i \in 1 .. Len(log) : log[i][1] \in Nat /\ log[i][2] \in Nat
  BY LogEntries
<1>2. e \in Nat /\ g \in Nat /\ g <= e /\ e <= u /\ top \in Nat
  <2>1. log[Len(log)][2] <= log[Len(log)][1]
    BY <1>1 DEF LogOK
  <2>2. e \in Nat /\ g \in Nat
    BY <1>1
  <2> QED
    BY <2>1, <2>2
<1>3. log[1][1] \in Nat /\ log[1][1] <= e /\ log[1][1] <= u
  <2>1. log[1][1] \in Nat /\ log[1][1] <= e
    BY <1>1 DEF LogOK
  <2> HIDE DEF e
  <2> QED
    BY <1>2, <2>1
<1>4. P \subseteq Nat /\ IsFiniteSet(P) /\ R \subseteq Nat /\ IsFiniteSet(R)
  BY <1>2, <1>3, PeakTypes
<1>5. \A x \in e .. u - 1 : Age(log, x) + 1 = x - g + 1
  <2> SUFFICES ASSUME NEW x \in e .. u - 1 PROVE Age(log, x) + 1 = x - g + 1
    OBVIOUS
  <2>1. x \in Nat /\ e <= x
    BY <1>2
  <2>2. log[1][1] <= x
    <3> HIDE DEF e
    <3> QED
      BY <1>2, <1>3, <2>1
  <2>3. Age(log, x) = x - g
    BY <2>1, <2>2, AgeRead
  <2> QED
    BY <2>3
<1>6. Known(log, u) = Known(log, e) \cup (e .. u - 1)
  <2>1. Known(log, u) = log[1][1] .. u - 1 /\ Known(log, e) = log[1][1] .. e - 1
    BY DEF Known
  <2> HIDE DEF e
  <2> QED
    BY <1>2, <1>3, <2>1
<1>7. R = P \cup {x - g + 1 : x \in e .. u - 1}
  <2> HIDE DEF e, g
  <2> QED
    BY <1>5, <1>6 DEF Peaks
<1>8. \A n \in R : n \in P \/ n <= top
  <2> SUFFICES ASSUME NEW n \in R, n \notin P PROVE n <= top
    OBVIOUS
  <2>1. PICK x \in e .. u - 1 : n = x - g + 1
    <3> HIDE DEF P, R, e, g
    <3> QED
      BY <1>7
  <2> HIDE DEF e, g
  <2> QED
    BY <1>2, <2>1
<1>9. ASSUME u > e PROVE top \in R
  <2>1. u - 1 \in e .. u - 1 /\ (u - 1) - g + 1 = top
    <3> HIDE DEF e, g
    <3> QED
      BY <1>2, <1>9
  <2> HIDE DEF e, g, P, R, top
  <2> QED
    BY <1>7, <2>1
<1>10. old \in Nat /\ old \in P \cup {0} /\ \A n \in P : n <= old
  <2> HIDE DEF P
  <2> QED
    BY <1>4, LargestOf
<1>11. Largest(R \cup {top}) = IF top > old THEN top ELSE old
  <2> DEFINE S == R \cup {top}
             m == IF top > old THEN top ELSE old
  <2>1. S \subseteq Nat /\ IsFiniteSet(S)
    <3> HIDE DEF R, top
    <3> QED
      BY <1>2, <1>4, FS_AddElement
  <2>2. m \in S \cup {0}
    <3>1. P \subseteq R
      <4> HIDE DEF P, R
      <4> QED
        BY <1>7
    <3> HIDE DEF P, R, top, old
    <3> QED
      BY <1>10, <3>1
  <2>3. \A n \in S : n <= m
    <3> SUFFICES ASSUME NEW n \in S PROVE n <= m
      OBVIOUS
    <3>1. n \in Nat
      BY <2>1
    <3>2. n <= old \/ n <= top
      <4> HIDE DEF P, R, top, old
      <4>1. n \in R \/ n = top
        OBVIOUS
      <4>2. CASE n \in R
        BY <1>8, <1>10, <4>2
      <4>3. CASE n = top
        BY <1>2, <4>3
      <4> QED
        BY <4>1, <4>2, <4>3
    <3> HIDE DEF top, old, S
    <3> QED
      BY <1>2, <1>10, <3>1, <3>2
  <2> HIDE DEF S, m
  <2>4. Largest(S) = m
    BY <2>1, <2>2, <2>3, LargestIs
  <2> QED
    BY <2>4 DEF S, m
<1> HIDE DEF top, old, R, P
<1> QED
  BY <1>2, <1>9, <1>11 DEF top, old, R, P

\* What the log gives after a snapshot generated at g is applied at u: what it gave up to
\* then, and one more peak.
LEMMA LogExtended ==
  ASSUME NEW log, LogOK(log), log # <<>>, NEW u \in Nat, log[Len(log)][1] <= u,
         NEW g \in Nat, g <= u
  PROVE  LET n == Append(log, <<u, g>>)
         IN  /\ LogOK(n) /\ n # <<>> /\ n[1] = log[1]
             /\ Len(n) = Len(log) + 1 /\ n[Len(n)] = <<u, g>>
             /\ Area2(n, u) = Area2(log, u) /\ OverMs(n, u) = OverMs(log, u)
             /\ Peaks(n, u) = Peaks(log, u) \cup {u - log[Len(log)][2]}
<1> DEFINE n == Append(log, <<u, g>>)
<1>1. /\ Len(log) \in Nat /\ Len(log) > 0 /\ log \in Seq(Nat \X Nat)
      /\ \A i \in 1 .. Len(log) : log[i][1] \in Nat /\ log[i][2] \in Nat
  BY LogEntries DEF LogOK
<1>2. /\ n \in Seq(Nat \X Nat) /\ Len(n) = Len(log) + 1
      /\ \A i \in 1 .. Len(log) : n[i] = log[i]
      /\ n[Len(log) + 1] = <<u, g>> /\ n # <<>>
  <2>1. <<u, g>> \in Nat \X Nat
    OBVIOUS
  <2>2. /\ n \in Seq(Nat \X Nat) /\ Len(n) = Len(log) + 1
        /\ \A i \in 1 .. Len(log) : n[i] = log[i]
        /\ n[Len(log) + 1] = <<u, g>>
    BY <1>1, <2>1
  <2>3. n # <<>>
    <3>1. Len(n) # 0
      BY <1>1, <2>2
    <3> HIDE DEF n
    <3> QED
      BY <3>1
  <2> QED
    BY <2>2, <2>3
<1>3. /\ 1 \in 1 .. Len(log) /\ Len(log) \in 1 .. Len(log)
      /\ \A i \in 1 .. Len(log) + 1 : i \in 1 .. Len(log) \/ i = Len(log) + 1
  BY <1>1
<1>4. \A i \in 1 .. Len(log) : log[i][1] <= u
  <2> SUFFICES ASSUME NEW i \in 1 .. Len(log) PROVE log[i][1] <= u
    OBVIOUS
  <2>1. log[i][1] <= log[Len(log)][1]
    BY <1>1, <1>3 DEF LogOK
  <2>2. log[i][1] \in Nat /\ log[Len(log)][1] \in Nat
    BY <1>1, <1>3
  <2> QED
    BY <2>1, <2>2
<1>5. LogOK(n)
  <2>1. \A i \in 1 .. Len(n) : n[i][2] <= n[i][1]
    <3> SUFFICES ASSUME NEW i \in 1 .. Len(n) PROVE n[i][2] <= n[i][1]
      OBVIOUS
    <3>1. CASE i \in 1 .. Len(log)
      BY <1>2, <3>1 DEF LogOK
    <3>2. CASE i = Len(log) + 1
      BY <1>2, <3>2
    <3> QED
      BY <1>2, <1>3, <3>1, <3>2
  <2>2. \A i, j \in 1 .. Len(n) : i <= j => n[i][1] <= n[j][1]
    <3> SUFFICES ASSUME NEW i \in 1 .. Len(n), NEW j \in 1 .. Len(n), i <= j
                 PROVE  n[i][1] <= n[j][1]
      OBVIOUS
    <3>1. CASE i \in 1 .. Len(log) /\ j \in 1 .. Len(log)
      BY <1>2, <3>1 DEF LogOK
    <3>2. CASE i \in 1 .. Len(log) /\ j = Len(log) + 1
      BY <1>2, <1>4, <3>2
    <3>3. CASE i = Len(log) + 1
      <4>1. j = Len(log) + 1
        BY <1>1, <1>2, <3>3
      <4> QED
        BY <1>2, <3>3, <4>1
    <3> QED
      BY <1>2, <1>3, <3>1, <3>2, <3>3
  <2> HIDE DEF n
  <2> QED
    BY <1>2, <2>1, <2>2 DEF LogOK
<1>6. n[1] = log[1] /\ n[Len(n)] = <<u, g>>
  BY <1>2, <1>3
<1>7. Known(n, u) = Known(log, u)
  BY <1>2, <1>6 DEF Known
<1>8. \A x \in Known(log, u) : Age(n, x) = Age(log, x)
  <2>1. log[1][1] <= u
    BY <1>3, <1>4
  <2>2. \A x \in Known(log, u) : x \in Nat /\ log[1][1] <= x /\ x < u
    BY <2>1, KnownMore
  <2> QED
    BY <2>2, AgeKept
<1> HIDE DEF n
<1>9. Area2(n, u) = Area2(log, u) /\ OverMs(n, u) = OverMs(log, u)
  <2>1. [x \in Known(n, u) |-> 2 * Age(n, x) + 1] = [x \in Known(log, u) |-> 2 * Age(log, x) + 1]
    BY <1>7, <1>8
  <2>2. {x \in Known(n, u) : Age(n, x) >= AoiThreshold}
          = {x \in Known(log, u) : Age(log, x) >= AoiThreshold}
    BY <1>7, <1>8
  <2> QED
    BY <2>1, <2>2 DEF Area2, OverMs
<1>10. Peaks(n, u) = Peaks(log, u) \cup {u - log[Len(log)][2]}
  <2>1. {Age(n, x) + 1 : x \in Known(n, u)} = {Age(log, x) + 1 : x \in Known(log, u)}
    BY <1>7, <1>8
  <2> DEFINE D(i) == log[i + 1][1] - log[i][2]
             Q == {D(i) : i \in 1 .. Len(log) - 1}
             R == {n[i + 1][1] - n[i][2] : i \in 1 .. Len(n) - 1}
  <2>2. Len(n) - 1 = Len(log)
    BY <1>1, <1>2
  <2>3. \A i \in 1 .. Len(log) - 1 : n[i + 1] = log[i + 1] /\ n[i] = log[i]
    <3>1. \A i \in 1 .. Len(log) - 1 : i \in 1 .. Len(log) /\ i + 1 \in 1 .. Len(log)
      BY <1>1
    <3> QED
      BY <1>2, <3>1
  <2>4. n[Len(log) + 1][1] - n[Len(log)][2] = u - log[Len(log)][2]
    BY <1>2, <1>3
  <2>5. 1 .. Len(log) = (1 .. Len(log) - 1) \cup {Len(log)}
    BY <1>1
  <2>6. R = Q \cup {u - log[Len(log)][2]}
    <3> DEFINE m == Len(log)
               C == m - 1
               E(i) == n[i + 1][1] - n[i][2]
               w == u - log[Len(log)][2]
    <3>1. R = {E(i) : i \in 1 .. m} /\ 1 .. m = (1 .. C) \cup {m} /\ E(m) = w
      BY <2>2, <2>4, <2>5
    <3>2. \A i \in 1 .. C : E(i) = D(i)
      BY <2>3
    <3>3. Q = {D(i) : i \in 1 .. C}
      OBVIOUS
    <3> HIDE DEF m, C, E, D, w, Q, R
    <3>4. R = Q \cup {w}
      BY <3>1, <3>2, <3>3
    <3> QED
      BY <3>4 DEF w
  <2> QED
    BY <2>1, <2>6 DEF Peaks
<1> QED
  BY <1>2, <1>5, <1>6, <1>9, <1>10 DEF n

-----------------------------------------------------------------------------
(* The accumulators. *)

\* Of an empty log there is nothing to tell.
LEMMA NothingRead ==
  ASSUME NEW u
  PROVE  /\ Known(<<>>, u) = {} /\ Area2(<<>>, u) = 0 /\ OverMs(<<>>, u) = 0
         /\ Peaks(<<>>, u) = {} /\ Largest({}) = 0
<1>1. Known(<<>>, u) = {}
  BY DEF Known
<1>2. Area2(<<>>, u) = 0
  BY <1>1, SumOfNone DEF Area2
<1>3. OverMs(<<>>, u) = 0
  BY <1>1, FS_EmptySet DEF OverMs
<1>4. Peaks(<<>>, u) = {}
  BY <1>1 DEF Peaks
<1>5. Largest({}) = 0
  BY FS_EmptySet, LargestIs
<1> QED
  BY <1>1, <1>2, <1>3, <1>4, <1>5

\* Nor is there of a log at the time of its only entry.
LEMMA FirstRead ==
  ASSUME NEW u \in Nat, NEW g \in Nat, g <= u
  PROVE  LET n == <<<<u, g>>>>
         IN  /\ LogOK(n) /\ Len(n) = 1 /\ n[1] = <<u, g>>
             /\ Area2(n, u) = 0 /\ OverMs(n, u) = 0 /\ Largest(Peaks(n, u)) = 0
<1> DEFINE n == <<<<u, g>>>>
<1>1. n \in Seq(Nat \X Nat) /\ Len(n) = 1 /\ n[1] = <<u, g>> /\ n # <<>>
  OBVIOUS
<1>2. LogOK(n)
  BY <1>1 DEF LogOK
<1> HIDE DEF n
<1>3. Known(n, u) = {}
  <2>1. Known(n, u) = u .. u - 1
    BY <1>1 DEF Known
  <2> QED
    BY <2>1
<1>4. Area2(n, u) = 0
  BY <1>3, SumOfNone DEF Area2
<1>5. OverMs(n, u) = 0
  BY <1>3, FS_EmptySet DEF OverMs
<1>6. Peaks(n, u) = {}
  <2>1. 1 .. Len(n) - 1 = {}
    BY <1>1
  <2> QED
    BY <1>3, <2>1 DEF Peaks
<1> QED
  BY <1>1, <1>2, <1>4, <1>5, <1>6, NothingRead DEF n

\* The time a segment is over the threshold is a number.
LEMMA OverTypes ==
  ASSUME NEW n \in Nat, NEW a0 \in Nat
  PROVE  A!OverMs(n, a0, a0 + n) \in Nat
  BY ThresholdAssumption DEF A!OverMs

\* Closing the segment at u makes the accumulator exact up to u, its peak taking in the
\* age it closes at.
LEMMA Closed ==
  ASSUME NEW a, NEW log, Running(a, log), log # <<>>, NEW u \in Nat, a.seg_start <= u
  PROVE  LET c   == A!CloseSegment(a, u)
             top == u - log[Len(log)][2]
         IN  /\ c \in Accumulator /\ top \in Nat
             /\ c.area2 = Area2(log, u) /\ c.over_ms = OverMs(log, u)
             /\ c.peak = Largest(Peaks(log, u) \cup {top})
             /\ \A x \in {"defined", "first_apply", "seg_start", "cur_gen", "unknown_ms",
                          "final_age", "finished"} : c[x] = a[x]
<1> DEFINE e  == log[Len(log)][1]
           g  == log[Len(log)][2]
           a0 == e - g
           n  == u - e
           c  == A!CloseSegment(a, u)
           area == a.area2 + 2 * n * a0 + n * n
           top  == a0 + n
           peak == IF top > a.peak THEN top ELSE a.peak
           over == a.over_ms + A!OverMs(n, a0, a0 + n)
<1>1. /\ a \in Accumulator /\ LogOK(log) /\ a.seg_start = e /\ a.cur_gen = g
      /\ a.area2 = Area2(log, e) /\ a.over_ms = OverMs(log, e) /\ a.peak = Largest(Peaks(log, e))
  BY DEF Running, ExactTo
<1>2. /\ Len(log) \in Nat /\ Len(log) > 0
      /\ \A i \in 1 .. Len(log) : log[i][1] \in Nat /\ log[i][2] \in Nat
  BY <1>1, LogEntries
<1>3. e \in Nat /\ g \in Nat /\ g <= e
  BY <1>1, <1>2 DEF LogOK
<1>4. e <= u
  BY <1>1
<1>5. n \in Nat /\ a0 \in Nat /\ e + n = u /\ a0 + n = u - g /\ top \in Nat
  <2> HIDE DEF e, g
  <2> QED
    BY <1>3, <1>4
<1>6. /\ Area2(log, u) = area /\ OverMs(log, u) = over
  <2>1. LET f == log[Len(log)][1]
            b == f - log[Len(log)][2]
        IN  /\ b \in Nat
            /\ Area2(log, f + n) = Area2(log, f) + 2 * n * b + n * n
            /\ OverMs(log, f + n) = OverMs(log, f) + A!OverMs(n, b, b + n)
    <3> HIDE DEF n
    <3> QED
      BY <1>1, <1>5, SegmentArea
  <2>2. /\ Area2(log, e + n) = Area2(log, e) + 2 * n * a0 + n * n
        /\ OverMs(log, e + n) = OverMs(log, e) + A!OverMs(n, a0, a0 + n)
    <3> HIDE DEF n
    <3> QED
      BY <2>1
  <2> QED
    BY <1>1, <1>5, <2>2
<1>7. Largest(Peaks(log, u) \cup {u - g}) = IF u - g > a.peak THEN u - g ELSE a.peak
  BY <1>1, <1>4, SegmentPeak
<1>8. c = [a EXCEPT !.area2 = area, !.peak = peak, !.over_ms = over]
  BY <1>1 DEF A!CloseSegment
<1>9. area \in Nat /\ over \in Nat /\ peak \in Nat
  <2>1. a.area2 \in Nat /\ a.over_ms \in Nat /\ a.peak \in Nat
    BY <1>1 DEF Accumulator
  <2>2. ASSUME NEW p \in Nat, NEW q \in Nat PROVE 2 * p * q \in Nat /\ p * p \in Nat
    OBVIOUS
  <2>3. A!OverMs(n, a0, a0 + n) \in Nat
    <3> HIDE DEF n, a0
    <3> QED
      BY <1>5, OverTypes
  <2>4. 2 * n * a0 \in Nat /\ n * n \in Nat
    <3> HIDE DEF n, a0
    <3> QED
      BY <1>5, <2>2
  <2>5. area \in Nat
    <3> DEFINE p == 2 * n * a0
               q == n * n
    <3>1. p \in Nat /\ q \in Nat /\ area = a.area2 + p + q
      BY <2>4
    <3> HIDE DEF p, q, area
    <3> QED
      BY <2>1, <3>1
  <2>6. over \in Nat
    <3> HIDE DEF n, a0
    <3> QED
      BY <2>1, <2>3
  <2> HIDE DEF top
  <2> QED
    BY <1>5, <2>1, <2>5, <2>6
<1> HIDE DEF area, over, top, peak, c
<1>10. /\ c \in Accumulator /\ c.area2 = area /\ c.peak = peak /\ c.over_ms = over
       /\ \A x \in {"defined", "first_apply", "seg_start", "cur_gen", "unknown_ms",
                    "final_age", "finished"} : c[x] = a[x]
  BY <1>1, <1>8, <1>9 DEF Accumulator
<1>11. peak = Largest(Peaks(log, u) \cup {u - g})
  BY <1>5, <1>7 DEF peak, top
<1> QED
  BY <1>5, <1>6, <1>10, <1>11 DEF c

\* Before a snapshot is applied nothing is accumulated.
LEMMA StartRunning == Running(A!AoiInit, <<>>)
<1> DEFINE a == A!AoiInit
<1>1. /\ a \in Accumulator /\ a.defined = FALSE /\ a.finished = FALSE
      /\ a.area2 = 0 /\ a.over_ms = 0 /\ a.peak = 0
  BY SystemAssumption DEF Accumulator, A!AoiInit
<1>2. LogOK(<<>>)
  BY DEF LogOK
<1> HIDE DEF a
<1>3. ExactTo(a, <<>>, a.seg_start)
  BY <1>1, NothingRead DEF ExactTo
<1>4. Running(a, <<>>)
  BY <1>1, <1>2, <1>3 DEF Running
<1> QED
  BY <1>4 DEF a

\* A snapshot from the past applied now leaves the accumulator exact up to now.
LEMMA ApplyRunning ==
  ASSUME NEW a, NEW log, Running(a, log), t \in Nat, NEW g \in Nat, g <= t
  PROVE  Running(A!AoiApply(a, t, g), Append(log, <<t, g>>))
<1> DEFINE b == A!AoiApply(a, t, g)
           n == Append(log, <<t, g>>)
<1>0. /\ a \in Accumulator /\ LogOK(log) /\ ~ a.finished
      /\ a.defined \in BOOLEAN /\ a.defined <=> log # <<>>
      /\ a.seg_start \in Nat
  BY DEF Running, Accumulator
<1>1. A!Clamped(g, t) = g
  BY DEF A!Clamped
<1>2. CASE log = <<>>
  <2>1. n = <<<<t, g>>>>
    BY <1>2
  <2>2. ~ a.defined
    BY <1>0, <1>2
  <2>3. b = [a EXCEPT !.defined = TRUE, !.first_apply = t, !.unknown_ms = t,
                      !.seg_start = t, !.cur_gen = g]
    BY <1>1, <2>2 DEF A!AoiApply
  <2>4. a.area2 = 0 /\ a.over_ms = 0 /\ a.peak = 0
    BY <1>2, NothingRead DEF Running, ExactTo
  <2> HIDE DEF b
  <2>5. /\ b \in Accumulator /\ b.defined = TRUE /\ b.finished = a.finished
        /\ b.seg_start = t /\ b.cur_gen = g /\ b.unknown_ms = t
        /\ b.area2 = a.area2 /\ b.over_ms = a.over_ms /\ b.peak = a.peak
    BY <1>0, <2>3 DEF Accumulator
  <2>6. /\ LogOK(n) /\ Len(n) = 1 /\ n[1] = <<t, g>>
        /\ Area2(n, t) = 0 /\ OverMs(n, t) = 0 /\ Largest(Peaks(n, t)) = 0
    BY <2>1, FirstRead
  <2>7. n # <<>> /\ n[1][1] = t /\ n[1][2] = g
    BY <2>1, <2>6
  <2> HIDE DEF n
  <2>8. ExactTo(b, n, b.seg_start)
    BY <2>4, <2>5, <2>6 DEF ExactTo
  <2>9. b.seg_start <= t
    BY <2>5
  <2> QED
    BY <1>0, <2>5, <2>6, <2>7, <2>8, <2>9 DEF Running, b, n
<1>3. CASE log # <<>>
  <2> DEFINE c == A!CloseSegment(a, t)
  <2>1. a.defined /\ a.seg_start <= t /\ a.seg_start = log[Len(log)][1] /\ a.unknown_ms = log[1][1]
    BY <1>0, <1>3 DEF Running
  <2>2. ~ (t < a.seg_start)
    BY <1>0, <2>1
  <2>3. b = [c EXCEPT !.seg_start = t, !.cur_gen = g]
    BY <1>1, <2>1, <2>2 DEF A!AoiApply
  <2>4. LET top == t - log[Len(log)][2]
        IN  /\ c \in Accumulator /\ top \in Nat
            /\ c.area2 = Area2(log, t) /\ c.over_ms = OverMs(log, t)
            /\ c.peak = Largest(Peaks(log, t) \cup {top})
            /\ \A x \in {"defined", "first_apply", "seg_start", "cur_gen", "unknown_ms",
                         "final_age", "finished"} : c[x] = a[x]
    BY <1>3, <2>1, Closed
  <2> HIDE DEF c, b
  <2>5. c.defined = a.defined /\ c.finished = a.finished /\ c.unknown_ms = a.unknown_ms
    BY <2>4
  <2>6. /\ b \in Accumulator /\ b.defined = c.defined /\ b.finished = c.finished
        /\ b.seg_start = t /\ b.cur_gen = g /\ b.unknown_ms = c.unknown_ms
        /\ b.area2 = c.area2 /\ b.over_ms = c.over_ms /\ b.peak = c.peak
    BY <2>3, <2>4 DEF Accumulator
  <2>7. /\ LogOK(n) /\ n # <<>> /\ n[1] = log[1]
        /\ Len(n) = Len(log) + 1 /\ n[Len(n)] = <<t, g>>
        /\ Area2(n, t) = Area2(log, t) /\ OverMs(n, t) = OverMs(log, t)
        /\ Peaks(n, t) = Peaks(log, t) \cup {t - log[Len(log)][2]}
    BY <1>0, <1>3, <2>1, LogExtended
  <2> HIDE DEF n
  <2>8. ExactTo(b, n, b.seg_start)
    BY <2>4, <2>6, <2>7 DEF ExactTo
  <2>9. n[Len(n)][1] = t /\ n[Len(n)][2] = g /\ n[1][1] = log[1][1] /\ b.seg_start <= t
    BY <2>6, <2>7
  <2> QED
    BY <1>0, <2>1, <2>5, <2>6, <2>7, <2>8, <2>9 DEF Running, b, n
<1> QED
  BY <1>2, <1>3

\* At the end of the run the last segment is closed, and the accumulator is exact.
LEMMA FinishEnded ==
  ASSUME NEW a, NEW log, Running(a, log), t = RUN_MS
  PROVE  Ended(A!AoiFinish(a, RUN_MS), log)
<1> DEFINE b == A!AoiFinish(a, RUN_MS)
<1>0. /\ a \in Accumulator /\ LogOK(log) /\ ~ a.finished
      /\ a.defined \in BOOLEAN /\ a.defined <=> log # <<>>
      /\ a.seg_start \in Nat /\ RUN_MS \in Nat
  BY SystemAssumption DEF Running, Accumulator
<1>1. CASE log = <<>>
  <2>1. b = [a EXCEPT !.finished = TRUE, !.unknown_ms = RUN_MS]
    BY <1>0, <1>1 DEF A!AoiFinish
  <2> HIDE DEF b
  <2>2. /\ b.area2 = a.area2 /\ b.over_ms = a.over_ms /\ b.peak = a.peak
        /\ b.unknown_ms = RUN_MS
    BY <1>0, <2>1 DEF Accumulator
  <2>3. ExactTo(a, <<>>, a.seg_start)
    BY <1>1 DEF Running
  <2>4. ExactTo(b, <<>>, RUN_MS)
    BY <2>2, <2>3, NothingRead DEF ExactTo
  <2>5. Cardinality(Known(<<>>, RUN_MS)) = 0
    BY NothingRead, FS_EmptySet
  <2>6. b.unknown_ms = RUN_MS - Cardinality(Known(<<>>, RUN_MS))
    BY <1>0, <2>2, <2>5
  <2> QED
    BY <1>1, <2>4, <2>6 DEF Ended, b
<1>2. CASE log # <<>>
  <2> DEFINE c == A!CloseSegment(a, RUN_MS)
             d == IF RUN_MS > a.seg_start THEN [c EXCEPT !.seg_start = RUN_MS] ELSE a
             top == RUN_MS - log[Len(log)][2]
  <2>1. /\ a.defined /\ a.seg_start <= RUN_MS /\ a.seg_start = log[Len(log)][1]
        /\ a.cur_gen = log[Len(log)][2] /\ a.unknown_ms = log[1][1]
        /\ ExactTo(a, log, a.seg_start)
    BY <1>0, <1>2 DEF Running
  <2>2. b = [d EXCEPT !.finished = TRUE, !.final_age = RUN_MS - a.cur_gen]
    BY <1>0, <2>1 DEF A!AoiFinish
  <2>3. /\ c \in Accumulator
        /\ c.area2 = Area2(log, RUN_MS) /\ c.over_ms = OverMs(log, RUN_MS)
        /\ c.peak = Largest(Peaks(log, RUN_MS) \cup {top})
        /\ c.unknown_ms = a.unknown_ms
    <3>1. \A x \in {"defined", "first_apply", "seg_start", "cur_gen", "unknown_ms",
                    "final_age", "finished"} : c[x] = a[x]
      BY <1>0, <1>2, <2>1, Closed
    <3>2. /\ c \in Accumulator
          /\ c.area2 = Area2(log, RUN_MS) /\ c.over_ms = OverMs(log, RUN_MS)
          /\ c.peak = Largest(Peaks(log, RUN_MS) \cup {top})
      BY <1>0, <1>2, <2>1, Closed
    <3> HIDE DEF c
    <3> QED
      BY <3>1, <3>2
  <2>4. RUN_MS > a.seg_start => Peaks(log, RUN_MS) \cup {top} = Peaks(log, RUN_MS)
    BY <1>0, <1>2, <2>1, SegmentPeak
  <2> HIDE DEF c, top
  <2>5. /\ d \in Accumulator /\ ExactTo(d, log, RUN_MS) /\ d.unknown_ms = log[1][1]
    <3>1. CASE RUN_MS > a.seg_start
      <4>1. d = [c EXCEPT !.seg_start = RUN_MS]
        BY <3>1
      <4> HIDE DEF d
      <4>2. /\ d \in Accumulator /\ d.area2 = c.area2 /\ d.over_ms = c.over_ms
            /\ d.peak = c.peak /\ d.unknown_ms = c.unknown_ms
        BY <1>0, <2>3, <4>1 DEF Accumulator
      <4> QED
        BY <2>1, <2>3, <2>4, <3>1, <4>2 DEF ExactTo
    <3>2. CASE ~ (RUN_MS > a.seg_start)
      <4>1. a.seg_start = RUN_MS /\ d = a
        BY <1>0, <2>1, <3>2
      <4> HIDE DEF d
      <4> QED
        BY <1>0, <2>1, <4>1
    <3> QED
      BY <3>1, <3>2
  <2> HIDE DEF b, d
  <2>6. /\ b.area2 = d.area2 /\ b.over_ms = d.over_ms /\ b.peak = d.peak
        /\ b.unknown_ms = d.unknown_ms /\ b.final_age = RUN_MS - a.cur_gen
    BY <2>2, <2>5 DEF Accumulator
  <2>7. ExactTo(b, log, RUN_MS)
    BY <2>5, <2>6 DEF ExactTo
  <2>8. log[1][1] \in Nat /\ log[1][1] <= RUN_MS
    <3>1. /\ Len(log) \in Nat /\ Len(log) > 0
          /\ \A i \in 1 .. Len(log) : log[i][1] \in Nat /\ log[i][2] \in Nat
      BY <1>0, <1>2, LogEntries
    <3>2. log[1][1] <= log[Len(log)][1]
      BY <1>0, <3>1 DEF LogOK
    <3>3. log[1][1] \in Nat /\ log[Len(log)][1] \in Nat
      BY <3>1
    <3> QED
      BY <1>0, <2>1, <3>2, <3>3
  <2>9. Cardinality(Known(log, RUN_MS)) = RUN_MS - log[1][1]
    <3> DEFINE x == log[1][1]
    <3>1. Known(log, RUN_MS) = x .. RUN_MS - 1
      BY <1>2 DEF Known
    <3> HIDE DEF x
    <3>2. x \in Int /\ RUN_MS - 1 \in Int /\ x \in Nat /\ x <= RUN_MS
      BY <1>0, <2>8 DEF x
    <3>3. Cardinality(x .. RUN_MS - 1) = IF x > RUN_MS - 1 THEN 0 ELSE RUN_MS - 1 - x + 1
      BY <3>2, FS_Interval
    <3>4. Cardinality(x .. RUN_MS - 1) = RUN_MS - x
      BY <1>0, <3>2, <3>3
    <3> QED
      BY <3>1, <3>4 DEF x
  <2>10. b.unknown_ms = RUN_MS - Cardinality(Known(log, RUN_MS))
    BY <1>0, <2>5, <2>6, <2>8, <2>9
  <2>11. b.final_age = Age(log, RUN_MS)
    <3>1. Age(log, RUN_MS) = RUN_MS - log[Len(log)][2]
      BY <1>0, <1>2, <2>1, <2>8, AgeRead
    <3> QED
      BY <2>1, <2>6, <3>1
  <2> QED
    BY <2>7, <2>10, <2>11 DEF Ended, b
<1> QED
  BY <1>1, <1>2

-----------------------------------------------------------------------------
(* The steps the metrics watch. *)

\* A call of the sender takes the time it is made at.
LEMMA CallTime ==
  ASSUME Next
  PROVE  snd_now' = t \/ UNCHANGED sndVars
<1>1. CASE WorkloadRow
  <2>1. PICK row \in StateRows \cup EventRows : TakeRow(row)
    BY <1>1 DEF WorkloadRow
  <2>2. \/ \E s \in Snd!Stream : Snd!Publish(t, s)
        \/ \E life \in Lifetimes : Snd!Post(t, life)
    BY <2>1 DEF TakeRow, StateRows, EventRows
  <2> QED
    BY <2>2 DEF Snd!Publish, Snd!PublishState, Snd!PublishExhausted, Snd!Post,
                Snd!PostAdmitted, Snd!PostRejected, Snd!PostExhausted, Snd!TimeOk
<1>2. CASE AckArrival
  <2>1. PICK m \in NextDue(ack_link) : Snd!IngestAck(t, m.frame)
    BY <1>2 DEF AckArrival
  <2> QED
    BY <2>1 DEF Snd!IngestAck, Snd!AckRefused, Snd!AckStateImpossible, Snd!AckStateAccepted,
                Snd!AckEventImpossible, Snd!AckEventUnmatched, Snd!AckEventAccepted, Snd!TimeOk
<1>3. CASE Forward
  BY <1>3 DEF Forward, ForwardOn, Snd!TimeOk
<1>4. CASE WorkloadDone \/ DataArrival \/ DataDone \/ AckDone \/ Reverse \/ EndOfMs
  BY <1>4 DEF WorkloadDone, DataArrival, DataDone, AckDone, Reverse, ReverseOn, EndOfMs
<1> QED
  BY <1>1, <1>2, <1>3, <1>4 DEF Next

\* Time stands still but at the end of a millisecond, and no step follows the end.
LEMMA ClockMoves ==
  ASSUME Cores, Clocked, Next
  PROVE  /\ phase # "end" /\ t < RUN_MS /\ t' \in Nat
         /\ t' = t \/ (t' = t + 1 /\ EndOfMs)
         /\ Clocked'
<1>0. RUN_MS \in Nat /\ TIME_NONE \in Nat /\ t \in Nat /\ snd_now \in Nat
  BY SystemAssumption, CoreAssumptions, Snd!SafeFacts DEF Cores
<1>1. t' = t \/ (t' = t + 1 /\ EndOfMs)
  BY DEF Next, WorkloadRow, TakeRow, WorkloadDone, DataArrival, DataDone, AckArrival, AckDone,
         Forward, ForwardOn, Reverse, ReverseOn, EndOfMs
<1>2. phase # "end"
  BY DEF Next, WorkloadRow, TakeRow, WorkloadDone, DataArrival, DataDone, AckArrival, AckDone,
         Forward, ForwardOn, Reverse, ReverseOn, EndOfMs
<1>3. \/ phase' \in {"workload", "data", "ack", "forward", "reverse", "check"} /\ t' = t
      \/ t' = t + 1 /\ phase' = IF t' = RUN_MS THEN "end" ELSE "workload"
  <2>1. WorkloadRow \/ DataArrival \/ AckArrival =>
          phase \in {"workload", "data", "ack"} /\ phase' = phase
    BY DEF WorkloadRow, TakeRow, DataArrival, AckArrival, Clocked
  <2> QED
    BY <2>1 DEF Next, WorkloadRow, TakeRow, WorkloadDone, DataArrival, DataDone, AckArrival,
                AckDone, Forward, ForwardOn, Reverse, ReverseOn, EndOfMs
<1>4. t < RUN_MS
  BY <1>2 DEF Clocked
<1>5. t' \in Nat /\ t <= t'
  BY <1>0, <1>1
<1>6. snd_now' = TIME_NONE \/ snd_now' <= t'
  <2>1. snd_now' = t \/ snd_now' = snd_now
    BY CallTime DEF sndVars
  <2>2. CASE snd_now' = t
    BY <1>5, <2>2
  <2>3. CASE snd_now' = snd_now
    BY <1>0, <1>5, <2>3 DEF Clocked
  <2> QED
    BY <2>1, <2>2, <2>3
<1>7. Clocked'
  BY <1>0, <1>3, <1>4, <1>6 DEF Clocked
<1> QED
  BY <1>1, <1>2, <1>4, <1>5, <1>7

\* A data frame that arrives is a snapshot newer than what the receiver holds, which it
\* then holds, or changes no stream.
LEMMA ArrivalFacts ==
  ASSUME Truthful, Clocked, DataArrival
  PROVE  \E m \in data_link :
           /\ data_link' = data_link \ {m} /\ Rcv!Ingest(t, m.frame)
           /\ ledger' = LedgerWith(m.frame) /\ DataFrameOK(m.frame)
           /\ \A s \in Snd!Stream :
                \/ ~ Applied(s)
                \/ /\ Applied(s) /\ Snapshot(m, s)
                   /\ m.frame.seq \in Nat /\ Held(s) < m.frame.seq /\ Held(s)' = m.frame.seq
                   /\ rcv_streams'[s].gen \in Nat /\ rcv_streams'[s].gen <= t
<1>0. Cores /\ Honest /\ SnapshotsOK /\ Rcv!Sound /\ t \in Nat
  BY DEF Truthful, Cores
<1>1. PICK m \in data_link : /\ Rcv!Ingest(t, m.frame) /\ data_link' = data_link \ {m}
                             /\ ledger' = LedgerWith(m.frame)
  BY DEF DataArrival, NextDue
<1> DEFINE f == m.frame
<1>2. DataFrameOK(f) /\ f \in AnyFrame
  <2>1. DataFrameOK(f)
    BY <1>0 DEF Honest
  <2> QED
    BY <2>1 DEF DataFrameOK, AnyFrame
<1>3. \A s \in Rcv!Stream :
        \/ rcv_streams'[s] = rcv_streams[s]
        \/ /\ f.type = "STATE" /\ f.stream = s
           /\ ~ rcv_streams[s].valid \/ f.seq > rcv_streams[s].seq
           /\ rcv_streams'[s].valid /\ rcv_streams'[s].seq = f.seq /\ rcv_streams'[s].gen = f.gen
  BY <1>0, <1>1, <1>2, CoreAssumptions, SameFrames, Rcv!IngestChanges
<1>4. Snd!Accepts(t)
  <2>1. RUN_MS \in Nat /\ HORIZON \in Nat /\ RUN_MS <= HORIZON /\ t <= RUN_MS
    BY <1>0, SystemAssumption DEF Clocked
  <2>2. t <= HORIZON
    BY <1>0, <2>1
  <2>3. snd_now \in Nat
    BY <1>0, CoreAssumptions, Snd!SafeFacts DEF Cores
  <2> QED
    BY <1>0, <2>2, <2>3 DEF Clocked, Snd!Accepts
<1>5. ASSUME NEW s \in Snd!Stream, Applied(s)
      PROVE  /\ Snapshot(m, s)
             /\ m.frame.seq \in Nat /\ Held(s) < m.frame.seq /\ Held(s)' = m.frame.seq
             /\ rcv_streams'[s].gen \in Nat /\ rcv_streams'[s].gen <= t
  <2>1. /\ f.type = "STATE" /\ f.stream = s
        /\ ~ rcv_streams[s].valid \/ f.seq > rcv_streams[s].seq
        /\ rcv_streams'[s].valid /\ rcv_streams'[s].seq = f.seq /\ rcv_streams'[s].gen = f.gen
    BY <1>3, <1>5, SameFrames DEF Applied
  <2>2. f \in StateFrame
    BY <1>2, <2>1 DEF DataFrameOK, EventFrame
  <2>3. <<f.seq, f.gen>> \in Pairs(s)
    <3>1. m \in {d \in data_link : Snapshot(d, s)}
      BY <2>1 DEF Snapshot
    <3> QED
      BY <3>1 DEF Pairs, OnLink
  <2> DEFINE p == <<f.seq, f.gen>>
  <2>4. p[1] \in Nat /\ p[1] >= 1 /\ p[2] \in Nat /\ p[2] <= t
    <3>1. PairsOK(s)
      BY <1>0 DEF SnapshotsOK
    <3> HIDE DEF p
    <3>2. p \in Pairs(s)
      BY <2>3 DEF p
    <3>3. p[2] <= t /\ p[1] \in Nat /\ p[2] \in Nat
      BY <1>0, <1>4, <3>1, <3>2, PairsPast
    <3> QED
      BY <3>1, <3>2, <3>3 DEF PairsOK
  <2>5. f.seq \in Nat /\ f.seq >= 1 /\ f.gen \in Nat /\ f.gen <= t
    BY <2>4
  <2>6. rcv_streams[s].valid \in BOOLEAN /\ rcv_streams[s].seq \in Nat
    BY <1>0, Numbers DEF Numeric
  <2> HIDE DEF f
  <2>7. Held(s) < f.seq /\ Held(s)' = f.seq
    BY <2>1, <2>5, <2>6 DEF Held
  <2> QED
    BY <2>1, <2>5, <2>7 DEF f, Snapshot
<1>6. \A s \in Snd!Stream :
        \/ ~ Applied(s)
        \/ /\ Applied(s) /\ Snapshot(m, s)
           /\ m.frame.seq \in Nat /\ Held(s) < m.frame.seq /\ Held(s)' = m.frame.seq
           /\ rcv_streams'[s].gen \in Nat /\ rcv_streams'[s].gen <= t
  BY <1>5
<1> QED
  BY <1>1, <1>2, <1>6

\* No other step applies a snapshot.
LEMMA NothingApplied ==
  ASSUME Truthful, Next, ~ DataArrival
  PROVE  rcv_streams' = rcv_streams
<1>0. Rcv!Sound /\ t \in Nat
  BY DEF Truthful, Cores
<1>1. CASE Reverse
  <2>1. Rcv!Step(t)
    BY <1>1 DEF Reverse, ReverseOn
  <2> QED
    BY <1>0, <2>1, CoreAssumptions, Rcv!StepChanges
<1>2. CASE UNCHANGED rcvVars
  BY <1>2 DEF rcvVars
<1> QED
  BY <1>1, <1>2 DEF Next, WorkloadRow, TakeRow, WorkloadDone, DataDone, AckArrival, AckDone,
                    Forward, ForwardOn, EndOfMs

\* A snapshot that is applied was generated in the past.
LEMMA AppliedPast ==
  ASSUME Truthful, Clocked, Next, NEW s \in Snd!Stream, Applied(s)
  PROVE  rcv_streams'[s].gen \in Nat /\ rcv_streams'[s].gen <= t
<1>1. DataArrival
  BY NothingApplied DEF Applied
<1> QED
  BY <1>1, ArrivalFacts

\* An accumulator that is not touched is as exact later.
LEMMA RunningLater ==
  ASSUME NEW a, NEW log, Running(a, log), t \in Nat, t' \in Nat, t <= t'
  PROVE  Running(a, log)'
<1>1. a.seg_start \in Nat
  BY DEF Running, Accumulator
<1> QED
  BY <1>1 DEF Running

\* Every step keeps the accumulators exact, and the report is made once.
LEMMA ReportedKept ==
  ASSUME Truthful, Clocked, Reported, [MetricsNext]_allVars
  PROVE  Reported'
<1>0. Cores /\ t \in Nat
  BY DEF Truthful, Cores
<1>1. CASE Observed
  <2>1. /\ Next /\ summary' = summary
        /\ \A s \in Snd!Stream :
             /\ aoi'[s] = IF Applied(s) THEN A!AoiApply(aoi[s], t, rcv_streams'[s].gen) ELSE aoi[s]
             /\ rxlog'[s] = IF Applied(s) THEN Append(rxlog[s], <<t, rcv_streams'[s].gen>>)
                                          ELSE rxlog[s]
    BY <1>1 DEF Observed
  <2>2. phase # "end" /\ t' \in Nat /\ t <= t'
    BY <1>0, <2>1, ClockMoves
  <2>3. summary = NoSummary /\ \A s \in Snd!Stream : Running(aoi[s], rxlog[s])
    BY <2>2 DEF Reported
  <2>4. ASSUME NEW s \in Snd!Stream PROVE Running(aoi[s], rxlog[s])'
    <3>1. \E a, log : a = aoi'[s] /\ log = rxlog'[s] /\ Running(a, log)
      <4>1. CASE Applied(s)
        <5>1. rcv_streams'[s].gen \in Nat /\ rcv_streams'[s].gen <= t
          BY <2>1, <4>1, AppliedPast
        <5>2. Running(A!AoiApply(aoi[s], t, rcv_streams'[s].gen),
                      Append(rxlog[s], <<t, rcv_streams'[s].gen>>))
          BY <1>0, <2>3, <5>1, ApplyRunning
        <5> QED
          BY <2>1, <4>1, <5>2
      <4>2. CASE ~ Applied(s)
        BY <2>1, <2>3, <4>2
      <4> QED
        BY <4>1, <4>2
    <3>2. PICK a, log : a = aoi'[s] /\ log = rxlog'[s] /\ Running(a, log)
      BY <3>1
    <3>3. Running(a, log)'
      BY <1>0, <2>2, <3>2, RunningLater
    <3> QED
      BY <3>2, <3>3
  <2> QED
    BY <2>1, <2>3, <2>4 DEF Reported
<1>2. CASE CloseMetrics
  <2>1. /\ phase = "end" /\ ~ summary.reported /\ summary' = Totals
        /\ \A s \in Snd!Stream : aoi'[s] = A!AoiFinish(aoi[s], RUN_MS)
        /\ UNCHANGED <<vars, sc, times, rxlog>>
    BY <1>2 DEF CloseMetrics
  <2>2. summary # Totals
    <3>1. Totals.reported = TRUE
      BY DEF Totals
    <3> QED
      BY <2>1, <3>1
  <2>3. \A s \in Snd!Stream : Running(aoi[s], rxlog[s])
    BY <2>2 DEF Reported
  <2>4. t = RUN_MS
    BY <2>1 DEF Clocked
  <2>5. \A s \in Snd!Stream : Ended(aoi'[s], rxlog'[s])
    BY <2>1, <2>3, <2>4, FinishEnded
  <2>6. UNCHANGED <<phase, outcome, ledger, times>>
    BY <2>1 DEF vars, hostVars, sndVars
  <2>7. Totals' = Totals
    BY <2>6 DEF Totals, Received, Acked, Unacked, Latency, Confirmation
  <2> QED
    BY <2>1, <2>5, <2>6, <2>7 DEF Reported
<1>3. CASE UNCHANGED allVars
  <2>1. UNCHANGED <<phase, outcome, ledger, times, t, aoi, rxlog, summary>>
    BY <1>3 DEF allVars, metricVars, vars, hostVars, sndVars
  <2>2. Totals' = Totals
    BY <2>1 DEF Totals, Received, Acked, Unacked, Latency, Confirmation
  <2>3. \A s \in Snd!Stream : Running(aoi[s], rxlog[s]) => Running(aoi[s], rxlog[s])'
    BY <2>1 DEF Running
  <2> QED
    BY <2>1, <2>2, <2>3 DEF Reported
<1> QED
  BY <1>1, <1>2, <1>3 DEF MetricsNext

-----------------------------------------------------------------------------
(* The counts of the streams. *)

\* A part of a finite set is no larger.
LEMMA Fewer ==
  ASSUME NEW T, IsFiniteSet(T), NEW S, S \subseteq T
  PROVE  /\ IsFiniteSet(S) /\ Cardinality(S) \in Nat /\ Cardinality(T) \in Nat
         /\ Cardinality(S) <= Cardinality(T)
  BY FS_Subset, FS_CardinalityType

\* The streams are finitely many.
LEMMA StreamsFinite == IsFiniteSet(Snd!Stream)
<1>1. Snd!Stream = 0 .. N_STREAMS - 1 /\ 0 \in Int /\ N_STREAMS - 1 \in Int
  BY SystemAssumption DEF Snd!Stream
<1> QED
  BY <1>1, FS_Interval

\* How the counts of a step add up.
LEMMA CountsMove ==
  ASSUME sc \in [Snd!Stream -> StreamCounts], Observed
  PROVE  /\ sc' \in [Snd!Stream -> StreamCounts]
         /\ \A s \in Snd!Stream :
              /\ sc[s].published \in Nat /\ sc[s].sent \in Nat
              /\ sc[s].applied \in Nat /\ sc[s].stale_dropped \in Nat
              /\ sc'[s].published = sc[s].published + One(Published(s))
              /\ sc'[s].sent = sc[s].sent + One(Sent(s))
              /\ sc'[s].applied = sc[s].applied + One(Applied(s))
              /\ sc'[s].stale_dropped = sc[s].stale_dropped + One(Stale(s))
<1>1. sc' = [s \in Snd!Stream |->
               [published     |-> sc[s].published     + One(Published(s)),
                sent          |-> sc[s].sent          + One(Sent(s)),
                applied       |-> sc[s].applied       + One(Applied(s)),
                stale_dropped |-> sc[s].stale_dropped + One(Stale(s))]]
  BY DEF Observed
<1>2. ASSUME NEW b PROVE One(b) \in Nat
  BY DEF One
<1>3. ASSUME NEW s \in Snd!Stream
      PROVE  /\ sc'[s] \in StreamCounts
             /\ sc[s].published \in Nat /\ sc[s].sent \in Nat
             /\ sc[s].applied \in Nat /\ sc[s].stale_dropped \in Nat
             /\ sc'[s].published = sc[s].published + One(Published(s))
             /\ sc'[s].sent = sc[s].sent + One(Sent(s))
             /\ sc'[s].applied = sc[s].applied + One(Applied(s))
             /\ sc'[s].stale_dropped = sc[s].stale_dropped + One(Stale(s))
  <2> DEFINE p == sc[s].published + One(Published(s))
             n == sc[s].sent + One(Sent(s))
             a == sc[s].applied + One(Applied(s))
             d == sc[s].stale_dropped + One(Stale(s))
  <2>1. /\ sc[s].published \in Nat /\ sc[s].sent \in Nat
        /\ sc[s].applied \in Nat /\ sc[s].stale_dropped \in Nat
    BY DEF StreamCounts
  <2>2. One(Published(s)) \in Nat /\ One(Sent(s)) \in Nat /\ One(Applied(s)) \in Nat
          /\ One(Stale(s)) \in Nat
    BY <1>2
  <2>3. p \in Nat /\ n \in Nat /\ a \in Nat /\ d \in Nat
    BY <2>1, <2>2
  <2>4. sc'[s] = [published |-> p, sent |-> n, applied |-> a, stale_dropped |-> d]
    BY <1>1
  <2> HIDE DEF p, n, a, d
  <2>5. /\ sc'[s] \in StreamCounts
        /\ sc'[s].published = p /\ sc'[s].sent = n /\ sc'[s].applied = a
        /\ sc'[s].stale_dropped = d
    BY <2>3, <2>4 DEF StreamCounts
  <2> QED
    BY <2>1, <2>5 DEF p, n, a, d
<1>4. sc' = [s \in Snd!Stream |-> sc'[s]]
  BY <1>1
<1> QED
  BY <1>3, <1>4

\* A step that publishes at most, and neither sends nor receives a snapshot.
LEMMA QuietCounted ==
  ASSUME Cores, Cores', Clocked, Clocked', Counted, Observed,
         data_link' = data_link, sent' = sent, rcv_streams' = rcv_streams,
         snd_stats'["state_tx"] = snd_stats["state_tx"],
         \A s \in Snd!Stream :
           /\ Snd!TxKept(s)
           /\ \/ snd_streams'[s].latest_seq = snd_streams[s].latest_seq
              \/ snd_streams'[s].latest_seq = snd_streams[s].latest_seq + 1,
         \/ t' = t /\ (phase \in {"reverse", "check"} => phase' \in {"reverse", "check"})
         \/ t' = t + 1
  PROVE  Counted'
<1>1. /\ sc \in [Snd!Stream -> StreamCounts]
      /\ \A s \in Snd!Stream : CountedStream(s) /\ DatedStream(s)
      /\ \A m \in data_link : m.frame.type = "STATE" => <<m.frame.stream, m.frame.seq>> \in sent
      /\ SumFunction([s \in Snd!Stream |-> sc[s].sent]) = snd_stats["state_tx"]
      /\ t \in Nat
  BY DEF Counted, Cores
<1>2. /\ sc' \in [Snd!Stream -> StreamCounts]
      /\ \A s \in Snd!Stream :
           /\ sc[s].published \in Nat /\ sc[s].sent \in Nat
           /\ sc[s].applied \in Nat /\ sc[s].stale_dropped \in Nat
           /\ sc'[s].published = sc[s].published + One(Published(s))
           /\ sc'[s].sent = sc[s].sent + One(Sent(s))
           /\ sc'[s].applied = sc[s].applied + One(Applied(s))
           /\ sc'[s].stale_dropped = sc[s].stale_dropped + One(Stale(s))
  BY <1>1, CountsMove
<1>3. ASSUME NEW s \in Snd!Stream
      PROVE  /\ One(Sent(s)) = 0 /\ One(Applied(s)) = 0 /\ One(Stale(s)) = 0
             /\ snd_streams'[s].latest_seq = snd_streams[s].latest_seq + One(Published(s))
  <2>1. snd_streams[s].latest_seq \in Nat
    BY Numbers DEF Numeric
  <2>2. ~ Sent(s) /\ ~ Applied(s) /\ ~ Stale(s)
    BY DEF Sent, Snd!TxKept, Applied, Stale
  <2> QED
    BY <2>1, <2>2 DEF One, Published
<1>4. ASSUME NEW s \in Snd!Stream PROVE CountedStream(s)'
  <2>1. UnderWay(s)' = UnderWay(s)
    BY DEF UnderWay
  <2>2. Held(s)' = Held(s)
    BY DEF Held
  <2>3. SentUpTo(s, Held(s))' = SentUpTo(s, Held(s))
    BY <2>2 DEF SentUpTo
  <2>4. /\ sc'[s].sent = sc[s].sent /\ sc'[s].applied = sc[s].applied
        /\ sc'[s].stale_dropped = sc[s].stale_dropped
    BY <1>2, <1>3
  <2>5. sc'[s].published = snd_streams'[s].latest_seq
    BY <1>1, <1>2, <1>3 DEF CountedStream
  <2> QED
    BY <1>1, <2>1, <2>2, <2>3, <2>4, <2>5 DEF CountedStream
<1>5. ASSUME NEW s \in Snd!Stream PROVE DatedStream(s)'
  <2>1. snd_streams'[s].last_tx = snd_streams[s].last_tx
    BY DEF Snd!TxKept
  <2>2. snd_streams[s].last_tx = TIME_NONE \/ snd_streams[s].last_tx < t
          \/ (snd_streams[s].last_tx = t /\ phase \in {"reverse", "check"})
    BY <1>1 DEF DatedStream
  <2>3. snd_streams[s].last_tx \in Nat
    BY CoreAssumptions, Snd!DateTypes DEF Cores
  <2> QED
    BY <1>1, <2>1, <2>2, <2>3 DEF DatedStream
<1>6. [s \in Snd!Stream |-> sc'[s].sent] = [s \in Snd!Stream |-> sc[s].sent]
  BY <1>2, <1>3
<1> QED
  BY <1>1, <1>2, <1>4, <1>5, <1>6 DEF Counted

\* A data frame that arrives is applied or stale, and under way no more.
LEMMA DataArrivalCounted ==
  ASSUME Truthful, Conserved, Clocked, Counted, Observed, DataArrival
  PROVE  Counted'
<1>0. /\ Cores /\ t \in Nat /\ IsFiniteSet(data_link)
  BY DEF Truthful, Cores, Conserved, DataBooked
<1>1. /\ sc \in [Snd!Stream -> StreamCounts]
      /\ \A s \in Snd!Stream : CountedStream(s) /\ DatedStream(s)
      /\ \A m \in data_link : m.frame.type = "STATE" => <<m.frame.stream, m.frame.seq>> \in sent
      /\ SumFunction([s \in Snd!Stream |-> sc[s].sent]) = snd_stats["state_tx"]
  BY DEF Counted
<1>2. PICK m \in data_link :
        /\ data_link' = data_link \ {m}
        /\ \A s \in Snd!Stream :
             \/ ~ Applied(s)
             \/ /\ Applied(s) /\ Snapshot(m, s)
                /\ m.frame.seq \in Nat /\ Held(s) < m.frame.seq /\ Held(s)' = m.frame.seq
  BY ArrivalFacts
<1>3. UNCHANGED <<t, phase, snd_streams, snd_stats, sent>>
  BY DEF DataArrival, sndVars
<1>4. /\ sc' \in [Snd!Stream -> StreamCounts]
      /\ \A s \in Snd!Stream :
           /\ sc[s].published \in Nat /\ sc[s].sent \in Nat
           /\ sc[s].applied \in Nat /\ sc[s].stale_dropped \in Nat
           /\ sc'[s].published = sc[s].published + One(Published(s))
           /\ sc'[s].sent = sc[s].sent + One(Sent(s))
           /\ sc'[s].applied = sc[s].applied + One(Applied(s))
           /\ sc'[s].stale_dropped = sc[s].stale_dropped + One(Stale(s))
  BY <1>1, CountsMove
<1>5. \A s \in Snd!Stream : One(Published(s)) = 0 /\ One(Sent(s)) = 0
  BY <1>3 DEF Published, Sent, One
<1>6. \A s \in Snd!Stream : sc'[s].published = sc[s].published /\ sc'[s].sent = sc[s].sent
  BY <1>4, <1>5
<1>7. ASSUME NEW s \in Snd!Stream
      PROVE  sc'[s].applied + sc'[s].stale_dropped + Cardinality(UnderWay(s)') <= sc'[s].sent
  <2>1. sc[s].applied + sc[s].stale_dropped + Cardinality(UnderWay(s)) <= sc[s].sent
    BY <1>1 DEF CountedStream
  <2>2. IsFiniteSet(UnderWay(s)) /\ Cardinality(UnderWay(s)) \in Nat
    BY <1>0, Fewer DEF UnderWay
  <2>3. CASE Snapshot(m, s)
    <3>1. UnderWay(s)' = UnderWay(s) \ {m} /\ m \in UnderWay(s)
      BY <1>2, <2>3 DEF UnderWay
    <3>2. Cardinality(UnderWay(s)') + 1 = Cardinality(UnderWay(s)) /\ Cardinality(UnderWay(s)') \in Nat
      BY <2>2, <3>1, TakenCount
    <3>3. Stale(s) <=> ~ Applied(s)
      BY <1>2, <2>3 DEF Stale, Snapshot
    <3>4. One(Applied(s)) + One(Stale(s)) = 1 /\ One(Applied(s)) \in Nat /\ One(Stale(s)) \in Nat
      BY <3>3 DEF One
    <3> QED
      BY <1>4, <1>6, <2>1, <2>2, <3>2, <3>4
  <2>4. CASE ~ Snapshot(m, s)
    <3>1. UnderWay(s)' = UnderWay(s)
      BY <1>2, <2>4 DEF UnderWay
    <3>2. ~ Stale(s) /\ ~ Applied(s)
      BY <1>2, <2>4 DEF Stale, Snapshot
    <3>3. One(Applied(s)) = 0 /\ One(Stale(s)) = 0
      BY <3>2 DEF One
    <3> QED
      BY <1>4, <1>6, <2>1, <2>2, <3>1, <3>3
  <2> QED
    BY <2>3, <2>4
<1>8. ASSUME NEW s \in Snd!Stream
      PROVE  /\ sc'[s].applied <= Cardinality(SentUpTo(s, Held(s))')
             /\ sc'[s].applied > 0 <=> Held(s)' > 0
  <2>1. /\ sc[s].applied <= Cardinality(SentUpTo(s, Held(s)))
        /\ sc[s].applied > 0 <=> Held(s) > 0
    BY <1>1 DEF CountedStream
  <2>2. Held(s) \in Nat
    BY <1>0, Numbers DEF Numeric
  <2>3. CASE Applied(s)
    <3> DEFINE q == m.frame.seq
               L == SentUpTo(s, Held(s))
               H == SentUpTo(s, q)
    <3>1. Snapshot(m, s) /\ q \in Nat /\ Held(s) < q /\ Held(s)' = q
      BY <1>2, <2>3
    <3>2. <<s, q>> \in sent
      BY <1>1, <3>1 DEF Snapshot
    <3>3. L \subseteq H /\ q \in H /\ q \notin L
      <4> HIDE DEF q
      <4> QED
        BY <2>2, <3>1, <3>2 DEF SentUpTo
    <3>4. IsFiniteSet(H)
      <4>1. H \subseteq 1 .. q /\ IsFiniteSet(1 .. q)
        BY <3>1, FS_Interval DEF SentUpTo
      <4> HIDE DEF H, q
      <4> QED
        BY <4>1, FS_Subset
    <3>5. SentUpTo(s, Held(s))' = H
      BY <1>3, <3>1 DEF SentUpTo
    <3> HIDE DEF L, H
    <3>6. Cardinality(L) + 1 <= Cardinality(H) /\ Cardinality(L) \in Nat /\ Cardinality(H) \in Nat
      <4>1. IsFiniteSet(L) /\ L \cup {q} \subseteq H
        BY <3>3, <3>4, FS_Subset
      <4>2. Cardinality(L \cup {q}) = Cardinality(L) + 1
        BY <3>3, <4>1, FS_AddElement
      <4>3. Cardinality(L \cup {q}) <= Cardinality(H) /\ Cardinality(H) \in Nat
        BY <3>4, <4>1, Fewer
      <4> QED
        BY <4>1, <4>2, <4>3, FS_CardinalityType
    <3>7. sc'[s].applied = sc[s].applied + 1
      BY <1>4, <2>3 DEF One
    <3>8. sc[s].applied <= Cardinality(L)
      BY <2>1 DEF L
    <3> HIDE DEF q
    <3> QED
      BY <1>4, <2>2, <3>1, <3>5, <3>6, <3>7, <3>8
  <2>4. CASE ~ Applied(s)
    <3>1. Held(s)' = Held(s)
      BY <2>4 DEF Applied, Held
    <3>2. SentUpTo(s, Held(s))' = SentUpTo(s, Held(s))
      BY <1>3, <3>1 DEF SentUpTo
    <3>3. One(Applied(s)) = 0
      BY <2>4 DEF One
    <3>4. sc'[s].applied = sc[s].applied
      BY <1>4, <3>3
    <3> QED
      BY <2>1, <3>1, <3>2, <3>4
  <2> QED
    BY <2>3, <2>4
<1>9. \A s \in Snd!Stream : CountedStream(s)'
  BY <1>1, <1>3, <1>6, <1>7, <1>8 DEF CountedStream
<1>10. \A s \in Snd!Stream : DatedStream(s)'
  BY <1>1, <1>3 DEF DatedStream
<1>11. [s \in Snd!Stream |-> sc'[s].sent] = [s \in Snd!Stream |-> sc[s].sent]
  BY <1>6
<1>12. \A d \in data_link' : d.frame.type = "STATE" => <<d.frame.stream, d.frame.seq>> \in sent'
  BY <1>1, <1>2, <1>3
<1> QED
  BY <1>1, <1>3, <1>4, <1>9, <1>10, <1>11, <1>12 DEF Counted

\* A transmission is seen by its date and counted, and its frame is under way or lost.
LEMMA ForwardCounted ==
  ASSUME Truthful, Conserved, Clocked, Counted, Snd!SentOK, Observed,
         NEW e \in Entries, ForwardOn(e)
  PROVE  Counted'
<1>0. /\ Cores /\ Snd!Safe /\ t \in Nat /\ IsFiniteSet(data_link)
  BY DEF Truthful, Cores, Conserved, DataBooked
<1>1. /\ sc \in [Snd!Stream -> StreamCounts]
      /\ \A s \in Snd!Stream : CountedStream(s) /\ DatedStream(s)
      /\ \A m \in data_link : m.frame.type = "STATE" => <<m.frame.stream, m.frame.seq>> \in sent
      /\ SumFunction([s \in Snd!Stream |-> sc[s].sent]) = snd_stats["state_tx"]
  BY DEF Counted
<1>2. PICK c \in Snd!Choices(t) :
        /\ Snd!TimeOk(t) /\ Snd!StepWith(t, c)
        /\ \/ data_link' = data_link
           \/ \E f \in Snd!FramesSent(t, c) : data_link' = Carried(data_link, f, e)
  BY DEF ForwardOn
<1>3. phase = "forward" /\ phase' = "reverse" /\ t' = t /\ rcv_streams' = rcv_streams
  BY DEF ForwardOn, rcvVars
<1> DEFINE chosen(s) == c.kind = "STATE" /\ c.stream = s
<1>4. /\ c.kind = "STATE" =>
           /\ c.stream \in Snd!Stream /\ snd_streams'[c.stream].last_tx = t
           /\ sent' = sent \cup {<<c.stream, snd_streams[c.stream].latest_seq>>}
           /\ snd_stats'["state_tx"] = snd_stats["state_tx"] + 1
      /\ c.kind # "STATE" => sent' = sent /\ snd_stats'["state_tx"] = snd_stats["state_tx"]
      /\ \A s \in Snd!Stream : ~ chosen(s) => snd_streams'[s].last_tx = snd_streams[s].last_tx
  BY <1>0, <1>2, CoreAssumptions, Snd!StepDates DEF Snd!TxKept
<1>5. \A s \in Snd!Stream : snd_streams'[s].latest_seq = snd_streams[s].latest_seq
  BY <1>0, <1>2, CoreAssumptions, Snd!StepChanges DEF Snd!KeptLatest
<1>6. \E r : /\ data_link' = data_link \/ data_link' = data_link \cup {r}
             /\ r.frame.type = "STATE" =>
                  /\ chosen(r.frame.stream)
                  /\ r.frame.seq = snd_streams[r.frame.stream].latest_seq
  <2>1. CASE data_link' = data_link
    <3>1. data_link' = data_link /\ [frame |-> [type |-> "BAD"]].frame.type # "STATE"
      BY <2>1
    <3> QED
      BY <3>1
  <2>2. ASSUME NEW f \in Snd!FramesSent(t, c), data_link' = Carried(data_link, f, e)
        PROVE  \E r : /\ data_link' = data_link \/ data_link' = data_link \cup {r}
                      /\ r.frame.type = "STATE" =>
                           /\ chosen(r.frame.stream)
                           /\ r.frame.seq = snd_streams[r.frame.stream].latest_seq
    <3> DEFINE r == [sent |-> t, arrival |-> t + e, frame |-> f]
    <3>1. data_link' = data_link \/ data_link' = data_link \cup {r}
      BY <2>2 DEF Carried
    <3>2. r.frame = f
      OBVIOUS
    <3>3. f.type = "STATE" => chosen(f.stream) /\ f.seq = snd_streams[f.stream].latest_seq
      <4>1. ASSUME f.type = "STATE"
            PROVE  c.kind = "STATE" /\ f.stream = c.stream /\ f.seq = snd_streams[c.stream].latest_seq
        <5>1. Snd!StepWith(t, c)
          BY <1>2
        <5> QED
          BY <4>1, <5>1, CoreAssumptions, Snd!FrameOfChoice
      <4> QED
        BY <4>1
    <3> HIDE DEF r
    <3> QED
      BY <3>1, <3>2, <3>3
  <2> QED
    BY <1>2, <2>1, <2>2
<1>7. PICK r : /\ data_link' = data_link \/ data_link' = data_link \cup {r}
               /\ r.frame.type = "STATE" =>
                    /\ chosen(r.frame.stream)
                    /\ r.frame.seq = snd_streams[r.frame.stream].latest_seq
  BY <1>6
<1>8. /\ sc' \in [Snd!Stream -> StreamCounts]
      /\ \A s \in Snd!Stream :
           /\ sc[s].published \in Nat /\ sc[s].sent \in Nat
           /\ sc[s].applied \in Nat /\ sc[s].stale_dropped \in Nat
           /\ sc'[s].published = sc[s].published + One(Published(s))
           /\ sc'[s].sent = sc[s].sent + One(Sent(s))
           /\ sc'[s].applied = sc[s].applied + One(Applied(s))
           /\ sc'[s].stale_dropped = sc[s].stale_dropped + One(Stale(s))
  BY <1>1, CountsMove
<1>9. ASSUME NEW s \in Snd!Stream
      PROVE  /\ Published(s) = FALSE /\ Applied(s) = FALSE /\ Stale(s) = FALSE
             /\ Sent(s) <=> chosen(s)
  <2>1. ~ Published(s) /\ ~ Applied(s) /\ ~ Stale(s)
    BY <1>3, <1>5, <1>7 DEF Published, Applied, Stale
  <2>2. ~ chosen(s) => ~ Sent(s)
    BY <1>4 DEF Sent
  <2>3. chosen(s) => Sent(s)
    <3>1. snd_streams[s].last_tx # t
      <4>1. snd_streams[s].last_tx = TIME_NONE \/ snd_streams[s].last_tx < t
        BY <1>1, <1>3 DEF DatedStream
      <4>2. snd_streams[s].last_tx \in Nat
        BY <1>0, CoreAssumptions, Snd!DateTypes
      <4>3. t < TIME_NONE
        <5>1. RUN_MS \in Nat /\ RUN_MS <= HORIZON /\ HORIZON \in Nat /\ MAX_REL \in Nat
                /\ TIME_NONE \in Nat /\ TIME_NONE > HORIZON + MAX_REL /\ t < RUN_MS
          BY <1>3, SystemAssumption DEF Clocked
        <5> QED
          BY <1>0, <5>1
      <4> QED
        BY <1>0, <4>1, <4>2, <4>3
    <3> QED
      BY <1>4, <3>1 DEF Sent
  <2> QED
    BY <2>1, <2>2, <2>3
<1>10. \A s \in Snd!Stream :
         /\ sc'[s].published = sc[s].published /\ sc'[s].applied = sc[s].applied
         /\ sc'[s].stale_dropped = sc[s].stale_dropped
         /\ sc'[s].sent = sc[s].sent + (IF chosen(s) THEN 1 ELSE 0)
  <2> HIDE DEF chosen
  <2>1. \A s \in Snd!Stream : /\ One(Published(s)) = 0 /\ One(Applied(s)) = 0 /\ One(Stale(s)) = 0
                              /\ One(Sent(s)) = IF chosen(s) THEN 1 ELSE 0
    BY <1>9 DEF One
  <2> QED
    BY <1>8, <2>1
<1> HIDE DEF chosen
<1>11. ASSUME NEW s \in Snd!Stream
       PROVE  sc'[s].applied + sc'[s].stale_dropped + Cardinality(UnderWay(s)') <= sc'[s].sent
  <2>1. /\ sc[s].applied + sc[s].stale_dropped + Cardinality(UnderWay(s)) <= sc[s].sent
    BY <1>1 DEF CountedStream
  <2>2. IsFiniteSet(UnderWay(s)) /\ Cardinality(UnderWay(s)) \in Nat
    BY <1>0, Fewer DEF UnderWay
  <2>3. CASE chosen(s)
    <3>1. UnderWay(s)' \subseteq UnderWay(s) \cup {r}
      BY <1>7 DEF UnderWay
    <3>2. /\ IsFiniteSet(UnderWay(s) \cup {r})
          /\ Cardinality(UnderWay(s) \cup {r}) <= Cardinality(UnderWay(s)) + 1
      BY <2>2, FS_AddElement
    <3>3. Cardinality(UnderWay(s)') \in Nat
            /\ Cardinality(UnderWay(s)') <= Cardinality(UnderWay(s) \cup {r})
            /\ Cardinality(UnderWay(s) \cup {r}) \in Nat
      BY <3>1, <3>2, Fewer
    <3> QED
      BY <1>8, <1>10, <2>1, <2>2, <2>3, <3>2, <3>3
  <2>4. CASE ~ chosen(s)
    <3>1. ~ Snapshot(r, s)
      BY <1>7, <2>4 DEF Snapshot
    <3>2. UnderWay(s)' = UnderWay(s)
      BY <1>7, <3>1 DEF UnderWay
    <3> QED
      BY <1>8, <1>10, <2>1, <2>2, <2>4, <3>2
  <2> QED
    BY <2>3, <2>4
<1>12. sent \subseteq sent'
  BY <1>4
<1>13. ASSUME NEW s \in Snd!Stream
       PROVE  /\ Held(s)' = Held(s)
              /\ sc[s].applied <= Cardinality(SentUpTo(s, Held(s))')
  <2>1. Held(s)' = Held(s) /\ Held(s) \in Nat
    BY <1>0, <1>3, Numbers DEF Held, Numeric
  <2>2. SentUpTo(s, Held(s)) \subseteq SentUpTo(s, Held(s))'
    BY <1>12, <2>1 DEF SentUpTo
  <2>3. IsFiniteSet(SentUpTo(s, Held(s))')
    <3>1. SentUpTo(s, Held(s))' \subseteq 1 .. Held(s) /\ IsFiniteSet(1 .. Held(s))
      BY <2>1, FS_Interval DEF SentUpTo
    <3> QED
      BY <3>1, Fewer
  <2>4. /\ Cardinality(SentUpTo(s, Held(s))) <= Cardinality(SentUpTo(s, Held(s))')
        /\ Cardinality(SentUpTo(s, Held(s))) \in Nat /\ Cardinality(SentUpTo(s, Held(s))') \in Nat
    BY <2>2, <2>3, Fewer
  <2>5. sc[s].applied <= Cardinality(SentUpTo(s, Held(s)))
    BY <1>1 DEF CountedStream
  <2> QED
    BY <1>8, <2>1, <2>4, <2>5
<1>14. \A s \in Snd!Stream : CountedStream(s)'
  BY <1>1, <1>5, <1>10, <1>11, <1>13 DEF CountedStream
<1>15. \A s \in Snd!Stream : DatedStream(s)'
  BY <1>1, <1>3, <1>4 DEF DatedStream, chosen
<1>16. \A m \in data_link' : m.frame.type = "STATE" => <<m.frame.stream, m.frame.seq>> \in sent'
  <2>1. r.frame.type = "STATE" => <<r.frame.stream, r.frame.seq>> \in sent'
    BY <1>4, <1>7 DEF chosen
  <2> QED
    BY <1>1, <1>7, <1>12, <2>1
<1>17. SumFunction([s \in Snd!Stream |-> sc'[s].sent]) = snd_stats'["state_tx"]
  <2> DEFINE old == [s \in Snd!Stream |-> sc[s].sent]
             new == [s \in Snd!Stream |-> sc'[s].sent]
  <2>1. old \in [Snd!Stream -> Nat] /\ new \in [Snd!Stream -> Nat] /\ IsFiniteSet(Snd!Stream)
    <3>1. IsFiniteSet(Snd!Stream)
      BY StreamsFinite
    <3>2. \A s \in Snd!Stream : sc[s].sent \in Nat /\ sc'[s].sent \in Nat
      BY <1>8, <1>10
    <3> QED
      BY <3>1, <3>2
  <2>2. CASE c.kind = "STATE"
    <3>1. c.stream \in Snd!Stream /\ new[c.stream] = old[c.stream] + 1
      BY <1>4, <1>10, <2>2 DEF chosen
    <3>2. \A s \in Snd!Stream \ {c.stream} : new[s] = old[s]
      BY <1>8, <1>10 DEF chosen
    <3> HIDE DEF old, new
    <3>3. SumFunction(new) = SumFunction(old) + 1
      BY <2>1, <3>1, <3>2, SumOfOneMore
    <3> QED
      BY <1>1, <1>4, <2>2, <3>3 DEF old, new
  <2>3. CASE c.kind # "STATE"
    <3>1. new = old
      BY <1>8, <1>10, <2>3 DEF chosen
    <3> QED
      BY <1>1, <1>4, <2>3, <3>1
  <2> QED
    BY <2>2, <2>3
<1> QED
  BY <1>8, <1>14, <1>15, <1>16, <1>17 DEF Counted

\* Every step keeps the counts.
LEMMA CountedKept ==
  ASSUME Truthful, Conserved, Clocked, Counted, Snd!SentOK, Observed
  PROVE  Counted'
<1>0. Next /\ Cores /\ Cores' /\ t \in Nat /\ Snd!Safe
  BY TruthfulKept DEF Observed, Truthful, Cores
<1>1. Clocked'
  BY <1>0, ClockMoves
<1>2. CASE WorkloadRow
  <2>1. PICK row \in StateRows \cup EventRows : TakeRow(row)
    BY <1>2 DEF WorkloadRow
  <2>2. /\ phase' = phase /\ t' = t /\ data_link' = data_link /\ rcv_streams' = rcv_streams
    BY <2>1 DEF TakeRow, rcvVars
  <2>3. \/ \E s \in Snd!Stream : Snd!Publish(t, s)
        \/ \E life \in Nat \X Nat : Snd!Post(t, life)
    BY <2>1, SystemAssumption DEF TakeRow, StateRows, EventRows
  <2>4. /\ \A s \in Snd!Stream : Snd!TxKept(s)
        /\ sent' = sent /\ snd_stats'["state_tx"] = snd_stats["state_tx"]
    BY <1>0, <2>3, CoreAssumptions, Snd!QuietDates
  <2>5. \A s \in Snd!Stream :
          \/ snd_streams'[s].latest_seq = snd_streams[s].latest_seq
          \/ snd_streams'[s].latest_seq = snd_streams[s].latest_seq + 1
    BY <1>0, <2>3, CoreAssumptions, Snd!PublishChanges, Snd!PostChanges DEF Snd!KeptLatest
  <2> QED
    BY <1>0, <1>1, <2>2, <2>4, <2>5, QuietCounted
<1>3. CASE AckArrival
  <2>1. PICK m \in ack_link : Snd!IngestAck(t, m.frame)
    BY <1>3 DEF AckArrival, NextDue
  <2>2. m.frame \in AnyFrame
    BY <2>1, HonestIsPossible DEF Conserved
  <2>3. phase' = phase /\ t' = t /\ data_link' = data_link /\ rcv_streams' = rcv_streams
    BY <1>3 DEF AckArrival, rcvVars
  <2>4. /\ \A s \in Snd!Stream : Snd!TxKept(s)
        /\ sent' = sent /\ snd_stats'["state_tx"] = snd_stats["state_tx"]
    BY <1>0, <2>1, <2>2, CoreAssumptions, SameFrames, Snd!QuietDates
  <2>5. \A s \in Snd!Stream : snd_streams'[s].latest_seq = snd_streams[s].latest_seq
    BY <1>0, <2>1, <2>2, CoreAssumptions, SameFrames, Snd!IngestAckChanges DEF Snd!KeptLatest
  <2> QED
    BY <1>0, <1>1, <2>3, <2>4, <2>5, QuietCounted
<1>4. CASE WorkloadDone \/ DataDone \/ AckDone \/ Reverse \/ EndOfMs
  <2>1. /\ data_link' = data_link /\ UNCHANGED sndVars
        /\ \/ t' = t /\ (phase \in {"reverse", "check"} => phase' \in {"reverse", "check"})
           \/ t' = t + 1
    BY <1>4 DEF WorkloadDone, DataDone, AckDone, Reverse, ReverseOn, EndOfMs
  <2>2. rcv_streams' = rcv_streams
    <3>1. ~ DataArrival
      <4>1. DataArrival => phase = "data" /\ data_link' # data_link
        BY DEF DataArrival, NextDue
      <4> QED
        BY <2>1, <4>1
    <3> QED
      BY <1>0, <3>1, NothingApplied
  <2>3. /\ sent' = sent /\ snd_stats' = snd_stats
        /\ \A s \in Snd!Stream : Snd!TxKept(s) /\ snd_streams'[s] = snd_streams[s]
    BY <2>1 DEF sndVars, Snd!TxKept
  <2> QED
    BY <1>0, <1>1, <2>1, <2>2, <2>3, QuietCounted
<1> QED
  BY <1>0, <1>2, <1>3, <1>4, DataArrivalCounted, ForwardCounted DEF Next, Forward

\* Before the run nothing is counted.
LEMMA InitCounted ==
  ASSUME MetricsInit
  PROVE  Counted
<1>0. Init /\ Cores
  BY InitTruthful DEF MetricsInit, Truthful
<1> DEFINE zero == [published |-> 0, sent |-> 0, applied |-> 0, stale_dropped |-> 0]
<1>1. /\ sc = [s \in Snd!Stream |-> zero] /\ data_link = {} /\ sent = {}
      /\ snd_stats["state_tx"] = 0
      /\ \A s \in Snd!Stream : snd_streams[s].latest_seq = 0 /\ snd_streams[s].last_tx = TIME_NONE
      /\ \A s \in Snd!Stream : Held(s) = 0
  BY <1>0, SameFrames DEF MetricsInit, Init, Snd!Init, Rcv!Init, Held, Snd!Counter, Snd!Stream, Rcv!Stream
<1>2. zero \in StreamCounts
  BY DEF StreamCounts
<1>3. ASSUME NEW s \in Snd!Stream PROVE CountedStream(s) /\ DatedStream(s)
  <2>1. UnderWay(s) = {} /\ SentUpTo(s, Held(s)) = {}
    BY <1>1 DEF UnderWay, SentUpTo
  <2>2. Cardinality(UnderWay(s)) = 0 /\ Cardinality(SentUpTo(s, Held(s))) = 0
    BY <2>1, FS_EmptySet
  <2>3. sc[s] = zero
    BY <1>1
  <2> QED
    BY <1>1, <2>2, <2>3 DEF CountedStream, DatedStream
<1>4. SumFunction([s \in Snd!Stream |-> sc[s].sent]) = 0
  <2> DEFINE f == [s \in Snd!Stream |-> sc[s].sent]
  <2>1. IsFiniteSet(Snd!Stream)
    BY StreamsFinite
  <2>2. f = [s \in Snd!Stream |-> 0]
    BY <1>1
  <2>3. SumFunction([s \in Snd!Stream |-> 0]) = 0
    BY <2>1, SumOfZeros
  <2> QED
    BY <2>2, <2>3
<1> QED
  BY <1>1, <1>2, <1>3, <1>4 DEF Counted

-----------------------------------------------------------------------------
(* The times of the events. *)

\* What a step may do to the dates of the ledger: an event is first transmitted now, or
\* first received now, and a new one is neither.
DatesMove ==
  /\ Len(outcome') \in Nat /\ Len(outcome) <= Len(outcome')
  /\ \A id \in 1 .. Len(outcome) :
       /\ ledger'[id].first_tx \in {ledger[id].first_tx, t}
       /\ \/ ledger'[id].rx_first = ledger[id].rx_first /\ (id \in delivered' => id \in delivered)
          \/ ledger'[id].rx_first = t /\ id \notin delivered
  /\ \A id \in 1 .. Len(outcome') : id \notin 1 .. Len(outcome) =>
       ledger'[id].first_tx = TIME_NONE /\ id \notin delivered'

\* An event is confirmed by an acknowledgement that arrives now.
AckedMove ==
  \A id \in 1 .. Len(outcome') : outcome'[id] = "ACKED" =>
    /\ id \in 1 .. Len(outcome)
    /\ \/ outcome[id] = "ACKED"
       \/ \E m \in ack_link : m.arrival = t /\ m.frame.type = "ACK_EVENT" /\ m.frame.id = id

\* An acknowledgement is sent now for an event delivered before.
AckLinkMove ==
  \A m \in ack_link' :
    \/ m \in ack_link
    \/ /\ m.sent = t /\ m.arrival \in Nat /\ t < m.arrival
       /\ m.frame.type = "ACK_EVENT" => m.frame.id \in delivered

\* A step that does no more keeps the times in their order.
LEMMA TimedMoves ==
  ASSUME Truthful, Conserved, Reconciled, Timed, t < RUN_MS, t' \in Nat, t <= t',
         times' = TimesAfter, DatesMove, AckedMove, AckLinkMove
  PROVE  Timed'
<1>0. /\ Cores /\ Honest /\ AckedWasDelivered /\ Timely /\ Entered /\ t \in Nat
      /\ RUN_MS \in Nat /\ RUN_MS <= HORIZON /\ HORIZON \in Nat /\ MAX_REL \in Nat
      /\ TIME_NONE \in Nat /\ HORIZON + MAX_REL < TIME_NONE
  BY SystemAssumption DEF Truthful, Cores, EventsKnown, Conserved, Reconciled
<1>1. t < TIME_NONE
  BY <1>0
<1>2. /\ DOMAIN ledger = 1 .. Len(outcome) /\ Len(outcome) \in Nat
      /\ \A id \in 1 .. Len(outcome) : ledger[id] \in LedgerRow
  BY <1>0, RowsAre
<1>3. \A id \in 1 .. Len(outcome) : ledger[id].first_tx \in Nat /\ ledger[id].rx_first \in Nat
  BY <1>2 DEF LedgerRow
<1>4. /\ times \in [1 .. Len(outcome) -> [gen : Nat, terminal : Nat]]
      /\ \A id \in 1 .. Len(outcome) : TimedEvent(id)
  BY DEF Timed
<1>5. \A id \in 1 .. Len(outcome) : times[id].gen \in Nat /\ times[id].terminal \in Nat
  BY <1>4
<1>6. times' = [id \in 1 .. Len(outcome') |-> times'[id]]
  BY DEF TimesAfter
<1>7. ASSUME NEW id \in 1 .. Len(outcome')
      PROVE  /\ times'[id] \in [gen : Nat, terminal : Nat]
             /\ id \notin 1 .. Len(outcome) => times'[id].gen = t
             /\ id \in 1 .. Len(outcome) =>
                  /\ times'[id].gen = times[id].gen
                  /\ times'[id].terminal = IF outcome'[id] # outcome[id] THEN t ELSE times[id].terminal
  <2>1. times'[id] =
          IF id > Len(outcome)
          THEN [gen |-> t, terminal |-> IF outcome'[id] = "PENDING" THEN TIME_NONE ELSE t]
          ELSE [times[id] EXCEPT !.terminal = IF outcome'[id] # outcome[id] THEN t ELSE @]
    BY DEF TimesAfter
  <2>2. CASE id \in 1 .. Len(outcome)
    <3> DEFINE r == times[id]
               u == IF outcome'[id] # outcome[id] THEN t ELSE r.terminal
    <3>1. times'[id] = [r EXCEPT !.terminal = u]
      <4>1. ~ (id > Len(outcome))
        BY <1>2, <2>2
      <4> QED
        BY <2>1, <4>1
    <3>2. r \in [gen : Nat, terminal : Nat] /\ u \in Nat
      BY <1>0, <1>4, <1>5, <2>2
    <3> HIDE DEF r, u
    <3>3. /\ times'[id] \in [gen : Nat, terminal : Nat]
          /\ times'[id].gen = r.gen /\ times'[id].terminal = u
      BY <3>1, <3>2
    <3> QED
      BY <2>2, <3>3 DEF r, u
  <2>3. CASE id \notin 1 .. Len(outcome)
    <3> DEFINE u == IF outcome'[id] = "PENDING" THEN TIME_NONE ELSE t
    <3>1. id > Len(outcome)
      BY <1>2, <2>3 DEF DatesMove
    <3>2. times'[id] = [gen |-> t, terminal |-> u] /\ u \in Nat
      BY <1>0, <2>1, <3>1
    <3> HIDE DEF u
    <3> QED
      BY <1>0, <2>3, <3>2
  <2> QED
    BY <2>2, <2>3
<1>8. times' \in [1 .. Len(outcome') -> [gen : Nat, terminal : Nat]]
  BY <1>6, <1>7
<1>9. \A m \in ack_link : m.frame.type = "ACK_EVENT" =>
        m.frame.id \in delivered /\ m.frame.id \in 1 .. Len(outcome)
  BY <1>0 DEF Honest, AckFrameOK, AckStateFrame, AckedWasDelivered
<1>10. ASSUME NEW id \in delivered
       PROVE  /\ id \in 1 .. Len(outcome) /\ ledger'[id].rx_first = ledger[id].rx_first
              /\ ledger[id].rx_first \in Nat
              /\ ledger[id].rx_first <= t /\ ledger[id].rx_first < RUN_MS
  <2>1. id \in 1 .. Len(outcome)
    BY <1>0 DEF AckedWasDelivered
  <2> QED
    BY <1>3, <1>4, <2>1 DEF DatesMove, TimedEvent
<1>11. ASSUME NEW id \in 1 .. Len(outcome'), id \notin 1 .. Len(outcome)
       PROVE  TimedEvent(id)'
  <2>1. times'[id].gen = t
    BY <1>7, <1>11
  <2>2. ledger'[id].first_tx = TIME_NONE /\ id \notin delivered' /\ outcome'[id] # "ACKED"
    BY <1>11 DEF DatesMove, AckedMove
  <2> QED
    BY <1>0, <1>1, <2>1, <2>2 DEF TimedEvent
<1>12. ASSUME NEW id \in 1 .. Len(outcome') , id \in 1 .. Len(outcome)
       PROVE  TimedEvent(id)'
  <2>1. /\ times'[id].gen = times[id].gen /\ times[id].gen \in Nat
        /\ times'[id].terminal = IF outcome'[id] # outcome[id] THEN t ELSE times[id].terminal
    BY <1>5, <1>7, <1>12
  <2>2. TimedEvent(id)
    BY <1>4, <1>12
  <2>3. times'[id].gen <= t' /\ times'[id].gen <= ledger'[id].first_tx
    <3>1. ledger'[id].first_tx \in {ledger[id].first_tx, t}
      BY <1>12 DEF DatesMove
    <3>2. ledger[id].first_tx \in Nat
      BY <1>3, <1>12
    <3> QED
      BY <1>0, <2>1, <2>2, <3>1, <3>2 DEF TimedEvent
  <2>4. id \in delivered' => ledger'[id].rx_first <= t' /\ ledger'[id].rx_first < RUN_MS
    <3>1. CASE id \in delivered
      BY <1>0, <1>10, <3>1
    <3>2. CASE id \in delivered' /\ id \notin delivered
      <4>1. ledger'[id].rx_first = t
        BY <1>12, <3>2 DEF DatesMove
      <4> QED
        BY <1>0, <4>1
    <3> QED
      BY <3>1, <3>2
  <2>5. outcome'[id] = "ACKED" => /\ ledger'[id].rx_first < times'[id].terminal
                                  /\ times'[id].terminal < RUN_MS
    <3>1. CASE outcome[id] = "ACKED"
      <4>1. id \in delivered
        BY <1>0, <1>12, <3>1 DEF AckedWasDelivered
      <4>2. ledger[id].rx_first < times[id].terminal /\ times[id].terminal < RUN_MS
        BY <2>2, <3>1 DEF TimedEvent
      <4>3. outcome'[id] = "ACKED" => times'[id].terminal = times[id].terminal
        BY <2>1, <3>1
      <4> QED
        BY <1>10, <4>1, <4>2, <4>3
    <3>2. CASE outcome[id] # "ACKED" /\ outcome'[id] = "ACKED"
      <4>1. PICK m \in ack_link : m.arrival = t /\ m.frame.type = "ACK_EVENT" /\ m.frame.id = id
        BY <3>2 DEF AckedMove
      <4>2. id \in delivered
        BY <1>9, <4>1
      <4>3. ledger[id].rx_first <= m.sent /\ m.sent < m.arrival /\ m.sent \in Nat
        BY <1>0, <4>1 DEF Timed, Timely
      <4>4. times'[id].terminal = t
        BY <2>1, <3>2
      <4>5. ledger[id].rx_first < t
        BY <1>0, <1>10, <4>1, <4>2, <4>3
      <4> QED
        BY <1>10, <4>2, <4>4, <4>5
    <3> QED
      BY <3>1, <3>2
  <2> QED
    BY <2>3, <2>4, <2>5 DEF TimedEvent
<1>13. ASSUME NEW m \in ack_link'
       PROVE  /\ m.sent < m.arrival
              /\ m.frame.type = "ACK_EVENT" => ledger'[m.frame.id].rx_first <= m.sent
  <2>1. CASE m \in ack_link
    <3>1. /\ m.sent < m.arrival
          /\ m.frame.type = "ACK_EVENT" => ledger[m.frame.id].rx_first <= m.sent
      BY <2>1 DEF Timed
    <3>2. m.frame.type = "ACK_EVENT" => ledger'[m.frame.id].rx_first = ledger[m.frame.id].rx_first
      BY <1>9, <1>10, <2>1
    <3> QED
      BY <3>1, <3>2
  <2>2. CASE m \notin ack_link
    <3>1. /\ m.sent = t /\ m.arrival \in Nat /\ t < m.arrival
          /\ m.frame.type = "ACK_EVENT" => m.frame.id \in delivered
      BY <2>2 DEF AckLinkMove
    <3> QED
      BY <1>10, <3>1
  <2> QED
    BY <2>1, <2>2
<1> QED
  BY <1>8, <1>11, <1>12, <1>13 DEF Timed

\* A workload row gives at most one new event a row of its own.
LEMMA RowMoves ==
  ASSUME Truthful, Conserved, Reconciled, WorkloadRow
  PROVE  DatesMove /\ AckedMove /\ AckLinkMove
<1>0. Cores /\ Snd!Safe /\ t \in Nat /\ Entered /\ AckedWasDelivered /\ ~ AckArrival
  BY DEF Truthful, Cores, EventsKnown, Reconciled, WorkloadRow, TakeRow, AckArrival
<1>1. PICK row \in StateRows \cup EventRows : TakeRow(row)
  BY DEF WorkloadRow
<1>2. Snd!NoneAcked /\ Snd!IdsKept
  <2>1. \/ \E s \in Snd!Stream : Snd!Publish(t, s)
        \/ \E life \in Nat \X Nat : Snd!Post(t, life)
    BY <1>1, SystemAssumption DEF TakeRow, StateRows, EventRows
  <2> QED
    BY <1>0, <2>1, CoreAssumptions, Snd!PublishChanges, Snd!PostChanges
<1>3. UNCHANGED <<t, ack_link, delivered>>
  BY <1>1 DEF TakeRow, rcvVars
<1>4. /\ Len(outcome) \in Nat /\ DOMAIN ledger = 1 .. Len(outcome)
      /\ ledger \in Seq(LedgerRow) /\ Len(ledger) = Len(outcome)
  BY <1>0, RowsAre DEF Entered
<1>5. ledger' = ledger \/ ledger' = Append(ledger, NewRecord)
  BY <1>1 DEF TakeRow
<1>6. Reconciled'
  BY <1>1, RowReconciled
<1>7. /\ Len(outcome') \in Nat /\ Len(ledger') = Len(outcome')
      /\ DOMAIN ledger' = 1 .. Len(outcome')
  <2>1. ledger' \in Seq(LedgerRow) /\ Len(ledger') = Len(outcome')
    BY <1>6 DEF Reconciled, Entered
  <2> QED
    BY <2>1
<1>8. Len(outcome) <= Len(outcome')
  BY <1>2 DEF Snd!IdsKept
<1>9. /\ \A id \in 1 .. Len(outcome) : ledger'[id] = ledger[id]
      /\ \A id \in 1 .. Len(outcome') : id \notin 1 .. Len(outcome) => ledger'[id] = NewRecord
  <2>1. CASE ledger' = ledger
    BY <1>4, <1>7, <2>1
  <2>2. CASE ledger' = Append(ledger, NewRecord)
    <3>1. /\ \A id \in 1 .. Len(ledger) : ledger'[id] = ledger[id]
          /\ ledger'[Len(ledger) + 1] = NewRecord /\ Len(ledger') = Len(ledger) + 1
      BY <1>4, <2>2
    <3>2. \A id \in 1 .. Len(outcome') : id \notin 1 .. Len(outcome) => id = Len(ledger) + 1
      BY <1>4, <1>7, <3>1
    <3> QED
      BY <1>4, <3>1, <3>2
  <2> QED
    BY <1>5, <2>1, <2>2
<1>10. NewRecord.first_tx = TIME_NONE
  BY DEF NewRecord
<1>11. \A id \in delivered' : id \in 1 .. Len(outcome)
  BY <1>0, <1>3 DEF AckedWasDelivered
<1>12. DatesMove
  BY <1>3, <1>7, <1>8, <1>9, <1>10, <1>11 DEF DatesMove
<1> QED
  BY <1>2, <1>3, <1>12 DEF AckedMove, AckLinkMove, Snd!NoneAcked

\* A data frame dates at most the first receipt of its event.
LEMMA DataArrivalMoves ==
  ASSUME Truthful, Conserved, Reconciled, DataArrival
  PROVE  DatesMove /\ AckedMove /\ AckLinkMove
<1>0. /\ Cores /\ Rcv!Sound /\ t \in Nat /\ Entered /\ Honest
  BY DEF Truthful, Cores, Reconciled, Conserved
<1>1. PICK m \in data_link : Rcv!Ingest(t, m.frame) /\ ledger' = LedgerWith(m.frame)
  BY DEF DataArrival, NextDue
<1>2. UNCHANGED <<t, outcome, ack_link>>
  BY DEF DataArrival, sndVars
<1>3. /\ DOMAIN ledger = 1 .. Len(outcome) /\ Len(outcome) \in Nat
      /\ ledger \in Seq(LedgerRow) /\ \A id \in DOMAIN ledger : ledger[id] \in LedgerRow
  BY <1>0, RowsAre DEF Entered
<1> DEFINE f == m.frame
<1>4. f \in AnyFrame /\ (f.type = "EVENT" => f.id # 0 /\ f.id \in DOMAIN ledger)
  <2>1. DataFrameOK(f)
    BY <1>0, <1>1 DEF Honest
  <2>2. CASE f \in StateFrame
    BY <2>2 DEF AnyFrame, StateFrame
  <2>3. CASE f \in EventFrame /\ f.id \in 1 .. Len(outcome)
    BY <1>3, <2>3 DEF AnyFrame
  <2> QED
    BY <2>1, <2>2, <2>3 DEF DataFrameOK
<1> HIDE DEF f
<1>5. ASSUME NEW id \in 1 .. Len(outcome)
      PROVE  /\ ledger'[id].first_tx = ledger[id].first_tx
             /\ \/ ledger'[id].rx_first = ledger[id].rx_first /\ (id \in delivered' => id \in delivered)
                \/ ledger'[id].rx_first = t /\ id \notin delivered
  <2>1. ledger[id] \in LedgerRow
    BY <1>3
  <2>2. CASE f.type # "EVENT"
    <3>1. ledger' = ledger
      BY <1>1, <2>2 DEF LedgerWith, f
    <3>2. delivered' = delivered
      BY <1>0, <1>1, <1>4, <2>2, CoreAssumptions, SameFrames, Rcv!Verdicts DEF f
    <3> QED
      BY <3>1, <3>2
  <2>3. CASE f.type = "EVENT" /\ Rcv!Deliverable(f)
    <3>1. ledger' = [ledger EXCEPT ![f.id].rx_first = t]
      BY <1>1, <2>3 DEF LedgerWith, f
    <3>2. f.id \notin delivered /\ delivered' = delivered \cup {f.id}
      BY <1>0, <1>1, <1>4, <2>3, CoreAssumptions, SameFrames, Rcv!Verdicts DEF f
    <3>3. CASE id = f.id
      BY <1>3, <2>1, <3>1, <3>2, <3>3 DEF LedgerRow
    <3>4. CASE id # f.id
      BY <1>3, <3>1, <3>2, <3>4
    <3> QED
      BY <3>3, <3>4
  <2>4. CASE f.type = "EVENT" /\ ~ Rcv!Deliverable(f)
    <3>1. \/ ledger' = [ledger EXCEPT ![f.id].rx_dups = @ + 1]
          \/ ledger' = [ledger EXCEPT ![f.id].rx_oow = @ + 1]
      BY <1>1, <2>4 DEF LedgerWith, f
    <3>2. delivered' = delivered
      BY <1>0, <1>1, <1>4, <2>4, CoreAssumptions, SameFrames, Rcv!Verdicts DEF f
    <3>3. ledger'[id].first_tx = ledger[id].first_tx /\ ledger'[id].rx_first = ledger[id].rx_first
      <4>1. CASE id # f.id
        BY <1>3, <3>1, <4>1
      <4>2. CASE id = f.id /\ ledger' = [ledger EXCEPT ![f.id].rx_dups = @ + 1]
        BY <1>3, <2>1, <4>2 DEF LedgerRow
      <4>3. CASE id = f.id /\ ledger' = [ledger EXCEPT ![f.id].rx_oow = @ + 1]
        BY <1>3, <2>1, <4>3 DEF LedgerRow
      <4> QED
        BY <3>1, <4>1, <4>2, <4>3
    <3> QED
      BY <3>2, <3>3
  <2> QED
    BY <2>2, <2>3, <2>4
<1>6. DatesMove
  BY <1>2, <1>3, <1>5 DEF DatesMove
<1> QED
  BY <1>2, <1>6 DEF AckedMove, AckLinkMove

\* An acknowledgement confirms at most the event it names.
LEMMA AckArrivalMoves ==
  ASSUME Truthful, Conserved, Reconciled, AckArrival
  PROVE  DatesMove /\ AckedMove /\ AckLinkMove
<1>0. Cores /\ Snd!Safe /\ t \in Nat /\ Entered
  BY DEF Truthful, Cores, Reconciled
<1>1. PICK m \in ack_link : /\ m.arrival = t /\ Snd!IngestAck(t, m.frame)
                            /\ ack_link' = ack_link \ {m}
  BY DEF AckArrival, NextDue
<1>2. UNCHANGED <<t, ledger, delivered>>
  BY DEF AckArrival, rcvVars
<1>3. m.frame \in AnyFrame
  BY <1>1, HonestIsPossible DEF Conserved
<1>4. /\ Len(outcome') = Len(outcome)
      /\ \A id \in 1 .. Len(outcome') : outcome'[id] = "ACKED" =>
           outcome[id] = "ACKED" \/ (m.frame.type = "ACK_EVENT" /\ m.frame.id = id)
  BY <1>0, <1>1, <1>3, CoreAssumptions, SameFrames, Snd!IngestAckChanges
<1>5. Len(outcome) \in Nat
  BY <1>0, RowsAre
<1>6. DatesMove
  BY <1>2, <1>4, <1>5 DEF DatesMove
<1>7. AckedMove
  BY <1>1, <1>4 DEF AckedMove
<1> QED
  BY <1>1, <1>6, <1>7 DEF AckLinkMove

\* A transmission dates at most the first attempt of its event.
LEMMA ForwardMoves ==
  ASSUME Truthful, Conserved, Reconciled, Forward
  PROVE  DatesMove /\ AckedMove /\ AckLinkMove
<1>0. Cores /\ Snd!Safe /\ t \in Nat /\ Entered
  BY DEF Truthful, Cores, Reconciled
<1>1. PICK c \in Snd!Choices(t) :
        Snd!TimeOk(t) /\ Snd!StepWith(t, c) /\ ledger' \in LedgerAfter(c)
  BY DEF Forward, ForwardOn
<1>2. UNCHANGED <<t, delivered, ack_link>>
  BY DEF Forward, ForwardOn, rcvVars
<1>3. /\ DOMAIN ledger = 1 .. Len(outcome) /\ Len(outcome) \in Nat
      /\ \A id \in DOMAIN ledger : ledger[id] \in LedgerRow
  BY <1>0, RowsAre DEF Entered
<1>4. Len(outcome') = Len(outcome) /\ Snd!NoneAcked
  BY <1>0, <1>1, CoreAssumptions, Snd!StepChanges
<1>5. ASSUME NEW id \in 1 .. Len(outcome)
      PROVE  /\ ledger'[id].first_tx \in {ledger[id].first_tx, t}
             /\ ledger'[id].rx_first = ledger[id].rx_first
  <2>1. CASE ledger' = ledger
    BY <2>1
  <2>2. ASSUME NEW n, ledger' = [ledger EXCEPT ![c.id].attempts = n,
                                               ![c.id].first_tx = IF @ = TIME_NONE THEN t ELSE @]
        PROVE  /\ ledger'[id].first_tx \in {ledger[id].first_tx, t}
               /\ ledger'[id].rx_first = ledger[id].rx_first
    <3>1. ledger[id] \in LedgerRow
      BY <1>3
    <3>2. CASE id = c.id
      BY <1>3, <2>2, <3>1, <3>2 DEF LedgerRow
    <3>3. CASE id # c.id
      BY <1>3, <2>2, <3>3
    <3> QED
      BY <3>2, <3>3
  <2>3. \/ ledger' = ledger
        \/ \E n : ledger' = [ledger EXCEPT ![c.id].attempts = n,
                                           ![c.id].first_tx = IF @ = TIME_NONE THEN t ELSE @]
    BY <1>1 DEF LedgerAfter
  <2> QED
    BY <2>1, <2>2, <2>3
<1>6. DatesMove
  BY <1>2, <1>3, <1>4, <1>5 DEF DatesMove
<1> QED
  BY <1>2, <1>4, <1>6 DEF AckedMove, AckLinkMove, Snd!NoneAcked

\* The other steps date nothing; one sends an acknowledgement of what was delivered.
LEMMA RestMoves ==
  ASSUME Truthful, Conserved, Reconciled, Reverse \/ WorkloadDone \/ DataDone \/ AckDone \/ EndOfMs
  PROVE  DatesMove /\ AckedMove /\ AckLinkMove
<1>0. Cores /\ Rcv!Sound /\ t \in Nat /\ Entered
  BY DEF Truthful, Cores, Reconciled
<1>1. UNCHANGED <<ledger, outcome>>
  BY DEF Reverse, ReverseOn, WorkloadDone, DataDone, AckDone, EndOfMs, sndVars
<1>2. delivered' = delivered
  <2>1. CASE Reverse
    <3>1. Rcv!Step(t)
      BY <2>1 DEF Reverse, ReverseOn
    <3> QED
      BY <1>0, <3>1, CoreAssumptions, Rcv!StepVerdicts
  <2> QED
    BY <2>1 DEF WorkloadDone, DataDone, AckDone, EndOfMs, rcvVars
<1>3. Len(outcome) \in Nat
  BY <1>0, RowsAre
<1>4. AckLinkMove
  <2>1. CASE Reverse
    <3>1. PICK e \in Entries :
            /\ Rcv!Step(t)
            /\ ack_link' = ack_link \/ \E f \in AckSent : ack_link' = Carried(ack_link, f, e)
      BY <2>1 DEF Reverse, ReverseOn
    <3>2. ASSUME NEW f \in AckSent, ack_link' = Carried(ack_link, f, e), NEW m \in ack_link',
                 m \notin ack_link
          PROVE  /\ m.sent = t /\ m.arrival \in Nat /\ t < m.arrival
                 /\ m.frame.type = "ACK_EVENT" => m.frame.id \in delivered
      <4>1. m.sent = t /\ m.arrival \in Nat /\ t < m.arrival
        BY <1>0, <3>2, CarriedTimes
      <4>2. m.frame = f
        BY <3>2 DEF Carried
      <4>3. f.type = "ACK_EVENT" => f.id \in delivered
        BY <1>0, <3>1, AckSentOK DEF AckStateFrame
      <4> QED
        BY <4>1, <4>2, <4>3
    <3> QED
      BY <3>1, <3>2 DEF AckLinkMove
  <2>2. CASE WorkloadDone \/ DataDone \/ AckDone \/ EndOfMs
    BY <2>2 DEF WorkloadDone, DataDone, AckDone, EndOfMs, AckLinkMove
  <2> QED
    BY <2>1, <2>2
<1> QED
  BY <1>1, <1>2, <1>3, <1>4 DEF DatesMove, AckedMove

\* Every step keeps the times in their order.
LEMMA TimedKept ==
  ASSUME Truthful, Conserved, Reconciled, Clocked, Timed, Observed
  PROVE  Timed'
<1>1. Next /\ times' = TimesAfter /\ Cores /\ t \in Nat
  BY DEF Observed, Truthful, Cores
<1>2. t < RUN_MS /\ t' \in Nat /\ t <= t'
  BY <1>1, ClockMoves
<1>3. DatesMove /\ AckedMove /\ AckLinkMove
  BY <1>1, RowMoves, DataArrivalMoves, AckArrivalMoves, ForwardMoves, RestMoves DEF Next
<1> QED
  BY <1>1, <1>2, <1>3, TimedMoves

\* Before the run no event has a time.
LEMMA InitTimed ==
  ASSUME MetricsInit
  PROVE  Timed
<1>1. times = <<>> /\ outcome = <<>> /\ ack_link = {}
  BY DEF MetricsInit, Init, Snd!Init
<1>2. Len(outcome) = 0 /\ 1 .. 0 = {}
  BY <1>1
<1>3. times \in [1 .. Len(outcome) -> [gen : Nat, terminal : Nat]]
  BY <1>1, <1>2
<1> QED
  BY <1>1, <1>2, <1>3 DEF Timed

-----------------------------------------------------------------------------
(* The invariant, and what is reported. *)

\* The sender's own ledger stays in order whatever the run calls it with.
LEMMA SenderLedgerKept ==
  ASSUME Truthful, Conserved, Snd!Ledger, Next
  PROVE  Snd!Ledger'
<1>0. Snd!Safe /\ t \in Nat
  BY DEF Truthful, Cores
<1>1. CASE WorkloadRow \/ Forward
  <2>1. Snd!Calls(t)
    BY <1>1 DEF WorkloadRow, TakeRow, StateRows, EventRows, Forward, ForwardOn, Snd!Calls, Snd!Step
  <2> QED
    BY <1>0, <2>1, CoreAssumptions, Snd!CallLedger
<1>2. CASE AckArrival
  <2>1. PICK m \in ack_link : Snd!IngestAck(t, m.frame)
    BY <1>2 DEF AckArrival, NextDue
  <2>2. m.frame \in AnyFrame
    BY <2>1, HonestIsPossible DEF Conserved
  <2> QED
    BY <1>0, <2>1, <2>2, CoreAssumptions, SameFrames, Snd!IngestLedger
<1>3. CASE WorkloadDone \/ DataArrival \/ DataDone \/ AckDone \/ Reverse \/ EndOfMs
  <2>1. UNCHANGED <<snd_streams, snd_stats, outcome, sent>>
    BY <1>3 DEF WorkloadDone, DataArrival, DataDone, AckDone, Reverse, ReverseOn, EndOfMs, sndVars
  <2> QED
    BY <2>1, CoreAssumptions, Snd!LedgerKept
<1> QED
  BY <1>1, <1>2, <1>3 DEF Next

\* What the metrics do of their own changes nothing of the run.
LEMMA UnobservedKept ==
  ASSUME Clocked, Snd!Ledger, Counted, Timed, UNCHANGED <<vars, sc, times>>
  PROVE  Clocked' /\ Snd!Ledger' /\ Counted' /\ Timed'
<1>1. /\ UNCHANGED <<snd_now, snd_streams, snd_stats, outcome, sent>>
      /\ UNCHANGED <<rcv_streams, delivered>>
      /\ UNCHANGED <<t, phase, data_link, ack_link, ledger>>
      /\ UNCHANGED <<sc, times>>
  BY DEF vars, sndVars, rcvVars, hostVars
<1>2. Clocked'
  BY <1>1 DEF Clocked
<1>3. Snd!Ledger'
  BY <1>1, CoreAssumptions, Snd!LedgerKept
<1>4. Counted'
  <2>1. ASSUME NEW s \in Snd!Stream PROVE CountedStream(s)' /\ DatedStream(s)'
    <3>1. Held(s)' = Held(s) /\ UnderWay(s)' = UnderWay(s)
      BY <1>1 DEF Held, UnderWay
    <3>2. SentUpTo(s, Held(s))' = SentUpTo(s, Held(s))
      BY <1>1, <3>1 DEF SentUpTo
    <3> QED
      BY <1>1, <3>1, <3>2 DEF Counted, CountedStream, DatedStream
  <2> QED
    BY <1>1, <2>1 DEF Counted
<1>5. Timed'
  BY <1>1 DEF Timed, TimedEvent
<1> QED
  BY <1>2, <1>3, <1>4, <1>5

\* Every step keeps what is known of the metrics.
LEMMA WatchedKept ==
  ASSUME Truthful, Conserved, Reconciled, Watched, [MetricsNext]_allVars
  PROVE  Watched'
<1>0. Clocked /\ Snd!Ledger /\ Counted /\ Timed /\ Reported
  BY DEF Watched
<1>1. Reported'
  BY <1>0, ReportedKept
<1>2. CASE Observed
  <2>1. Next /\ Cores /\ Snd!SentOK
    BY <1>0, <1>2 DEF Observed, Truthful, Snd!Ledger
  <2>2. Clocked'
    BY <1>0, <2>1, ClockMoves
  <2>3. Snd!Ledger'
    BY <1>0, <2>1, SenderLedgerKept
  <2>4. Counted'
    BY <1>0, <1>2, <2>1, CountedKept
  <2>5. Timed'
    BY <1>0, <1>2, TimedKept
  <2> QED
    BY <1>1, <2>2, <2>3, <2>4, <2>5 DEF Watched
<1>3. CASE CloseMetrics \/ UNCHANGED allVars
  <2>1. UNCHANGED <<vars, sc, times>>
    BY <1>3 DEF CloseMetrics, allVars, metricVars
  <2> QED
    BY <1>0, <1>1, <2>1, UnobservedKept DEF Watched
<1> QED
  BY <1>2, <1>3 DEF MetricsNext

\* Before the run nothing is counted, timed or reported.
LEMMA InitWatched ==
  ASSUME MetricsInit
  PROVE  Watched
<1>1. Init /\ t = 0 /\ phase = "workload" /\ snd_now = TIME_NONE /\ summary = NoSummary
      /\ \A s \in Snd!Stream : aoi[s] = A!AoiInit /\ rxlog[s] = <<>>
  BY DEF MetricsInit, Init, Snd!Init
<1>2. Clocked
  BY <1>1, SystemAssumption DEF Clocked
<1>3. Snd!Ledger
  <2>1. Snd!Init
    BY <1>1 DEF Init
  <2> QED
    BY <2>1, CoreAssumptions, Snd!InitLedger
<1>4. Reported
  BY <1>1, StartRunning DEF Reported
<1> QED
  BY <1>2, <1>3, <1>4, InitCounted, InitTimed DEF Watched

\* The metrics watch the steps of the run and make none of their own.
LEMMA MetricsSteps == [MetricsNext]_allVars => [Next]_vars
  BY DEF MetricsNext, Observed, CloseMetrics, allVars

\* The invariant of a run with its metrics.
THEOREM MetricsWatched == MetricsSpec => [](Truthful /\ Conserved /\ Reconciled /\ Watched)
<1>1. MetricsInit => Truthful /\ Conserved /\ Reconciled /\ Watched
  BY InitTruthful, InitConserved, InitReconciled, InitWatched DEF MetricsInit
<1>2. Truthful /\ Conserved /\ Reconciled /\ Watched /\ [MetricsNext]_allVars
        => Truthful' /\ Conserved' /\ Reconciled' /\ Watched'
  BY MetricsSteps, TruthfulKept, ConservedKept, ReconciledKept, WatchedKept
<1> QED
  BY <1>1, <1>2, PTL DEF MetricsSpec

\* At the end each accumulator gives the area, the time over the threshold, the peak, the
\* unknown time and the final age that the receive log gives millisecond by millisecond
\* (sim.c's apply_state and aoi_finish over any workload, trace and threshold).
THEOREM MetricsAoiExact == MetricsSpec => []AoiExact
<1>1. Reported => AoiExact
  <2>1. NoSummary.reported = FALSE
    BY DEF NoSummary
  <2> QED
    BY <2>1 DEF Reported, AoiExact, Ended, ExactTo
<1> QED
  BY <1>1, MetricsWatched, PTL DEF Watched

\* The cores count as the metrics do: their instances carry module FiniteSets along.
LEMMA SameSizes ==
  /\ \A S : Snd!Cardinality(S) = Cardinality(S) /\ (Snd!IsFiniteSet(S) <=> IsFiniteSet(S))
  /\ \A S : Rcv!Cardinality(S) = Cardinality(S) /\ (Rcv!IsFiniteSet(S) <=> IsFiniteSet(S))
<1>1. \A S : Snd!Cardinality(S) = Cardinality(S) /\ Rcv!Cardinality(S) = Cardinality(S)
  BY DEF Cardinality, Snd!Cardinality, Rcv!Cardinality
<1>2. \A S : /\ Snd!IsFiniteSet(S) <=> IsFiniteSet(S)
             /\ Rcv!IsFiniteSet(S) <=> IsFiniteSet(S)
  BY DEF IsFiniteSet, Snd!IsFiniteSet, Rcv!IsFiniteSet
<1> QED
  BY <1>1, <1>2

\* What the summary counts, in the cores' terms: the received are the delivered, the
\* acknowledged are among them, and the pending are the events in the table.
LEMMA WhatIsCounted ==
  ASSUME Truthful, Reconciled, Snd!Ledger
  PROVE  /\ Received = delivered /\ Acked \subseteq Received /\ IsFiniteSet(Received)
         /\ Cardinality(Received) = rcv_stats["ev_delivered"]
         /\ Cardinality(Acked) = snd_stats["events_acked"]
         /\ Cardinality({id \in DOMAIN outcome : outcome[id] = "PENDING"}) = Cardinality(Snd!UsedSlots)
<1>0. /\ Cores /\ Snd!Safe /\ Rcv!Sound /\ AckedWasDelivered /\ Entered /\ Dated
  BY DEF Truthful, Cores, EventsKnown, Reconciled
<1>1. /\ DOMAIN ledger = 1 .. Len(outcome) /\ DOMAIN outcome = 1 .. Len(outcome)
      /\ \A id \in 1 .. Len(outcome) : ledger[id] \in LedgerRow
  <2>1. outcome \in Seq(Snd!Outcome)
    BY <1>0, CoreAssumptions, Snd!SafeFacts
  <2> QED
    BY <1>0, <2>1, RowsAre
<1>2. Received = delivered
  <2>1. HORIZON \in Nat /\ TIME_NONE \in Nat /\ MAX_REL \in Nat /\ TIME_NONE > HORIZON + MAX_REL
    BY SystemAssumption
  <2>2. \A id \in 1 .. Len(outcome) : ledger[id].rx_first \in Nat
    BY <1>1 DEF LedgerRow
  <2>3. \A id \in 1 .. Len(outcome) : ledger[id].rx_first # TIME_NONE <=> id \in delivered
    BY <1>0, <1>1, <2>1, <2>2 DEF Dated
  <2> QED
    BY <1>0, <1>1, <2>3 DEF Received, AckedWasDelivered
<1>3. Acked \subseteq Received
  BY <1>0, <1>1, <1>2 DEF Acked, AckedWasDelivered
<1>4. IsFiniteSet(delivered) /\ Cardinality(delivered) = rcv_stats["ev_delivered"]
  BY <1>0, SameSizes DEF Rcv!Sound, Rcv!AtMostOnce
<1>5. Cardinality(Acked) = snd_stats["events_acked"]
  <2>1. Acked = Snd!Ended("ACKED")
    BY <1>1 DEF Acked, Snd!Ended
  <2> QED
    BY <2>1, SameSizes DEF Snd!Ledger, Snd!EndsExact
<1>6. Cardinality({id \in DOMAIN outcome : outcome[id] = "PENDING"}) = Cardinality(Snd!UsedSlots)
  <2>1. Snd!SlotsExact
    BY <1>0 DEF Snd!Safe
  <2>2. {id \in DOMAIN outcome : outcome[id] = "PENDING"} = {events[i].id : i \in Snd!UsedSlots}
    BY <1>1, <2>1 DEF Snd!SlotsExact
  <2>3. Cardinality({events[i].id : i \in Snd!UsedSlots}) = Cardinality(Snd!UsedSlots)
    <3>1. Snd!Cardinality({events[i].id : i \in Snd!UsedSlots}) = Snd!Cardinality(Snd!UsedSlots)
      BY <1>0, CoreAssumptions, Snd!IdsCount
    <3> QED
      BY <3>1, SameSizes
  <2> QED
    BY <2>2, <2>3
<1> QED
  BY <1>2, <1>3, <1>4, <1>5, <1>6

\* How long an event took: it was received after it was generated, before the end, and
\* confirmed after that, before the end too.
LEMMA Durations ==
  ASSUME Truthful, Reconciled, Timed, Received = delivered, Acked \subseteq Received
  PROVE  /\ \A id \in Received : Latency(id) \in Nat /\ Latency(id) <= RUN_MS - 1
         /\ \A id \in Acked : /\ Confirmation(id) \in Nat /\ Confirmation(id) <= RUN_MS - 1
                              /\ Latency(id) + 1 <= Confirmation(id)
<1>0. /\ Cores /\ AckedWasDelivered /\ Entered /\ Dated /\ RUN_MS \in Nat
  BY SystemAssumption DEF Truthful, Cores, EventsKnown, Reconciled
<1>1. /\ DOMAIN ledger = 1 .. Len(outcome)
      /\ \A id \in 1 .. Len(outcome) : ledger[id] \in LedgerRow
  BY <1>0, RowsAre
<1>2. ASSUME NEW id \in Received
      PROVE  /\ id \in 1 .. Len(outcome) /\ TimedEvent(id) /\ id \in delivered
             /\ times[id].gen \in Nat /\ times[id].terminal \in Nat
             /\ ledger[id].first_tx \in Nat /\ ledger[id].rx_first \in Nat
             /\ ledger[id].first_tx < ledger[id].rx_first
  <2>1. id \in delivered /\ id \in 1 .. Len(outcome)
    BY <1>0 DEF AckedWasDelivered
  <2>2. ledger[id].first_tx \in Nat /\ ledger[id].rx_first \in Nat
    BY <1>1, <2>1 DEF LedgerRow
  <2>3. ledger[id].first_tx < ledger[id].rx_first
    BY <1>0, <1>1, <2>1 DEF Dated
  <2>4. times[id] \in [gen : Nat, terminal : Nat] /\ TimedEvent(id)
    BY <2>1 DEF Timed
  <2>5. times[id].gen \in Nat /\ times[id].terminal \in Nat
    BY <2>4
  <2> QED
    BY <2>1, <2>2, <2>3, <2>4, <2>5
<1>3. ASSUME NEW id \in Received PROVE Latency(id) \in Nat /\ Latency(id) <= RUN_MS - 1
  <2>1. times[id].gen <= ledger[id].first_tx /\ ledger[id].rx_first < RUN_MS
    BY <1>2 DEF TimedEvent
  <2> QED
    BY <1>0, <1>2, <2>1 DEF Latency
<1>4. ASSUME NEW id \in Acked
      PROVE  /\ Confirmation(id) \in Nat /\ Confirmation(id) <= RUN_MS - 1
             /\ Latency(id) + 1 <= Confirmation(id)
  <2>1. id \in Received /\ outcome[id] = "ACKED"
    BY DEF Acked
  <2>2. /\ times[id].gen <= ledger[id].first_tx
        /\ ledger[id].rx_first < times[id].terminal /\ times[id].terminal < RUN_MS
    BY <1>2, <2>1 DEF TimedEvent
  <2>3. /\ times[id].gen \in Nat /\ times[id].terminal \in Nat
        /\ ledger[id].first_tx \in Nat /\ ledger[id].rx_first \in Nat
        /\ ledger[id].first_tx < ledger[id].rx_first
    BY <1>2, <2>1
  <2> QED
    BY <1>0, <2>2, <2>3 DEF Confirmation, Latency
<1> QED
  BY <1>3, <1>4

\* The largest of bounded values is bounded.
LEMMA LargestBounded ==
  ASSUME NEW S, IsFiniteSet(S), NEW F, F = [id \in S |-> F[id]], NEW b \in Nat,
         \A id \in S : F[id] \in Nat /\ F[id] <= b
  PROVE  Largest({F[id] : id \in S}) <= b
<1> DEFINE V == {F[id] : id \in S}
<1>1. IsFiniteSet(V)
  BY ValuesFinite
<1>2. V \subseteq Nat /\ \A v \in V : v <= b
  OBVIOUS
<1> HIDE DEF V
<1>3. Largest(V) \in V \cup {0}
  BY <1>1, <1>2, LargestOf
<1> QED
  BY <1>2, <1>3 DEF V

\* The totals of the end of a run, and the counts of its streams.
LEMMA SummaryFollows ==
  ASSUME Truthful, Conserved, Reconciled, Watched
  PROVE  SummaryReconciles
<1>0. /\ Cores /\ IntervalHolds /\ Snd!Ledger /\ Counted /\ Timed /\ Reported
      /\ RUN_MS \in Nat /\ RUN_MS - 1 \in Nat
  BY SystemAssumption DEF Truthful, SnapshotsOK, Watched
<1>1. ASSUME NEW s \in Snd!Stream
      PROVE  /\ sc[s].published = snd_streams[s].latest_seq
             /\ sc[s].applied <= Cardinality({q \in 1 .. sc[s].published : <<s, q>> \in sent})
             /\ sc[s].applied + sc[s].stale_dropped <= sc[s].sent
             /\ sc[s].applied > 0 <=> Held(s) > 0
  <2> DEFINE L == SentUpTo(s, Held(s))
             H == {q \in 1 .. sc[s].published : <<s, q>> \in sent}
  <2>1. CountedStream(s) /\ sc[s] \in StreamCounts
    BY <1>0 DEF Counted
  <2>2. /\ sc[s].published \in Nat /\ sc[s].applied \in Nat
        /\ sc[s].stale_dropped \in Nat /\ sc[s].sent \in Nat
    BY <2>1 DEF StreamCounts
  <2>3. Held(s) \in Nat /\ Held(s) <= sc[s].published
    <3>1. /\ Held(s) \in Nat /\ snd_streams[s].max_sent_seq \in Nat
          /\ snd_streams[s].latest_seq \in Nat
          /\ snd_streams[s].max_sent_seq <= snd_streams[s].latest_seq
      BY <1>0, Numbers DEF Numeric
    <3>2. Held(s) <= snd_streams[s].max_sent_seq
      BY <1>0 DEF IntervalHolds
    <3> QED
      BY <2>1, <3>1, <3>2 DEF CountedStream
  <2>4. L \subseteq H
    BY <2>2, <2>3 DEF SentUpTo
  <2>5. IsFiniteSet(H)
    <3>1. H \subseteq 1 .. sc[s].published
      OBVIOUS
    <3>2. IsFiniteSet(1 .. sc[s].published)
      <4> DEFINE p == sc[s].published
      <4>1. p \in Nat
        BY <2>2
      <4> HIDE DEF p
      <4>2. IsFiniteSet(1 .. p)
        BY <4>1, FS_Interval
      <4> QED
        BY <4>2 DEF p
    <3> HIDE DEF H
    <3> QED
      BY <3>1, <3>2, FS_Subset
  <2>6. Cardinality(L) <= Cardinality(H) /\ Cardinality(L) \in Nat /\ Cardinality(H) \in Nat
    <3> HIDE DEF L, H
    <3> QED
      BY <2>4, <2>5, Fewer
  <2>7. sc[s].applied <= Cardinality(H)
    <3>1. sc[s].applied <= Cardinality(L)
      BY <2>1 DEF CountedStream
    <3> HIDE DEF L, H
    <3> QED
      BY <2>2, <2>6, <3>1
  <2>8. sc[s].applied + sc[s].stale_dropped <= sc[s].sent
    <3>1. Cardinality(UnderWay(s)) \in Nat
      <4>1. IsFiniteSet(data_link)
        BY DEF Conserved, DataBooked
      <4>2. UnderWay(s) \subseteq data_link
        BY DEF UnderWay
      <4> QED
        BY <4>1, <4>2, Fewer
    <3> QED
      BY <2>1, <2>2, <3>1 DEF CountedStream
  <2> QED
    BY <2>1, <2>7, <2>8 DEF CountedStream
<1>2. SumFunction([s \in Snd!Stream |-> sc[s].sent]) = snd_stats["state_tx"]
  BY <1>0 DEF Counted
<1>3. ASSUME summary.reported
      PROVE  /\ summary.lat_n = rcv_stats["ev_delivered"]
             /\ summary.conf_n = snd_stats["events_acked"]
             /\ summary.lat_n = summary.conf_n + summary.delivered_but_unacked
             /\ summary.ev_pending_end = Cardinality(Snd!UsedSlots)
             /\ summary.conf_sum >= SumFunction([id \in Acked |-> Latency(id)]) + summary.conf_n
             /\ summary.conf_max <= RUN_MS - 1 /\ summary.lat_max <= RUN_MS - 1
  <2>1. summary = Totals
    BY <1>0, <1>3 DEF Reported, NoSummary
  <2>2. /\ Received = delivered /\ Acked \subseteq Received /\ IsFiniteSet(Received)
        /\ Cardinality(Received) = rcv_stats["ev_delivered"]
        /\ Cardinality(Acked) = snd_stats["events_acked"]
        /\ Cardinality({id \in DOMAIN outcome : outcome[id] = "PENDING"}) = Cardinality(Snd!UsedSlots)
    BY <1>0, WhatIsCounted
  <2>3. /\ \A id \in Received : Latency(id) \in Nat /\ Latency(id) <= RUN_MS - 1
        /\ \A id \in Acked : /\ Confirmation(id) \in Nat /\ Confirmation(id) <= RUN_MS - 1
                             /\ Latency(id) + 1 <= Confirmation(id)
    BY <1>0, <2>2, Durations
  <2>4. IsFiniteSet(Acked) /\ Cardinality(Acked) \in Nat
    BY <2>2, Fewer
  <2>5. Cardinality(Received) = Cardinality(Acked) + Cardinality(Unacked)
    <3> DEFINE R == Received
               K == Acked
    <3>1. Cardinality(R \ K) = Cardinality(R) - Cardinality(R \cap K)
      BY <2>2, FS_Difference
    <3>2. R \cap K = K /\ Unacked = R \ K
      BY <2>2 DEF Unacked
    <3>3. Cardinality(R) \in Nat /\ Cardinality(K) \in Nat
      BY <2>2, <2>4, FS_CardinalityType
    <3> HIDE DEF R, K
    <3>4. Cardinality(R) = Cardinality(K) + Cardinality(Unacked)
      BY <3>1, <3>2, <3>3
    <3> QED
      BY <3>4 DEF R, K
  <2>6. SumFunction([id \in Acked |-> Latency(id)]) + Cardinality(Acked)
          <= SumFunction([id \in Acked |-> Confirmation(id)])
    <3> DEFINE f == [id \in Acked |-> Latency(id)]
               h == [id \in Acked |-> Confirmation(id)]
    <3>1. /\ f \in [Acked -> Nat] /\ h \in [Acked -> Nat]
          /\ \A id \in Acked : f[id] + 1 <= h[id]
      BY <2>2, <2>3
    <3> HIDE DEF f, h
    <3>2. SumFunction(f) + Cardinality(Acked) <= SumFunction(h)
      BY <2>4, <3>1, SumOfLarger
    <3> QED
      BY <3>2 DEF f, h
  <2>7. Largest({Latency(id) : id \in Received}) <= RUN_MS - 1
    <3> DEFINE f == [id \in Received |-> Latency(id)]
               V == {f[id] : id \in Received}
    <3>1. f = [id \in Received |-> f[id]] /\ \A id \in Received : f[id] \in Nat /\ f[id] <= RUN_MS - 1
      BY <2>3
    <3>2. V = {Latency(id) : id \in Received}
      OBVIOUS
    <3> HIDE DEF f
    <3>3. Largest(V) <= RUN_MS - 1
      BY <1>0, <2>2, <3>1, LargestBounded
    <3> HIDE DEF V
    <3> QED
      BY <3>2, <3>3
  <2>8. Largest({Confirmation(id) : id \in Acked}) <= RUN_MS - 1
    <3> DEFINE f == [id \in Acked |-> Confirmation(id)]
               V == {f[id] : id \in Acked}
    <3>1. f = [id \in Acked |-> f[id]] /\ \A id \in Acked : f[id] \in Nat /\ f[id] <= RUN_MS - 1
      BY <2>3
    <3>2. V = {Confirmation(id) : id \in Acked}
      OBVIOUS
    <3> HIDE DEF f
    <3>3. Largest(V) <= RUN_MS - 1
      BY <1>0, <2>4, <3>1, LargestBounded
    <3> HIDE DEF V
    <3> QED
      BY <3>2, <3>3
  <2>9. SumFunction([id \in Acked |-> Confirmation(id)])
          >= SumFunction([id \in Acked |-> Latency(id)]) + Cardinality(Acked)
    <3>1. /\ SumFunction([id \in Acked |-> Confirmation(id)]) \in Nat
          /\ SumFunction([id \in Acked |-> Latency(id)]) \in Nat
      <4>1. /\ [id \in Acked |-> Confirmation(id)] \in [Acked -> Nat]
            /\ [id \in Acked |-> Latency(id)] \in [Acked -> Nat]
        BY <2>2, <2>3
      <4> QED
        BY <2>4, <4>1, SumIsNat
    <3> QED
      BY <2>4, <2>6, <3>1
  <2> QED
    BY <2>1, <2>2, <2>5, <2>7, <2>8, <2>9 DEF Totals
<1> QED
  BY <1>1, <1>2, <1>3 DEF SummaryReconciles

\* The counts of the streams and the summary agree with both cores: no snapshot is applied
\* that was not sent, nor twice, and an event is confirmed later than it was delivered.
THEOREM MetricsSummaryReconciles == MetricsSpec => []SummaryReconciles
  BY SummaryFollows, MetricsWatched, PTL

=============================================================================
