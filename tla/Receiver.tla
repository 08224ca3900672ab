------------------------------ MODULE Receiver ------------------------------
(***************************************************************************)
(* The receiver core, core/fl_receiver.c: latest-value slots for the       *)
(* replaceable STATE streams, a bounded bitmap that tells new EVENT ids    *)
(* from duplicates, and the bounded reverse queue of acknowledgements.     *)
(* One action per outcome of fl_receiver_ingest and fl_receiver_step.      *)
(*                                                                         *)
(* A call made beyond the horizon or with a time that runs backwards       *)
(* returns an error and changes nothing, so it is a stuttering step: every *)
(* action has the conjunct TimeOk(now).                                    *)
(***************************************************************************)
EXTENDS Frame, Integers, Sequences, FiniteSets

CONSTANTS
  N_STREAMS,     \* n_streams given to fl_receiver_init
  DEDUP_WINDOW,  \* FL_RX_DEDUP_WINDOW
  BITS,          \* width of dedup_bits, 64 in the code
  ACK_QUEUE,     \* FL_RX_ACK_QUEUE
  HORIZON,       \* FL_TIME_HORIZON_MS
  TIME_NONE,     \* FL_TIME_NONE
  Times,         \* the values of `now' the host may pass
  Frames         \* the frames the link may hand over

Stream == 0 .. N_STREAMS - 1

ASSUME ReceiverAssumption ==
  /\ N_STREAMS \in Nat \ {0}
  /\ BITS \in Nat \ {0}
  /\ DEDUP_WINDOW \in 1 .. BITS
  /\ ACK_QUEUE \in Nat \ {0}
  /\ HORIZON \in Nat
  /\ TIME_NONE \in Nat /\ TIME_NONE > HORIZON
  /\ Times \subseteq Nat
  /\ Frames \subseteq AnyFrame

VARIABLES
  last_now,           \* time of the last accepted call, or TIME_NONE
  streams,            \* what the application holds of each stream
  highest_id,         \* largest event id delivered, 0 = none
  dedup_bits,         \* positions set in the bitmap: k stands for highest_id - k
  ack_ring,           \* event ACKs waiting, oldest first
  ack_state_pending,  \* streams that owe an ACK_STATE
  ack_rr_next,        \* where the round robin over those streams resumes
  stats,              \* fl_receiver_stats_t
  delivered           \* history: ids handed to the application

vars == <<last_now, streams, highest_id, dedup_bits, ack_ring,
          ack_state_pending, ack_rr_next, stats, delivered>>

Counter == {"frames_ok", "frames_rejected", "session_mismatch",
            "state_applied", "state_stale_dropped",
            "ev_delivered", "ev_on_time", "ev_late", "ev_duplicate",
            "ev_out_of_window", "ack_event_dropped", "ack_state_coalesced",
            "ack_tx"}

Init ==
  /\ last_now = TIME_NONE
  /\ streams = [s \in Stream |-> [valid |-> FALSE, seq |-> 0, gen |-> 0]]
  /\ highest_id = 0
  /\ dedup_bits = {}
  /\ ack_ring = <<>>
  /\ ack_state_pending = {}
  /\ ack_rr_next = 0
  /\ stats = [c \in Counter |-> 0]
  /\ delivered = {}

-----------------------------------------------------------------------------
(* Helpers. *)

\* check_time accepts the call and remembers its time.
TimeOk(now) ==
  /\ now <= HORIZON
  /\ last_now = TIME_NONE \/ now >= last_now
  /\ last_now' = now

Count(C) == stats' = [c \in Counter |-> IF c \in C THEN stats[c] + 1 ELSE stats[c]]

RingFull == Len(ack_ring) >= ACK_QUEUE

\* Mutant: the last entry of the ring is never used, and the loss not counted.
QueueEventAckEarly(id, flags) ==
  ack_ring' = IF Len(ack_ring) >= ACK_QUEUE - 1 THEN ack_ring
              ELSE Append(ack_ring, [id |-> id, flags |-> flags])

\* queue_event_ack: a full ring drops the acknowledgement (and counts it).
QueueEventAck(id, flags) ==
  ack_ring' = IF RingFull THEN ack_ring
              ELSE Append(ack_ring, [id |-> id, flags |-> flags])

EventAckDropped == IF RingFull THEN {"ack_event_dropped"} ELSE {}

\* queue_state_ack: one flag per stream, so a second request coalesces.
QueueStateAck(s) == ack_state_pending' = ack_state_pending \cup {s}

StateAckCoalesced(s) == IF s \in ack_state_pending THEN {"ack_state_coalesced"} ELSE {}

\* Mutant: bits past the word's width are kept.
ShiftLeftUntruncated(bits, n) == {d + n : d \in bits}

\* dedup_bits <<= shift; bits at or past the word's width fall off the end.
ShiftLeft(bits, n) == {d \in 0 .. BITS - 1 : d >= n /\ d - n \in bits}

\* on_time: the deadline itself is still on time.
OnTime(now, f) == now <= f.deadline

-----------------------------------------------------------------------------
(* fl_receiver_ingest. *)

\* Bytes the decoder refuses: counted, and nothing else.
IngestBad(now, f) ==
  /\ f.type = "BAD"
  /\ TimeOk(now)
  /\ Count(IF f.err = "SESSION" THEN {"session_mismatch"} ELSE {"frames_rejected"})
  /\ UNCHANGED <<streams, highest_id, dedup_bits, ack_ring, ack_state_pending,
                 ack_rr_next, delivered>>

\* Well-formed frames this end does not accept: an ACK frame, a stream it does
\* not have, or the reserved event id 0.
Refusable(f) ==
  \/ f.type \in {"ACK_STATE", "ACK_EVENT"}
  \/ f.type = "STATE" /\ f.stream \notin Stream
  \/ f.type = "EVENT" /\ f.id = 0

IngestRefused(now, f) ==
  /\ Refusable(f)
  /\ TimeOk(now)
  /\ Count({"frames_rejected"})
  /\ UNCHANGED <<streams, highest_id, dedup_bits, ack_ring, ack_state_pending,
                 ack_rr_next, delivered>>

\* Mutant: any snapshot other than the one held is applied.
NewerIfDifferent(f) == ~ streams[f.stream].valid \/ f.seq # streams[f.stream].seq

\* A snapshot is applied when the stream holds none or an older one.
Newer(f) == ~ streams[f.stream].valid \/ f.seq > streams[f.stream].seq

IngestState(now, f) ==
  /\ f.type = "STATE"
  /\ f.stream \in Stream
  /\ TimeOk(now)
  /\ streams' = IF Newer(f)
                THEN [streams EXCEPT ![f.stream] =
                        [valid |-> TRUE, seq |-> f.seq, gen |-> f.gen]]
                ELSE streams
  /\ QueueStateAck(f.stream)
  /\ Count({"frames_ok", IF Newer(f) THEN "state_applied" ELSE "state_stale_dropped"}
             \cup StateAckCoalesced(f.stream))
  /\ UNCHANGED <<highest_id, dedup_bits, ack_ring, ack_rr_next, delivered>>

\* Mutant: the window has no lower end.
InWindowUnbounded(f) == f.id <= highest_id

\* The three verdicts on an event id.
Ahead(f)       == f.id > highest_id
InWindow(f)    == f.id <= highest_id /\ highest_id - f.id < DEDUP_WINDOW
Seen(f)        == highest_id - f.id \in dedup_bits
Deliverable(f) == Ahead(f) \/ (InWindow(f) /\ ~ Seen(f))
Duplicate(f)   == InWindow(f) /\ Seen(f)

\* Mutant: an id filled in behind the highest leaves no bit.
RecordForgetful(f) ==
  IF f.id > highest_id
  THEN /\ dedup_bits' = ShiftLeft(dedup_bits, f.id - highest_id) \cup {0}
       /\ highest_id' = f.id
  ELSE UNCHANGED <<dedup_bits, highest_id>>

\* The bitmap and highest_id after the id is recorded as delivered.
Record(f) ==
  IF Ahead(f)
  THEN /\ dedup_bits' = ShiftLeft(dedup_bits, f.id - highest_id) \cup {0}
       /\ highest_id' = f.id
  ELSE /\ dedup_bits' = dedup_bits \cup {highest_id - f.id}
       /\ UNCHANGED highest_id

IngestNewEvent(now, f) ==
  /\ f.type = "EVENT" /\ f.id # 0
  /\ Deliverable(f)
  /\ TimeOk(now)
  /\ Record(f)
  /\ delivered' = delivered \cup {f.id}
  /\ QueueEventAck(f.id, "NONE")
  /\ Count({"frames_ok", "ev_delivered", IF OnTime(now, f) THEN "ev_on_time" ELSE "ev_late"}
             \cup EventAckDropped)
  /\ UNCHANGED <<streams, ack_state_pending, ack_rr_next>>

IngestDuplicate(now, f) ==
  /\ f.type = "EVENT" /\ f.id # 0
  /\ Duplicate(f)
  /\ TimeOk(now)
  /\ QueueEventAck(f.id, "DUPLICATE")
  /\ Count({"frames_ok", "ev_duplicate"} \cup EventAckDropped)
  /\ UNCHANGED <<streams, highest_id, dedup_bits, ack_state_pending, ack_rr_next,
                 delivered>>

\* Mutant: an id too old to judge is acknowledged as a duplicate.
IngestOutOfWindowAcked(now, f) ==
  /\ f.type = "EVENT" /\ f.id # 0
  /\ ~ Deliverable(f) /\ ~ Duplicate(f)
  /\ TimeOk(now)
  /\ QueueEventAck(f.id, "DUPLICATE")
  /\ Count({"frames_ok", "ev_duplicate"} \cup EventAckDropped)
  /\ UNCHANGED <<streams, highest_id, dedup_bits, ack_state_pending, ack_rr_next, delivered>>

\* Too old to tell: neither delivered nor acknowledged.
IngestOutOfWindow(now, f) ==
  /\ f.type = "EVENT" /\ f.id # 0
  /\ ~ Deliverable(f) /\ ~ Duplicate(f)
  /\ TimeOk(now)
  /\ Count({"frames_ok", "ev_out_of_window"})
  /\ UNCHANGED <<streams, highest_id, dedup_bits, ack_ring, ack_state_pending,
                 ack_rr_next, delivered>>

Ingest(now, f) ==
  \/ IngestBad(now, f)
  \/ IngestRefused(now, f)
  \/ IngestState(now, f)
  \/ IngestNewEvent(now, f)
  \/ IngestDuplicate(now, f)
  \/ IngestOutOfWindow(now, f)

-----------------------------------------------------------------------------
(* fl_receiver_step: at most one acknowledgement per reverse opportunity.   *)

\* Distance of a stream from the round-robin cursor.
RrDistance(s) == (s - ack_rr_next + N_STREAMS) % N_STREAMS

\* The stream whose ACK_STATE is sent next.
NextInTurn(s) ==
  /\ s \in ack_state_pending
  /\ \A o \in ack_state_pending : RrDistance(s) <= RrDistance(o)

EventAck == [type |-> "ACK_EVENT", id |-> Head(ack_ring).id, flags |-> Head(ack_ring).flags]

\* Built when it is sent, so it reports what the stream holds at that moment.
StateAck(s) == [type |-> "ACK_STATE", stream |-> s,
                seq |-> IF streams[s].valid THEN streams[s].seq ELSE 0,
                gen |-> IF streams[s].valid THEN streams[s].gen ELSE 0]

StepEventAck(now) ==
  /\ ack_ring # <<>>
  /\ TimeOk(now)
  /\ ack_ring' = Tail(ack_ring)
  /\ Count({"ack_tx"})
  /\ UNCHANGED <<streams, highest_id, dedup_bits, ack_state_pending, ack_rr_next,
                 delivered>>

StepStateAck(now, s) ==
  /\ ack_ring = <<>>
  /\ NextInTurn(s)
  /\ TimeOk(now)
  /\ ack_state_pending' = ack_state_pending \ {s}
  /\ ack_rr_next' = (s + 1) % N_STREAMS
  /\ Count({"ack_tx"})
  /\ UNCHANGED <<streams, highest_id, dedup_bits, ack_ring, delivered>>

StepIdle(now) ==
  /\ ack_ring = <<>> /\ ack_state_pending = {}
  /\ TimeOk(now)
  /\ UNCHANGED <<streams, highest_id, dedup_bits, ack_ring, ack_state_pending,
                 ack_rr_next, stats, delivered>>

\* Mutant: the search stops at the last stream and does not wrap around.
StepNoWrap(now) ==
  \/ StepEventAck(now)
  \/ \E s \in Stream : s >= ack_rr_next /\ StepStateAck(now, s)
  \/ /\ ack_ring = <<>> /\ \A s \in ack_state_pending : s < ack_rr_next
     /\ TimeOk(now)
     /\ UNCHANGED <<streams, highest_id, dedup_bits, ack_ring, ack_state_pending,
                    ack_rr_next, stats, delivered>>

Step(now) ==
  \/ StepEventAck(now)
  \/ \E s \in Stream : StepStateAck(now, s)
  \/ StepIdle(now)

Next ==
  \E now \in Times :
    \/ \E f \in Frames : Ingest(now, f)
    \/ Step(now)

Spec == Init /\ [][Next]_vars

-----------------------------------------------------------------------------
(* Properties. *)

AckEntry == [id : Nat \ {0}, flags : {"NONE", "DUPLICATE"}]

\* Types of the receiver's fields (fl_receiver_t); the ring never outgrows
\* FL_RX_ACK_QUEUE.
TypeOK ==
  /\ last_now \in Nat
  /\ streams \in [Stream -> [valid : BOOLEAN, seq : Nat, gen : Nat]]
  /\ highest_id \in Nat
  /\ dedup_bits \subseteq 0 .. BITS - 1
  /\ ack_ring \in Seq(AckEntry) /\ Len(ack_ring) <= ACK_QUEUE
  /\ ack_state_pending \subseteq Stream
  /\ ack_rr_next \in Stream
  /\ stats \in [Counter -> Nat]
  /\ delivered \subseteq Nat \ {0}

\* The bitmap is exact: position d is set precisely when the id it stands for
\* has been delivered, across every shift, reordering and jump ahead
\* (fl_receiver.c:148-170).
BitmapExact ==
  /\ \A id \in delivered : id <= highest_id
  /\ \A d \in 0 .. BITS - 1 :
       d \in dedup_bits <=> d < highest_id /\ highest_id - d \in delivered

\* No event id reaches the application twice: ev_delivered counts deliveries,
\* delivered holds the distinct ids (DESIGN.md 7.2, "no duplicate application
\* event").
AtMostOnce == IsFiniteSet(delivered) /\ Cardinality(delivered) = stats["ev_delivered"]

\* Nothing is vouched for that was not received: every queued event ACK names a
\* delivered id, every owed state ACK has a snapshot behind it.  An id that was
\* refused as out of window is never acknowledged unless delivered before.
AcksVouch ==
  /\ \A i \in 1 .. Len(ack_ring) : ack_ring[i].id \in delivered
  /\ \A s \in ack_state_pending : streams[s].valid

\* Every data frame that asks for an acknowledgement gets exactly one fate:
\* sent, still queued, dropped from a full ring, or merged into an owed one.
AcksAccounted ==
  stats["ev_delivered"] + stats["ev_duplicate"]
      + stats["state_applied"] + stats["state_stale_dropped"]
    = stats["ack_tx"] + stats["ack_event_dropped"] + stats["ack_state_coalesced"]
        + Len(ack_ring) + Cardinality(ack_state_pending)

\* The reverse opportunities stream s still waits for at most, if no event arrives.
Wait(s) == Len(ack_ring) + RrDistance(s)

Arrived == stats["frames_ok"] + stats["frames_rejected"] + stats["session_mismatch"]

\* Event ACKs queued so far, and acknowledgements sent so far.
EventAcksQueued == stats["ev_delivered"] + stats["ev_duplicate"] - stats["ack_event_dropped"]
AcksSent        == stats["ack_tx"]

WaitRunsDown ==
  /\ ack_state_pending # {} /\ Arrived' = Arrived => AcksSent' = AcksSent + 1
  /\ \A s \in ack_state_pending \cap ack_state_pending' :
       Wait(s)' + AcksSent' - AcksSent <= Wait(s) + EventAcksQueued' - EventAcksQueued

\* A stream that owes an ACK_STATE may be starved by events, whose ACKs always go first,
\* and by nothing else (fl_receiver.c:211-243).  While it owes one, every opportunity
\* sends something and takes one off its wait, and an arrival adds one only if an event
\* ACK was queued.  So at most ACK_QUEUE + N_STREAMS - 1 opportunities, and one for each
\* event ACK queued meanwhile, pass before the one that sends it, however frames keep
\* arriving, and no other stream is served twice before it.
OwedWaitBounded == [][WaitRunsDown]_vars

-----------------------------------------------------------------------------
(* What the application behind the receiver may rely on. *)

App == INSTANCE Application
         WITH held <- [s \in Stream |-> IF streams[s].valid THEN streams[s].seq ELSE -1],
              got <- delivered,
              deliveries <- stats["ev_delivered"]

\* The receiver implements the contract of module Application: snapshots only
\* move forward and each event id is handed over at most once.
ImplementsApplication == App!Spec
=============================================================================
