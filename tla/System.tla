------------------------------- MODULE System -------------------------------
(***************************************************************************)
(* The two cores joined by the simulator's lossy link, host/sim.c:         *)
(* sim_run.  Each millisecond t goes through fixed phases: the workload    *)
(* rows due at t, the data frames arriving at t, the ACK frames arriving   *)
(* at t, and, when t is a slot boundary, one transmit opportunity in each  *)
(* direction; then the interval check.  A frame is lost, or arrives after  *)
(* a delay of its own, so frames overtake each other; one that would       *)
(* arrive after the end of the run is counted in transit.  The trace and   *)
(* the workload are any: losses, delays and rows are chosen freely.        *)
(***************************************************************************)
EXTENDS Frame, Integers, Sequences, FiniteSets, Functions

CONSTANTS
  N_STREAMS, EVENT_CAPACITY, DEDUP_WINDOW, BITS, ACK_QUEUE, HORIZON, MAX_REL,
  TIME_NONE, SEQ_MAX, ID_MAX,
  Configs,     \* configurations of the sender
  Lifetimes,   \* <<deadline_rel, retention_rel>> of workload events
  RUN_MS,      \* cfg->run_ms
  SLOT_MS,     \* cfg->slot_ms
  Delays,      \* link delays of a trace
  MaxRows      \* bound on the rows of the workload

VARIABLES
  cfg, snd_now, rr_next, snd_streams, events, snd_stats, outcome, sent,
  rcv_now, rcv_streams, highest_id, dedup_bits, ack_ring, ack_state_pending,
  ack_rr_next, rcv_stats, delivered,
  t,           \* simulated time
  phase,       \* where in the millisecond sim_run is
  rows,        \* workload rows taken so far
  data_link,   \* data frames under way: [sent, arrival, frame]
  ack_link,    \* ACK frames under way
  count,       \* the frame counters of sim_result_t
  ledger,      \* out->events: attempts, first transmission and first delivery per id
  calm_since   \* history: when the last row was taken or frame lost

sndVars  == <<cfg, snd_now, rr_next, snd_streams, events, snd_stats, outcome, sent>>
rcvVars  == <<rcv_now, rcv_streams, highest_id, dedup_bits, ack_ring,
              ack_state_pending, ack_rr_next, rcv_stats, delivered>>
hostVars == <<t, phase, rows, data_link, ack_link, count, ledger,
              calm_since>>
vars     == <<sndVars, rcvVars, hostVars>>

\* The cores, with their theorems.  What they are called with is up to this module's
\* Next: for them it may be any time and any frame.
Snd == INSTANCE SenderProofs
         WITH last_now <- snd_now, streams <- snd_streams, stats <- snd_stats,
              Times <- Nat, Acks <- AnyFrame
Rcv == INSTANCE ReceiverProofs
         WITH last_now <- rcv_now, streams <- rcv_streams, stats <- rcv_stats,
              Times <- Nat, Frames <- AnyFrame

\* What fl_config.h and the two inits insist on, and what sim_run checks before the
\* run.
ASSUME SystemAssumption ==
  /\ N_STREAMS \in Nat \ {0} /\ EVENT_CAPACITY \in Nat \ {0}
  /\ BITS \in Nat \ {0} /\ DEDUP_WINDOW \in 1 .. BITS /\ ACK_QUEUE \in Nat \ {0}
  /\ HORIZON \in Nat /\ MAX_REL \in Nat
  /\ TIME_NONE \in Nat /\ TIME_NONE > HORIZON + MAX_REL
  /\ SEQ_MAX \in Nat \ {0} /\ ID_MAX \in Nat \ {0}
  /\ Configs \subseteq Snd!Config
  /\ Lifetimes \subseteq Nat \X Nat
  /\ RUN_MS \in Nat \ {0} /\ RUN_MS <= HORIZON
  /\ SLOT_MS \in Nat \ {0}
  /\ Delays \subseteq 1 .. MAX_REL
  /\ MaxRows \in Nat

Tally == {"data_frames", "data_lost", "in_transit_data", "ack_frames", "ack_lost", "in_transit_ack"}

Init ==
  /\ Snd!Init
  /\ Rcv!Init
  /\ t = 0 /\ phase = "workload" /\ rows = 0
  /\ data_link = {} /\ ack_link = {}
  /\ count = [k \in Tally |-> 0]
  /\ ledger = <<>>
  /\ calm_since = 0

-----------------------------------------------------------------------------
(* The link. *)

\* The frames due now, in the order they were sent.
NextDue(link) == {m \in link : m.arrival = t /\ \A o \in link : o.arrival = t => m.sent <= o.sent}

Due(link) == NextDue(link) # {}

Bump(K) == count' = [k \in Tally |-> IF k \in K THEN count[k] + 1 ELSE count[k]]

\* An entry of the trace for one direction: the frame is lost, or takes so long.
Lost    == 0
Entries == {Lost} \cup Delays

\* What becomes of frame f handed to the link, by its entry: it is lost, it is under
\* way, or transit_push finds that it would arrive after the end of the run.
Fate(e) == IF e = Lost THEN "lost" ELSE IF t + e >= RUN_MS THEN "in_transit" ELSE "under_way"

Carried(link, f, e) ==
  IF Fate(e) = "under_way" THEN link \cup {[sent |-> t, arrival |-> t + e, frame |-> f]} ELSE link

\* Mutant: a data frame in transit is counted with the ACK frames.
DataTallyMixed(fate) == {"data_frames"} \cup (CASE fate = "lost" -> {"data_lost"}
                                                [] fate = "in_transit" -> {"in_transit_ack"}
                                                [] OTHER -> {})

\* The counters of sim_result_t one frame adds to.
DataTally(fate) == {"data_frames"} \cup (CASE fate = "lost" -> {"data_lost"}
                                           [] fate = "in_transit" -> {"in_transit_data"}
                                           [] OTHER -> {})

AckTally(fate) == {"ack_frames"} \cup (CASE fate = "lost" -> {"ack_lost"}
                                         [] fate = "in_transit" -> {"in_transit_ack"}
                                         [] OTHER -> {})

CalmAfter(fate) == calm_since' = IF fate = "lost" THEN t ELSE calm_since

-----------------------------------------------------------------------------
(* One millisecond of sim_run. *)

NewRecord == [attempts |-> 0, first_tx |-> TIME_NONE, rx_first |-> TIME_NONE,
              rx_dups |-> 0, rx_oow |-> 0]

\* A row is a snapshot of a stream, or an event with its lifetimes.
StateRows == [action : {"STATE"}, stream : Snd!Stream]
EventRows == [action : {"EVENT"}, life : Lifetimes]

\* 1. Workload rows at t, in file order.
TakeRow(row) ==
  /\ phase = "workload" /\ rows < MaxRows
  /\ IF row.action = "STATE" THEN Snd!Publish(t, row.stream) ELSE Snd!Post(t, row.life)
  /\ rows' = rows + 1
  /\ ledger' = IF Len(outcome') > Len(ledger) THEN Append(ledger, NewRecord) ELSE ledger
  /\ calm_since' = t
  /\ UNCHANGED <<t, phase, data_link, ack_link, count, rcvVars>>

WorkloadRow == \E row \in StateRows \cup EventRows : TakeRow(row)

WorkloadDone ==
  /\ phase = "workload"
  /\ phase' = "data"
  /\ UNCHANGED <<ledger, t, rows, data_link, ack_link, count, calm_since, sndVars, rcvVars>>

\* The verdict on an arriving event, entered in the ledger.
LedgerWith(f) ==
  IF f.type # "EVENT" THEN ledger
  ELSE IF Rcv!Deliverable(f) THEN [ledger EXCEPT ![f.id].rx_first = t]
  ELSE IF Rcv!Duplicate(f) THEN [ledger EXCEPT ![f.id].rx_dups = @ + 1]
  ELSE [ledger EXCEPT ![f.id].rx_oow = @ + 1]

\* 2. Data arrivals at t.
DataArrival ==
  /\ phase = "data"
  /\ \E m \in NextDue(data_link) :
       /\ Rcv!Ingest(t, m.frame)
       /\ data_link' = data_link \ {m}
       /\ ledger' = LedgerWith(m.frame)
  /\ UNCHANGED <<t, phase, rows, ack_link, count, calm_since, sndVars>>

DataDone ==
  /\ phase = "data" /\ ~ Due(data_link)
  /\ phase' = "ack"
  /\ UNCHANGED <<ledger, t, rows, data_link, ack_link, count, calm_since, sndVars, rcvVars>>

\* 3. ACK arrivals at t.
AckArrival ==
  /\ phase = "ack"
  /\ \E m \in NextDue(ack_link) :
       /\ Snd!IngestAck(t, m.frame)
       /\ ack_link' = ack_link \ {m}
  /\ UNCHANGED <<ledger, t, phase, rows, data_link, count, calm_since, rcvVars>>

AckDone ==
  /\ phase = "ack" /\ ~ Due(ack_link)
  /\ phase' = IF t % SLOT_MS = 0 THEN "forward" ELSE "check"
  /\ UNCHANGED <<ledger, t, rows, data_link, ack_link, count, calm_since, sndVars, rcvVars>>

\* Mutant: the count is read before the attempt is added.
LedgerBefore(c) ==
  IF c.kind # "EVENT" THEN {ledger}
  ELSE {[ledger EXCEPT ![c.id].attempts = events[i].attempts,
                       ![c.id].first_tx = IF @ = TIME_NONE THEN t ELSE @]
          : i \in Snd!SlotOf(events, c.id)}

\* The ledger after choice c: attempts takes sr.attempt, the count of the slot.
LedgerAfter(c) ==
  IF c.kind # "EVENT" THEN {ledger}
  ELSE {[ledger EXCEPT ![c.id].attempts = events[i].attempts + 1,
                       ![c.id].first_tx = IF @ = TIME_NONE THEN t ELSE @]
          : i \in Snd!SlotOf(events, c.id)}

\* 4. A transmit opportunity forward, then one in reverse.
ForwardOn(e) ==
  /\ phase = "forward"
  /\ Snd!TimeOk(t)
  /\ \E c \in Snd!Choices(t) :
       /\ Snd!StepWith(t, c)
       /\ ledger' \in LedgerAfter(c)
       /\ IF Snd!FramesSent(t, c) = {}
          THEN UNCHANGED <<data_link, count, calm_since>>
          ELSE \E f \in Snd!FramesSent(t, c) :
                 data_link' = Carried(data_link, f, e) /\ Bump(DataTally(Fate(e))) /\ CalmAfter(Fate(e))
  /\ phase' = "reverse"
  /\ UNCHANGED <<t, rows, ack_link, rcvVars>>

Forward == \E e \in Entries : ForwardOn(e)

\* The acknowledgement fl_receiver_step writes.
AckSent ==
  IF ack_ring # <<>> THEN {Rcv!EventAck}
  ELSE {Rcv!StateAck(s) : s \in {r \in Rcv!Stream : Rcv!NextInTurn(r)}}

ReverseOn(e) ==
  /\ phase = "reverse"
  /\ Rcv!Step(t)
  /\ IF AckSent = {}
     THEN UNCHANGED <<ack_link, count, calm_since>>
     ELSE \E f \in AckSent :
            ack_link' = Carried(ack_link, f, e) /\ Bump(AckTally(Fate(e))) /\ CalmAfter(Fate(e))
  /\ phase' = "check"
  /\ UNCHANGED <<ledger, t, rows, data_link, sndVars>>

Reverse == \E e \in Entries : ReverseOn(e)

\* 5. The interval check, which changes nothing but a counter of violations.
EndOfMs ==
  /\ phase = "check"
  /\ t' = t + 1
  /\ phase' = IF t' = RUN_MS THEN "end" ELSE "workload"
  /\ UNCHANGED <<ledger, rows, data_link, ack_link, count, calm_since, sndVars, rcvVars>>

Next ==
  \/ WorkloadRow \/ WorkloadDone
  \/ DataArrival \/ DataDone
  \/ AckArrival \/ AckDone
  \/ Forward \/ Reverse \/ EndOfMs

\* sim_run is a loop: it always takes its next step.
Spec == Init /\ [][Next]_vars /\ WF_vars(Next)

-----------------------------------------------------------------------------
(* Properties. *)

Held(s) == IF rcv_streams[s].valid THEN rcv_streams[s].seq ELSE 0

\* The interval statement (DESIGN.md 6.4, sim.c:422-430): what the receiver holds
\* of a stream is never older than what the sender knows of it and never newer
\* than what was sent, at every instant and not only where the host looks.
IntervalHolds ==
  \A s \in Snd!Stream :
    snd_streams[s].last_acked_seq <= Held(s) /\ Held(s) <= snd_streams[s].max_sent_seq

\* The sender's estimate of a stream's age never flatters: the generation time it
\* ages is no later than that of the snapshot the receiver holds, and the pair of
\* sequence number and generation time is one that was published together.
EstimateConservative ==
  \A s \in Snd!Stream :
    LET st == snd_streams[s]
    IN  st.last_acked_seq > 0 =>
          /\ st.last_acked_gen <= rcv_streams[s].gen
          /\ st.last_acked_seq = Held(s) => st.last_acked_gen = rcv_streams[s].gen

\* ACKED is truthful: the receiver has delivered every event the ledger reports as
\* acknowledged, and it delivers no event the ledger reports as rejected.
AckedWasDelivered ==
  /\ \A id \in 1 .. Len(outcome) : outcome[id] = "ACKED" => id \in delivered
  /\ \A id \in delivered : id \in 1 .. Len(outcome) /\ outcome[id] # "REJECTED_FULL"

\* Frame conservation at every instant (the host reconciles it once, at the end of
\* the run, sim.c:482-491): each frame was received, was lost, is under way and not
\* overdue, or arrives after the end.  No frame is refused: however late, or overtaken,
\* an honest ACK is never taken for an impossible one (sim.c:311, 342).
FramesConserved ==
  /\ snd_stats["event_tx"] + snd_stats["state_tx"] = count["data_frames"]
  /\ rcv_stats["frames_ok"] + count["data_lost"] + count["in_transit_data"]
       + Cardinality(data_link) = count["data_frames"]
  /\ rcv_stats["ack_tx"] = count["ack_frames"]
  /\ snd_stats["acks_ok"] + snd_stats["acks_unmatched"] + count["ack_lost"]
       + count["in_transit_ack"] + Cardinality(ack_link) = count["ack_frames"]
  /\ \A m \in data_link \cup ack_link : t <= m.arrival /\ m.arrival < RUN_MS
  /\ snd_stats["acks_impossible"] = 0 /\ snd_stats["acks_rejected_frame"] = 0
  /\ rcv_stats["frames_rejected"] = 0

\* The host's ledger reconciles with the cores at every instant (sim.c:470-480):
\* its attempts and duplicates add up to the cores' counters, the slot of a pending
\* event has the same count of attempts, and what it calls received is what the receiver delivered,
\* after the event was first transmitted.
LedgerReconciles ==
  /\ Len(ledger) = snd_stats["events_generated"]
  /\ SumFunction([id \in DOMAIN ledger |-> ledger[id].attempts]) = snd_stats["event_tx"]
  /\ SumFunction([id \in DOMAIN ledger |-> ledger[id].rx_dups]) = rcv_stats["ev_duplicate"]
  /\ \A i \in Snd!UsedSlots : ledger[events[i].id].attempts = events[i].attempts
  /\ \A id \in DOMAIN ledger :
       /\ ledger[id].rx_first # TIME_NONE <=> id \in delivered
       /\ id \in delivered => ledger[id].first_tx < ledger[id].rx_first

\* No event outlives its retention by more than the wait for the next slot.
RetentionBound ==
  phase \in {"reverse", "check"} /\ t % SLOT_MS = 0 =>
    \A i \in Snd!UsedSlots : t < events[i].retention
=============================================================================
