---------------------------- MODULE PolicyProofs ----------------------------
(***************************************************************************)
(* Lemmas about the operators of module Policy, for every view the sender  *)
(* may hand over: each ranking has exactly one winner, so a decision is    *)
(* determined by the view, and it serves something that is in the view.    *)
(***************************************************************************)
EXTENDS Policy, DataProofs

-----------------------------------------------------------------------------
(* Arithmetic of the counters and cursors. *)

\* Unsigned subtraction is exact as long as the result is not negative.
LEMMA ModSmall ==
  ASSUME NEW n \in Nat \ {0}, NEW x \in Int, 0 <= x, x < n
  PROVE  x % n = x
  BY SMT

\* One wrap of a cursor.
LEMMA ModWrap ==
  ASSUME NEW n \in Nat \ {0}, NEW x \in Int, n <= x, x < 2 * n
  PROVE  x % n = x - n
  BY SMT

\* The winners of a ranking by a key, the lowest number on a tie.
Ranked(S, key, num) ==
  {s \in S : \A o \in S \ {s} : key[s] < key[o] \/ (key[s] = key[o] /\ num[s] < num[o])}

\* Such a ranking has exactly one winner.
LEMMA OneFirst ==
  ASSUME NEW S, S # {},
         NEW key \in [S -> Nat], NEW num \in [S -> Nat],
         \A a, b \in S : num[a] = num[b] => a = b
  PROVE  \E w \in S : Ranked(S, key, num) = {w}
<1>1. PICK k \in {key[s] : s \in S} : \A n \in {key[s] : s \in S} : k <= n
  <2>1. {key[s] : s \in S} \subseteq Nat /\ {key[s] : s \in S} # {}
    OBVIOUS
  <2> QED
    BY <2>1, NatMin
<1>2. PICK m \in {num[s] : s \in {t \in S : key[t] = k}} :
        \A n \in {num[s] : s \in {t \in S : key[t] = k}} : m <= n
  <2>1. /\ {num[s] : s \in {t \in S : key[t] = k}} \subseteq Nat
        /\ {num[s] : s \in {t \in S : key[t] = k}} # {}
    BY <1>1
  <2> QED
    BY <2>1, NatMin
<1>3. PICK w \in S : key[w] = k /\ num[w] = m
  BY <1>2
<1>4. \A o \in S \ {w} : key[w] < key[o] \/ (key[w] = key[o] /\ num[w] < num[o])
  <2> SUFFICES ASSUME NEW o \in S \ {w}
               PROVE  key[w] < key[o] \/ (key[w] = key[o] /\ num[w] < num[o])
    OBVIOUS
  <2>1. key[w] <= key[o] /\ key[w] \in Nat /\ key[o] \in Nat
    BY <1>1, <1>3
  <2>2. ASSUME key[o] = key[w] PROVE num[w] < num[o]
    <3>1. num[w] <= num[o]
      BY <1>2, <1>3, <2>2
    <3>2. num[w] # num[o]
      OBVIOUS
    <3> QED
      BY <3>1, <3>2
  <2> QED
    BY <2>1, <2>2
<1>5. \A s \in S \ {w} :
        ~ (key[s] < key[w] \/ (key[s] = key[w] /\ num[s] < num[w]))
  BY <1>4
<1> QED
  BY <1>4, <1>5 DEF Ranked

-----------------------------------------------------------------------------
(* Every ranking has one winner. *)

\* Events by deadline, then id.
LEMMA EdfFirstOne ==
  ASSUME NEW E, E # {}, E \subseteq [id : Nat, deadline : Nat, gen : Nat],
         \A a, b \in E : a.id = b.id => a = b
  PROVE  \E w \in E : EdfFirst(E) = {w}
<1> DEFINE S == E
           key == [e \in S |-> e.deadline]
           num == [e \in S |-> e.id]
<1>1. key \in [S -> Nat] /\ num \in [S -> Nat] /\ \A a, b \in S : num[a] = num[b] => a = b
  OBVIOUS
<1>2. PICK w \in S : Ranked(S, key, num) = {w}
  <2> HIDE DEF key, num, S
  <2>1. S # {}
    BY DEF S
  <2> QED
    BY <1>1, <2>1, OneFirst
<1>3. EdfFirst(E) = Ranked(S, key, num)
  BY DEF Ranked, EdfFirst, Before
<1> QED
  BY <1>2, <1>3

\* Events by generation, then id.
LEMMA FifoEventOne ==
  ASSUME NEW v, ViewOK(v), Undemoted(v) # {}
  PROVE  \E w \in Undemoted(v) : FifoEvent(v) = {w}
<1> DEFINE E == Undemoted(v)
           key == [e \in E |-> e.gen]
           num == [e \in E |-> e.id]
<1>1. key \in [E -> Nat] /\ num \in [E -> Nat] /\ \A a, b \in E : num[a] = num[b] => a = b
  BY DEF ViewOK, Undemoted
<1>2. PICK w \in E : Ranked(E, key, num) = {w}
  <2> HIDE DEF key, num, E
  <2>1. E # {}
    BY DEF E
  <2> QED
    BY <1>1, <2>1, OneFirst
<1>3. FifoEvent(v) = Ranked(E, key, num)
  BY DEF Ranked, FifoEvent
<1> QED
  BY <1>2, <1>3

\* Streams by generation of their snapshot, then number.
LEMMA FifoStreamOne ==
  ASSUME NEW v, ViewOK(v), v.streams # {}
  PROVE  \E w \in v.streams : FifoStream(v) = {w}
<1> DEFINE S == v.streams
           key == [s \in S |-> s.latest_gen]
           num == [s \in S |-> s.stream]
<1>1. key \in [S -> Nat] /\ num \in [S -> Nat] /\ \A a, b \in S : num[a] = num[b] => a = b
  BY DEF ViewOK
<1>2. PICK w \in S : Ranked(S, key, num) = {w}
  <2> HIDE DEF key, num, S
  <2>1. S # {}
    BY DEF S
  <2> QED
    BY <1>1, <2>1, OneFirst
<1>3. FifoStream(v) = Ranked(S, key, num)
  BY DEF Ranked, FifoStream
<1> QED
  BY <1>2, <1>3

\* The ages a policy ranks by do not wrap: a time the view holds is TIME_NONE or
\* not in the future.
LEMMA AgesExact ==
  ASSUME NEW v, ViewOK(v), NEW s \in v.streams
  PROVE  /\ EstAoi(v, s) \in 0 .. TIME_NONE /\ SinceTx(v, s) \in 0 .. TIME_NONE
         /\ s.last_tx # TIME_NONE => SinceTx(v, s) = v.now - s.last_tx /\ SinceTx(v, s) < TIME_NONE
         /\ s.acked_gen # TIME_NONE => EstAoi(v, s) = v.now - s.acked_gen /\ EstAoi(v, s) < TIME_NONE
         /\ s.last_tx = TIME_NONE => SinceTx(v, s) = TIME_NONE
         /\ s.acked_gen = TIME_NONE => EstAoi(v, s) = TIME_NONE
         /\ s.last_tx \in Nat /\ s.acked_gen \in Nat
<1>0. TIME_NONE \in Nat /\ v.now \in Nat /\ v.now < TIME_NONE
      /\ s.last_tx \in 0 .. v.now \cup {TIME_NONE} /\ s.acked_gen \in 0 .. v.now \cup {TIME_NONE}
  BY TimeNoneAssumption DEF ViewOK
<1>1. \A t \in 0 .. v.now : Elapsed(v.now, t) = v.now - t
  <2> SUFFICES ASSUME NEW t \in 0 .. v.now PROVE Elapsed(v.now, t) = v.now - t
    OBVIOUS
  <2>1. /\ TIME_NONE + 1 \in Nat \ {0} /\ v.now - t \in Int
        /\ 0 <= v.now - t /\ v.now - t < TIME_NONE + 1
    BY <1>0
  <2> QED
    BY <2>1, ModSmall DEF Elapsed
<1> QED
  BY <1>0, <1>1 DEF EstAoi, SinceTx

\* Streams by estimated age, the largest first, then number.
LEMMA PickFreshOne ==
  ASSUME NEW v, ViewOK(v), v.streams # {}
  PROVE  \E w \in v.streams : PickFresh(v) = {w}
<1> DEFINE S == v.streams
           key == [s \in S |-> TIME_NONE - EstAoi(v, s)]
           num == [s \in S |-> s.stream]
<1>1. key \in [S -> Nat] /\ num \in [S -> Nat] /\ \A a, b \in S : num[a] = num[b] => a = b
  BY AgesExact, TimeNoneAssumption DEF ViewOK
<1>2. PICK w \in S : Ranked(S, key, num) = {w}
  <2> HIDE DEF key, num, S
  <2>1. S # {}
    BY DEF S
  <2> QED
    BY <1>1, <2>1, OneFirst
<1>3. \A s, o \in S : /\ key[s] < key[o] <=> EstAoi(v, s) > EstAoi(v, o)
                      /\ key[s] = key[o] <=> EstAoi(v, s) = EstAoi(v, o)
  BY AgesExact, TimeNoneAssumption
<1>4. PickFresh(v) = Ranked(S, key, num)
  <2> HIDE DEF key
  <2> QED
    BY <1>3 DEF Ranked, PickFresh
<1> QED
  BY <1>2, <1>4

\* Starved streams by time since a transmission, the longest first, then number.
LEMMA PickStarvedOne ==
  ASSUME NEW v, ViewOK(v), \E s \in v.streams : Starved(v, s)
  PROVE  \E w \in v.streams : Starved(v, w) /\ PickStarved(v) = {w}
<1> DEFINE S == {s \in v.streams : Starved(v, s)}
           key == [s \in S |-> TIME_NONE - SinceTx(v, s)]
           num == [s \in S |-> s.stream]
<1>1. key \in [S -> Nat] /\ num \in [S -> Nat] /\ \A a, b \in S : num[a] = num[b] => a = b
  BY AgesExact, TimeNoneAssumption DEF ViewOK
<1>2. PICK w \in S : Ranked(S, key, num) = {w}
  <2>1. S # {}
    OBVIOUS
  <2> HIDE DEF key, num, S
  <2> QED
    BY <1>1, <2>1, OneFirst
<1>3. \A s, o \in S : /\ key[s] < key[o] <=> SinceTx(v, s) > SinceTx(v, o)
                      /\ key[s] = key[o] <=> SinceTx(v, s) = SinceTx(v, o)
  BY AgesExact, TimeNoneAssumption
<1>4. PickStarved(v) = Ranked(S, key, num)
  <2> HIDE DEF key
  <2> QED
    BY <1>3 DEF Ranked, PickStarved
<1> QED
  BY <1>2, <1>4

\* The distance from the cursor, with the one wrap it may need.
LEMMA CursorDistance ==
  ASSUME NEW v, ViewOK(v), NEW s \in v.streams
  PROVE  FromCursor(v, s) = IF s.stream < v.rr_next
                            THEN s.stream - v.rr_next + v.n_streams_total
                            ELSE s.stream - v.rr_next
<1> DEFINE n == v.n_streams_total
           x == s.stream - v.rr_next + n
<1>1. n \in Nat \ {0} /\ s.stream \in 0 .. n - 1 /\ v.rr_next \in 0 .. n - 1
  BY DEF ViewOK
<1>2. CASE s.stream < v.rr_next
  <2>1. x \in Int /\ 0 <= x /\ x < n
    BY <1>1, <1>2
  <2>2. x % n = x
    <3> HIDE DEF x, n
    <3> QED
      BY <1>1, <2>1, ModSmall
  <2> QED
    BY <1>2, <2>2 DEF FromCursor
<1>3. CASE ~ (s.stream < v.rr_next)
  <2>1. x \in Int /\ n <= x /\ x < 2 * n
    BY <1>1, <1>3
  <2>2. x % n = x - n
    <3> HIDE DEF x, n
    <3> QED
      BY <1>1, <2>1, ModWrap
  <2> QED
    BY <1>1, <1>3, <2>2 DEF FromCursor
<1> QED
  BY <1>2, <1>3

\* Streams in their turn: no two are at the same distance from the cursor.
LEMMA PickRrOne ==
  ASSUME NEW v, ViewOK(v), v.streams # {}
  PROVE  \E w \in v.streams : PickRr(v) = {w}
<1> DEFINE D == {FromCursor(v, s) : s \in v.streams}
<1>1. /\ v.n_streams_total \in Nat \ {0} /\ v.rr_next \in 0 .. v.n_streams_total - 1
      /\ \A s \in v.streams : s.stream \in 0 .. v.n_streams_total - 1
      /\ \A s, o \in v.streams : s.stream = o.stream => s = o
  BY DEF ViewOK
<1>2. \A s \in v.streams : FromCursor(v, s) \in Nat
  BY <1>1, CursorDistance
<1>3. \A s, o \in v.streams : FromCursor(v, s) = FromCursor(v, o) => s = o
  BY <1>1, CursorDistance
<1>4. PICK d \in D : \A n \in D : d <= n
  <2>1. D \subseteq Nat /\ D # {}
    BY <1>2
  <2> QED
    BY <2>1, NatMin
<1>5. PICK w \in v.streams : FromCursor(v, w) = d
  BY <1>4
<1>6. \A o \in v.streams : FromCursor(v, w) <= FromCursor(v, o)
  BY <1>4, <1>5
<1>7. \A s \in PickRr(v) : s = w
  BY <1>2, <1>3, <1>6 DEF PickRr
<1> QED
  BY <1>6, <1>7 DEF PickRr

-----------------------------------------------------------------------------
(* A decision. *)

\* The demoted events and the others divide the view.
LEMMA DemotedDivide ==
  ASSUME NEW v, ViewOK(v)
  PROVE  /\ Demoted(v) \subseteq v.events /\ Undemoted(v) \subseteq v.events
         /\ v.events = Undemoted(v) \cup Demoted(v)
         /\ v.events \subseteq [id : Nat, deadline : Nat, gen : Nat]
         /\ \A a, b \in v.events : a.id = b.id => a = b
         /\ \A e \in Demoted(v) : v.params.late_demote /\ e.deadline < v.now
  BY DEF ViewOK, Demoted, Undemoted, Late

\* The one event a policy serves when one that is not demoted waits.
LEMMA ServeEventOne ==
  ASSUME NEW v, ViewOK(v), NEW r, Undemoted(v) # {}
  PROVE  \E e \in Undemoted(v) :
           EdfFirst(Undemoted(v)) = {e} /\ ServeEvent(v, r) = {EventChoice(v, e, r)}
<1>1. PICK e \in Undemoted(v) : EdfFirst(Undemoted(v)) = {e}
  <2>1. /\ Undemoted(v) \subseteq [id : Nat, deadline : Nat, gen : Nat]
        /\ \A a, b \in Undemoted(v) : a.id = b.id => a = b
    BY DemotedDivide
  <2> QED
    BY <2>1, EdfFirstOne
<1> QED
  BY <1>1 DEF ServeEvent

\* A stream overtakes waiting events that are not demoted only as the candidate's
\* guard allows.
MayOvertake(v) ==
  /\ v.params.family = "FRESH" /\ v.params.defer
  /\ ~ v.params.starvation_override => ~ AnyUrgent(v, Undemoted(v))
  /\ AnyStale(v) \/ \E s \in v.streams : Starved(v, s)

\* The reasons a family's own rules give, by the kind they serve.
EventReason == {"EVENT_EDF", "EVENT_URGENT", "EVENT_SLACK_OK", "FIFO_OLDEST"}
StateReason == {"STATE_RR", "STATE_FRESH", "STATE_STALE", "STATE_STARVATION", "FIFO_OLDEST"}

\* An event that is not demoted, chosen by a family's own rules.
EventDecision(v, e, r, C) ==
  /\ C = {EventChoice(v, e, r)}
  /\ v.params.family # "FIFO" => EdfFirst(Undemoted(v)) = {e}

\* A stream, chosen by a family's own rules.
StateDecision(v, s, r, C) ==
  /\ C = {StateChoice(s, r)}
  /\ r = "STATE_STARVATION" => PickStarved(v) = {s} /\ Starved(v, s)
  /\ Undemoted(v) # {} /\ v.params.family # "FIFO" => MayOvertake(v)

\* Exactly one event or stream, or nothing when there is nothing to choose from.
Decides(v, C) ==
  \/ C = {} /\ Undemoted(v) = {} /\ v.streams = {}
  \/ \E e \in Undemoted(v) : \E r \in EventReason : EventDecision(v, e, r, C)
  \/ \E s \in v.streams : \E r \in StateReason : StateDecision(v, s, r, C)

\* Serving the streams by a ranking that has one winner, when no event competes.
LEMMA ServeOne ==
  ASSUME NEW v, NEW W, NEW r \in {"STATE_RR", "STATE_FRESH"},
         Undemoted(v) = {}, W = {} \/ \E s \in v.streams : W = {s},
         W = {} => v.streams = {}
  PROVE  Decides(v, ServeStream(W, r))
<1>1. CASE W = {}
  BY <1>1 DEF Decides, ServeStream
<1>2. ASSUME NEW s \in v.streams, W = {s}
      PROVE  Decides(v, ServeStream(W, r))
  <2>1. r \in StateReason /\ StateDecision(v, s, r, ServeStream(W, r))
    BY <1>2 DEF StateDecision, ServeStream, StateReason
  <2> QED
    BY <2>1 DEF Decides
<1> QED
  BY <1>1, <1>2

\* Serving the earliest deadline decides, whatever reason is given.
LEMMA ServeEventDecides ==
  ASSUME NEW v, ViewOK(v), Undemoted(v) # {},
         NEW r \in {"EVENT_EDF", "EVENT_URGENT", "EVENT_SLACK_OK"}
  PROVE  Decides(v, ServeEvent(v, r))
<1>1. PICK e \in Undemoted(v) : EdfFirst(Undemoted(v)) = {e} /\ ServeEvent(v, r) = {EventChoice(v, e, r)}
  BY ServeEventOne
<1>2. EventDecision(v, e, r, ServeEvent(v, r))
  BY <1>1 DEF EventDecision
<1> QED
  BY <1>2 DEF Decides, EventReason

\* With no streams or no starved stream the guard names no winner.
LEMMA NoWinner ==
  ASSUME NEW v
  PROVE  /\ v.streams = {} => PickFresh(v) = {} /\ PickRr(v) = {} /\ FifoStream(v) = {}
         /\ PickStarved(v) # {} => \E s \in v.streams : Starved(v, s)
  BY DEF PickFresh, PickRr, FifoStream, PickStarved

\* The candidate's guard, when it may defer.
LEMMA DeferDecides ==
  ASSUME NEW v, ViewOK(v), v.params.family = "FRESH", v.params.defer,
         Undemoted(v) # {}, v.streams # {}
  PROVE  Decides(v, Defer(v))
<1> DEFINE urgent == AnyUrgent(v, Undemoted(v))
           starved == PickStarved(v) # {}
<1>1. CASE starved /\ (v.params.starvation_override \/ ~ urgent)
  <2>1. PICK s \in v.streams : Starved(v, s) /\ PickStarved(v) = {s}
    BY <1>1, NoWinner, PickStarvedOne
  <2>2. Defer(v) = {StateChoice(s, "STATE_STARVATION")}
    BY <1>1, <2>1 DEF Defer, ServeStream
  <2>3. MayOvertake(v)
    BY <1>1, <2>1 DEF MayOvertake
  <2>4. StateDecision(v, s, "STATE_STARVATION", Defer(v))
    BY <2>1, <2>2, <2>3 DEF StateDecision
  <2> QED
    BY <2>4 DEF Decides, StateReason
<1>2. CASE ~ (starved /\ (v.params.starvation_override \/ ~ urgent)) /\ urgent
  <2>1. Defer(v) = ServeEvent(v, "EVENT_URGENT")
    BY <1>2 DEF Defer
  <2> QED
    BY <2>1, ServeEventDecides
<1>3. CASE ~ (starved /\ (v.params.starvation_override \/ ~ urgent)) /\ ~ urgent /\ AnyStale(v)
  <2>1. Defer(v) = ServeStream(PickFresh(v), "STATE_STALE")
    BY <1>3 DEF Defer
  <2>2. PICK s \in v.streams : PickFresh(v) = {s}
    BY PickFreshOne
  <2>3. MayOvertake(v)
    BY <1>3 DEF MayOvertake
  <2>4. StateDecision(v, s, "STATE_STALE", Defer(v))
    BY <2>1, <2>2, <2>3 DEF StateDecision, ServeStream
  <2> QED
    BY <2>4 DEF Decides, StateReason
<1>4. CASE ~ (starved /\ (v.params.starvation_override \/ ~ urgent)) /\ ~ urgent /\ ~ AnyStale(v)
  <2>1. Defer(v) = ServeEvent(v, "EVENT_SLACK_OK")
    BY <1>4 DEF Defer
  <2> QED
    BY <2>1, ServeEventDecides
<1> QED
  BY <1>1, <1>2, <1>3, <1>4

\* First in, first out over both kinds.
LEMMA FifoDecides ==
  ASSUME NEW v, ViewOK(v), v.params.family = "FIFO"
  PROVE  Decides(v, SelectFifo(v))
<1> DEFINE due == {e \in FifoEvent(v) : \A s \in FifoStream(v) : e.gen <= s.latest_gen}
<1>1. CASE due # {}
  <2>1. Undemoted(v) # {}
    BY <1>1 DEF FifoEvent
  <2>2. PICK e \in Undemoted(v) : FifoEvent(v) = {e}
    BY <2>1, FifoEventOne
  <2>3. due = {e}
    BY <1>1, <2>2
  <2>4. SelectFifo(v) = {EventChoice(v, e, "FIFO_OLDEST")}
    <3>1. SelectFifo(v) = {EventChoice(v, x, "FIFO_OLDEST") : x \in due}
      BY <1>1 DEF SelectFifo
    <3> QED
      BY <2>3, <3>1
  <2>5. EventDecision(v, e, "FIFO_OLDEST", SelectFifo(v))
    BY <2>4 DEF EventDecision
  <2> QED
    BY <2>5 DEF Decides, EventReason
<1>2. CASE due = {}
  <2>1. SelectFifo(v) = ServeStream(FifoStream(v), "FIFO_OLDEST")
    BY <1>2 DEF SelectFifo
  <2>2. CASE v.streams = {}
    <3>1. FifoStream(v) = {}
      BY <2>2, NoWinner
    <3>2. Undemoted(v) = {}
      BY <1>2, <3>1, FifoEventOne
    <3> QED
      BY <2>1, <2>2, <3>1, <3>2 DEF Decides, ServeStream
  <2>3. CASE v.streams # {}
    <3>1. PICK s \in v.streams : FifoStream(v) = {s}
      BY <2>3, FifoStreamOne
    <3>2. StateDecision(v, s, "FIFO_OLDEST", SelectFifo(v))
      BY <2>1, <3>1 DEF StateDecision, ServeStream
    <3> QED
      BY <3>2 DEF Decides, StateReason
  <2> QED
    BY <2>2, <2>3
<1> QED
  BY <1>1, <1>2

\* Whatever the family, its own rules decide.
LEMMA FamilyDecides ==
  ASSUME NEW v, ViewOK(v)
  PROVE  Decides(v, ByFamily(v))
<1>1. v.params.family \in {"EDF_RR", "FRESH_NODEFER", "FRESH", "FIFO"}
  BY DEF ViewOK, Family
<1>2. PickRr(v) = {} \/ \E s \in v.streams : PickRr(v) = {s}
  BY NoWinner, PickRrOne
<1>3. PickRr(v) = {} => v.streams = {}
  BY PickRrOne
<1>4. PickFresh(v) = {} \/ \E s \in v.streams : PickFresh(v) = {s}
  BY NoWinner, PickFreshOne
<1>5. PickFresh(v) = {} => v.streams = {}
  BY PickFreshOne
<1>6. CASE v.params.family = "EDF_RR"
  <2>1. ByFamily(v) = SelectEdfRr(v)
    BY <1>6 DEF ByFamily
  <2>2. CASE Undemoted(v) # {}
    BY <2>1, <2>2, ServeEventDecides DEF SelectEdfRr
  <2>3. CASE Undemoted(v) = {}
    BY <2>1, <2>3, <1>2, <1>3, ServeOne DEF SelectEdfRr
  <2> QED
    BY <2>2, <2>3
<1>7. CASE v.params.family = "FRESH_NODEFER"
  <2>1. ByFamily(v) = SelectFreshNodefer(v)
    BY <1>7 DEF ByFamily
  <2>2. CASE Undemoted(v) # {}
    BY <2>1, <2>2, ServeEventDecides DEF SelectFreshNodefer
  <2>3. CASE Undemoted(v) = {}
    BY <2>1, <2>3, <1>4, <1>5, ServeOne DEF SelectFreshNodefer
  <2> QED
    BY <2>2, <2>3
<1>8. CASE v.params.family = "FRESH"
  <2>1. ByFamily(v) = SelectFresh(v)
    BY <1>8 DEF ByFamily
  <2>2. CASE Undemoted(v) # {} /\ v.streams # {} /\ v.params.defer
    BY <1>8, <2>1, <2>2, DeferDecides DEF SelectFresh
  <2>3. CASE Undemoted(v) # {} /\ ~ (v.streams # {} /\ v.params.defer)
    BY <2>1, <2>3, ServeEventDecides DEF SelectFresh
  <2>4. CASE Undemoted(v) = {}
    BY <2>1, <2>4, <1>4, <1>5, ServeOne DEF SelectFresh
  <2> QED
    BY <2>2, <2>3, <2>4
<1>9. CASE v.params.family = "FIFO"
  BY <1>9, FifoDecides DEF ByFamily
<1> QED
  BY <1>1, <1>6, <1>7, <1>8, <1>9

\* What fl_policy_select answers: a choice by the family's own rules; a demoted
\* event, if nothing else was to be had; or nothing, of an empty view.
Answer(v, c) ==
  \/ \E e \in Undemoted(v) : \E r \in EventReason : EventDecision(v, e, r, {c})
  \/ \E s \in v.streams : \E r \in StateReason : StateDecision(v, s, r, {c})
  \/ /\ Undemoted(v) = {} /\ v.streams = {}
     /\ \E e \in Demoted(v) :
          /\ c = [kind |-> "EVENT", id |-> e.id, reason |-> "EVENT_LATE_DEMOTED"]
          /\ EdfFirst(Demoted(v)) = {e}
  \/ c = Idle /\ v.events = {} /\ v.streams = {}

\* A decision is determined by the view: for every preset and every view there is
\* exactly one choice, so two runs that reach the same view choose alike.
THEOREM SelectDetermined ==
  ASSUME NEW v, ViewOK(v)
  PROVE  \E c : Select(v) = {c} /\ Answer(v, c)
<1>1. Decides(v, ByFamily(v))
  BY FamilyDecides
<1>2. CASE ByFamily(v) # {}
  <2>1. Select(v) = ByFamily(v)
    BY <1>2 DEF Select
  <2>2. ASSUME NEW e \in Undemoted(v), NEW r \in EventReason, EventDecision(v, e, r, ByFamily(v))
        PROVE  \E c : Select(v) = {c} /\ Answer(v, c)
    <3>1. Select(v) = {EventChoice(v, e, r)}
      BY <2>1, <2>2 DEF EventDecision
    <3>2. Answer(v, EventChoice(v, e, r))
      BY <2>1, <2>2, <3>1 DEF Answer
    <3> QED
      BY <3>1, <3>2
  <2>3. ASSUME NEW s \in v.streams, NEW r \in StateReason, StateDecision(v, s, r, ByFamily(v))
        PROVE  \E c : Select(v) = {c} /\ Answer(v, c)
    <3>1. Select(v) = {StateChoice(s, r)}
      BY <2>1, <2>3 DEF StateDecision
    <3>2. Answer(v, StateChoice(s, r))
      BY <2>1, <2>3, <3>1 DEF Answer
    <3> QED
      BY <3>1, <3>2
  <2> QED
    BY <1>1, <1>2, <2>2, <2>3 DEF Decides
<1>3. CASE ByFamily(v) = {} /\ Demoted(v) # {}
  <2>1. PICK e \in Demoted(v) : EdfFirst(Demoted(v)) = {e}
    <3>1. /\ Demoted(v) \subseteq [id : Nat, deadline : Nat, gen : Nat]
          /\ \A a, b \in Demoted(v) : a.id = b.id => a = b
      BY DemotedDivide
    <3> QED
      BY <1>3, <3>1, EdfFirstOne
  <2> DEFINE c == [kind |-> "EVENT", id |-> e.id, reason |-> "EVENT_LATE_DEMOTED"]
  <2>2. Select(v) = {c}
    BY <1>3, <2>1 DEF Select
  <2>3. Undemoted(v) = {} /\ v.streams = {}
    BY <1>1, <1>3 DEF Decides, EventDecision, StateDecision
  <2>4. Answer(v, c)
    BY <2>1, <2>3 DEF Answer
  <2> QED
    BY <2>2, <2>4
<1>4. CASE ByFamily(v) = {} /\ Demoted(v) = {}
  <2>1. Select(v) = {Idle}
    BY <1>4 DEF Select
  <2>2. Undemoted(v) = {} /\ v.streams = {}
    BY <1>1, <1>4 DEF Decides, EventDecision, StateDecision
  <2>3. v.events = {}
    BY <1>4, <2>2, DemotedDivide
  <2>4. Answer(v, Idle)
    BY <2>2, <2>3 DEF Answer
  <2> QED
    BY <2>1, <2>4
<1> QED
  BY <1>2, <1>3, <1>4

\* The answer taken apart: what is chosen, of what, and under which conditions.
LEMMA AnswerCases ==
  ASSUME NEW v, ViewOK(v), NEW c, Answer(v, c)
  PROVE  \/ /\ c.kind = "EVENT" /\ c.reason \notin {"STATE_STARVATION", "STATE_RR"}
            /\ \E e \in Undemoted(v) :
                 c.id = e.id /\ (v.params.family # "FIFO" => EdfFirst(Undemoted(v)) = {e})
         \/ /\ c.kind = "STATE"
            /\ \E s \in v.streams :
                 /\ c.stream = s.stream
                 /\ c.reason = "STATE_STARVATION" => PickStarved(v) = {s} /\ Starved(v, s)
            /\ Undemoted(v) # {} /\ v.params.family # "FIFO" => MayOvertake(v)
         \/ /\ c.kind = "EVENT" /\ c.reason \notin {"STATE_STARVATION", "STATE_RR"}
            /\ Undemoted(v) = {} /\ v.streams = {} /\ \E e \in Demoted(v) : c.id = e.id
         \/ c = Idle /\ v.events = {} /\ v.streams = {}
<1>1. ASSUME NEW e \in Undemoted(v), NEW r \in EventReason, EventDecision(v, e, r, {c})
      PROVE  /\ c.kind = "EVENT" /\ c.reason \notin {"STATE_STARVATION", "STATE_RR"}
             /\ c.id = e.id /\ (v.params.family # "FIFO" => EdfFirst(Undemoted(v)) = {e})
  <2>1. c = EventChoice(v, e, r)
    BY <1>1 DEF EventDecision
  <2>2. r \notin {"STATE_STARVATION", "STATE_RR"}
    BY DEF EventReason
  <2> QED
    BY <1>1, <2>1, <2>2 DEF EventDecision, EventChoice
<1>2. ASSUME NEW s \in v.streams, NEW r \in StateReason, StateDecision(v, s, r, {c})
      PROVE  /\ c.kind = "STATE" /\ c.stream = s.stream
             /\ c.reason = "STATE_STARVATION" => PickStarved(v) = {s} /\ Starved(v, s)
             /\ Undemoted(v) # {} /\ v.params.family # "FIFO" => MayOvertake(v)
  <2>1. c = StateChoice(s, r)
    BY <1>2 DEF StateDecision
  <2> QED
    BY <1>2, <2>1 DEF StateDecision, StateChoice
<1>3. ASSUME NEW e \in Demoted(v),
             c = [kind |-> "EVENT", id |-> e.id, reason |-> "EVENT_LATE_DEMOTED"]
      PROVE  /\ c.kind = "EVENT" /\ c.reason \notin {"STATE_STARVATION", "STATE_RR"}
             /\ c.id = e.id
  BY <1>3
<1> QED
  BY <1>1, <1>2, <1>3 DEF Answer

\* The choice serves an event or a stream of the view, or the view is empty.
LEMMA AnswerInView ==
  ASSUME NEW v, ViewOK(v), NEW c, Answer(v, c)
  PROVE  \/ c.kind = "EVENT" /\ c.reason # "STATE_RR" /\ \E e \in v.events : c.id = e.id
         \/ c.kind = "STATE" /\ \E s \in v.streams : c.stream = s.stream
         \/ c = Idle /\ v.events = {} /\ v.streams = {}
  BY AnswerCases, DemotedDivide
=============================================================================
