-------------------------- MODULE SchedulerProofs --------------------------
(***************************************************************************)
(* Theorems about module Scheduler: what a decision satisfies, for every   *)
(* preset and every view that is well formed (ViewsAssumption), however    *)
(* many events and streams it lists and whatever their times.              *)
(***************************************************************************)
EXTENDS Scheduler, PolicyProofs

\* The choice, once made, is the one answer to the view.
Answered ==
  /\ view \in Views
  /\ choice = Undecided \/ (Answer(view, choice) /\ Select(view) = {choice})

\* A decision is made once, from the view, and stands.
THEOREM SchedulerAnswers == Spec => []Answered
<1>1. Init => Answered
  BY DEF Init, Answered
<1>2. Answered /\ [Decide]_vars => Answered'
  <2> SUFFICES ASSUME Answered, [Decide]_vars PROVE Answered'
    OBVIOUS
  <2>1. CASE Decide
    <3>1. ViewOK(view)
      BY ViewsAssumption DEF Answered
    <3>2. PICK c : Select(view) = {c} /\ Answer(view, c)
      BY <3>1, SelectDetermined
    <3>3. choice' = c /\ view' = view
      BY <2>1, <3>2 DEF Decide
    <3>4. Answer(view', choice') /\ Select(view') = {choice'}
      BY <3>2, <3>3
    <3> QED
      BY <3>3, <3>4 DEF Answered
  <2>2. CASE UNCHANGED vars
    <3>1. view' = view /\ choice' = choice
      BY <2>2 DEF vars
    <3>2. /\ Answer(view, choice) <=> Answer(view', choice')
          /\ Select(view) = {choice} <=> Select(view') = {choice'}
      BY <3>1
    <3> QED
      BY <3>1, <3>2 DEF Answered, Undecided
  <2> QED
    BY <2>1, <2>2
<1> QED
  BY <1>1, <1>2, PTL DEF Spec

\* No decision yet: nothing is chosen.
LEMMA NotDecided ==
  ASSUME choice = Undecided
  PROVE  choice.kind = "UNDECIDED" /\ choice.reason = "IDLE"
  BY DEF Undecided

\* Every policy is work conserving and serves only what is eligible.
THEOREM SchedulerWorkConserving == Spec => []WorkConserving
<1>1. Answered => WorkConserving
  <2> SUFFICES ASSUME Answered PROVE WorkConserving
    OBVIOUS
  <2>1. CASE choice = Undecided
    BY <2>1, NotDecided DEF WorkConserving
  <2>2. CASE Answer(view, choice)
    <3>1. ViewOK(view)
      BY ViewsAssumption DEF Answered
    <3> QED
      BY <2>2, <3>1, AnswerInView DEF WorkConserving, Chosen, Served, Idle
  <2> QED
    BY <2>1, <2>2 DEF Answered
<1> QED
  BY <1>1, SchedulerAnswers, PTL

\* The candidate lets a state frame overtake waiting events only as its guard allows.
THEOREM SchedulerDeferObeysGuard == Spec => []DeferObeysGuard
<1>1. Answered => DeferObeysGuard
  <2> SUFFICES ASSUME Answered, choice.kind = "STATE", Undemoted(view) # {},
                      view.params.family # "FIFO"
               PROVE  MayOvertake(view)
    BY DEF DeferObeysGuard, MayOvertake
  <2>1. ViewOK(view) /\ Answer(view, choice)
    BY ViewsAssumption, NotDecided DEF Answered
  <2> QED
    BY <2>1, AnswerCases DEF Idle
<1> QED
  BY <1>1, SchedulerAnswers, PTL

\* A starvation decision serves the stream that triggered it, the one that has
\* waited longest.
THEOREM SchedulerStarvedIsServed == Spec => []StarvedIsServed
<1>1. Answered => StarvedIsServed
  <2> SUFFICES ASSUME Answered, choice.reason = "STATE_STARVATION" PROVE StarvedIsServed
    BY DEF StarvedIsServed
  <2>1. ViewOK(view) /\ Answer(view, choice)
    BY ViewsAssumption, NotDecided DEF Answered
  <2>2. PICK s \in view.streams :
          /\ choice.kind = "STATE" /\ choice.stream = s.stream
          /\ PickStarved(view) = {s} /\ Starved(view, s)
    BY <2>1, AnswerCases DEF Idle
  <2>3. \A o \in view.streams : Starved(view, o) => SinceTx(view, s) >= SinceTx(view, o)
    <3> SUFFICES ASSUME NEW o \in view.streams, Starved(view, o)
                 PROVE  SinceTx(view, s) >= SinceTx(view, o)
      OBVIOUS
    <3>1. SinceTx(view, s) \in 0 .. TIME_NONE /\ SinceTx(view, o) \in 0 .. TIME_NONE
      BY <2>1, AgesExact
    <3>2. CASE o = s
      BY <3>1, <3>2, TimeNoneAssumption
    <3>3. CASE o # s
      <4>1. s \in PickStarved(view)
        BY <2>2
      <4>2. SinceTx(view, s) > SinceTx(view, o) \/ SinceTx(view, s) = SinceTx(view, o)
        BY <3>3, <4>1 DEF PickStarved
      <4> QED
        BY <3>1, <4>2, TimeNoneAssumption
    <3> QED
      BY <3>2, <3>3
  <2>4. /\ TIME_NONE \in Nat /\ view.now \in Nat /\ view.now < TIME_NONE
        /\ view.params.state_starvation_ms \in Nat
    BY <2>1, TimeNoneAssumption DEF ViewOK
  <2>5. s.last_tx = TIME_NONE \/ view.now - s.last_tx >= view.params.state_starvation_ms
    BY <2>1, <2>2, <2>4, AgesExact DEF Starved
  <2>6. ASSUME NEW o \in view.streams, o.last_tx = TIME_NONE
        PROVE  s.last_tx = TIME_NONE
    <3>1. SinceTx(view, o) = TIME_NONE
      BY <2>1, <2>6, AgesExact
    <3>2. SinceTx(view, s) >= TIME_NONE
      BY <2>3, <3>1 DEF Starved
    <3> QED
      BY <2>1, <2>4, <3>2, AgesExact
  <2>7. ASSUME NEW o \in view.streams, s.last_tx # TIME_NONE
        PROVE  s.last_tx <= o.last_tx
    <3>1. o.last_tx # TIME_NONE
      BY <2>6, <2>7
    <3>2. /\ SinceTx(view, s) = view.now - s.last_tx /\ SinceTx(view, o) = view.now - o.last_tx
          /\ s.last_tx \in Nat /\ o.last_tx \in Nat
      BY <2>1, <2>7, <3>1, AgesExact
    <3>3. CASE Starved(view, o)
      BY <2>3, <2>4, <3>2, <3>3
    <3>4. CASE ~ Starved(view, o)
      BY <2>2, <2>4, <2>5, <2>7, <3>2, <3>4 DEF Starved
    <3> QED
      BY <3>3, <3>4
  <2> QED
    BY <2>2, <2>5, <2>6, <2>7 DEF StarvedIsServed, Served
<1> QED
  BY <1>1, SchedulerAnswers, PTL

\* No tie is left open, events leave by deadline and id, and a demoted one only when
\* nothing else waits.
THEOREM SchedulerDeadlineOrder == Spec => []DeadlineOrder
<1>1. Answered => DeadlineOrder
  <2>0. Answered /\ choice # Undecided => Select(view) = {choice}
    BY DEF Answered
  <2> SUFFICES ASSUME Answered, NEW e \in view.events, Chosen(e)
               PROVE  /\ view.params.family # "FIFO" =>
                           \A o \in view.events \ (Demoted(view) \cup {e}) :
                             e.deadline < o.deadline \/ (e.deadline = o.deadline /\ e.id < o.id)
                      /\ view.params.late_demote /\ e.deadline < view.now =>
                           view.streams = {} /\ \A o \in view.events : o.deadline < view.now
    BY <2>0 DEF DeadlineOrder
  <2>1. ViewOK(view) /\ Answer(view, choice)
    BY ViewsAssumption, NotDecided DEF Answered, Chosen
  <2>2. /\ view.events \subseteq [id : Nat, deadline : Nat, gen : Nat]
        /\ \A a, b \in view.events : a.id = b.id => a = b
        /\ view.events = Undemoted(view) \cup Demoted(view)
        /\ Undemoted(view) = view.events \ Demoted(view)
        /\ \A d \in Demoted(view) : d.deadline < view.now
    BY <2>1, DemotedDivide DEF Undemoted
  <2>3. CASE \E u \in Undemoted(view) :
               choice.id = u.id /\ (view.params.family # "FIFO" => EdfFirst(Undemoted(view)) = {u})
    <3>1. PICK u \in Undemoted(view) :
            choice.id = u.id /\ (view.params.family # "FIFO" => EdfFirst(Undemoted(view)) = {u})
      BY <2>3
    <3>2. e = u
      BY <2>2, <3>1 DEF Chosen
    <3>3. view.params.family # "FIFO" => \A o \in Undemoted(view) \ {e} : Before(e, o)
      BY <3>1, <3>2 DEF EdfFirst
    <3>4. ~ (view.params.late_demote /\ e.deadline < view.now)
      BY <3>2 DEF Undemoted, Demoted, Late
    <3> QED
      BY <2>2, <3>3, <3>4 DEF Before
  <2>4. CASE Undemoted(view) = {} /\ view.streams = {}
    BY <2>2, <2>4
  <2> QED
    BY <2>1, <2>3, <2>4, AnswerCases DEF Chosen, Idle
<1> QED
  BY <1>1, SchedulerAnswers, PTL
=============================================================================
