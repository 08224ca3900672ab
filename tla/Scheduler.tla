------------------------------ MODULE Scheduler ------------------------------
(***************************************************************************)
(* One scheduling decision as a state machine: a view of the sender's      *)
(* ledger is put before fl_policy_select, which answers with a choice.     *)
(* The properties relate the choice to the view it was made from.          *)
(***************************************************************************)
EXTENDS Policy

CONSTANT Views      \* the views the sender may build

ASSUME ViewsAssumption == \A v \in Views : ViewOK(v)

VARIABLES view, choice

vars == <<view, choice>>

Undecided == [kind |-> "UNDECIDED", reason |-> "IDLE"]

Init == view \in Views /\ choice = Undecided

Decide ==
  /\ choice = Undecided
  /\ choice' \in Select(view)
  /\ UNCHANGED view

Spec == Init /\ [][Decide]_vars

-----------------------------------------------------------------------------
(* Properties. *)

Chosen(e) == choice.kind = "EVENT" /\ choice.id = e.id
Served(s) == choice.kind = "STATE" /\ choice.stream = s.stream

\* Every policy is work conserving and serves only what is eligible: a slot is
\* left idle exactly when the view is empty, so no event or snapshot waits while
\* the link idles, demoted events included.
WorkConserving ==
  /\ choice.kind = "NONE"  => view.events = {} /\ view.streams = {}
  /\ choice.kind = "EVENT" => \E e \in view.events : Chosen(e)
  /\ choice.kind = "STATE" => \E s \in view.streams : Served(s)

\* The candidate obeys its guard (DESIGN.md 9.3): with the override off it lets a
\* state frame overtake waiting, undemoted events only if it may defer, none of
\* those events is urgent, and some stream is starved or stale.
DeferObeysGuard ==
  (choice.kind = "STATE" /\ Undemoted(view) # {} /\ view.params.family # "FIFO")
    => /\ view.params.family = "FRESH" /\ view.params.defer
       /\ ~ view.params.starvation_override => ~ AnyUrgent(view, Undemoted(view))
       /\ AnyStale(view) \/ \E s \in view.streams : Starved(view, s)

\* A STATE_STARVATION decision serves a stream that triggered the guard, the one
\* that has waited longest (regression case of DESIGN.md 9.0, fl_policy.c:76-83).
StarvedIsServed ==
  choice.reason = "STATE_STARVATION" =>
    \E s \in view.streams :
      /\ Served(s)
      /\ s.last_tx = TIME_NONE \/ view.now - s.last_tx >= view.params.state_starvation_ms
      /\ \A o \in view.streams : o.last_tx = TIME_NONE => s.last_tx = TIME_NONE
      /\ \A o \in view.streams : s.last_tx # TIME_NONE => s.last_tx <= o.last_tx

\* The order in which frames leave, whatever else waits.  No tie is left open: of all the
\* events and streams exactly one can be chosen, so the slots of two runs are comparable.
\* A policy other than FIFO sends the event with the earliest deadline, then the lowest id,
\* of those that compete, and one that demotes late events sends a late event only when no
\* stream and no event still in time was eligible (DESIGN.md 9.0, fl_policy.c:28-72, 134-175).
DeadlineOrder ==
  /\ choice # Undecided => Select(view) = {choice}
  /\ \A e \in view.events :
       Chosen(e) =>
         /\ view.params.family # "FIFO" =>
              \A o \in view.events \ (Demoted(view) \cup {e}) :
                e.deadline < o.deadline \/ (e.deadline = o.deadline /\ e.id < o.id)
         /\ view.params.late_demote /\ e.deadline < view.now =>
              view.streams = {} /\ \A o \in view.events : o.deadline < view.now
=============================================================================
