---------------------------- MODULE Application ----------------------------
(***************************************************************************)
(* What the receiver promises the application above it (DESIGN.md sections *)
(* 7.1 and 7.2), with no bitmap, queue, clock or frame in sight: the       *)
(* snapshot of a stream only moves forward, and an event id is handed over *)
(* at most once.  Module Receiver is shown to implement it.                *)
(***************************************************************************)
EXTENDS Integers

CONSTANT Stream       \* the streams

VARIABLES
  held,        \* sequence number the application holds per stream, -1 for none
  got,         \* event ids handed over so far
  deliveries   \* how many times an event was handed over

vars == <<held, got, deliveries>>

Init ==
  /\ held = [s \in Stream |-> -1]
  /\ got = {}
  /\ deliveries = 0

\* A newer snapshot replaces the one held.
Refresh(s) ==
  /\ held'[s] \in Nat /\ held'[s] > held[s]
  /\ held' = [held EXCEPT ![s] = held'[s]]
  /\ UNCHANGED <<got, deliveries>>

\* An event that was not handed over before is handed over.
Deliver ==
  /\ \E id \in got' \ got : id \in Nat \ {0} /\ got' = got \cup {id}
  /\ deliveries' = deliveries + 1
  /\ UNCHANGED held

Next == Deliver \/ \E s \in Stream : Refresh(s)

Spec == Init /\ [][Next]_vars
=============================================================================
