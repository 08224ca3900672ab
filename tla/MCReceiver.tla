----------------------------- MODULE MCReceiver -----------------------------
(***************************************************************************)
(* Receiver, bounded for TLC: the link hands over at most MaxFrames        *)
(* frames, in any order and with any repetition, while the host may step   *)
(* the receiver at any point.  Time may pass in a step that sends nothing, *)
(* so an opportunity left unused is a step that can be seen.               *)
(***************************************************************************)
EXTENDS Receiver

CONSTANT MaxFrames    \* bound on the number of frames handed over

\* Ids jump ahead by less than, exactly, and more than the word of four bits, and
\* lie below the window after a jump; odd ones are late at time 1.
Events    == {[type |-> "EVENT", id |-> k, gen |-> 0, deadline |-> 1 - (k % 2)]
                : k \in {0, 1, 2, 3, 5, 6}}
Snapshots == {[type |-> "STATE", stream |-> s, seq |-> q, gen |-> q]
                : s \in 0 .. 2, q \in {1, 2}}

\* A stream the receiver does not have, refused bytes, and a frame of the other
\* direction.
Refused   == {[type |-> "STATE", stream |-> 3, seq |-> 1, gen |-> 1],
              [type |-> "BAD", err |-> "SESSION"], [type |-> "BAD", err |-> "LEN"],
              [type |-> "ACK_EVENT", id |-> 1, flags |-> "NONE"]}

MixedFrames == Events \cup Snapshots \cup Refused

BoundedNext == Next /\ (Arrived < MaxFrames \/ UNCHANGED Arrived)
MCSpec == Init /\ [][BoundedNext]_vars
=============================================================================
