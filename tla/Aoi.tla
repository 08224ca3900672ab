--------------------------------- MODULE Aoi ---------------------------------
(***************************************************************************)
(* The Age of Information accumulator of the simulator, host/aoi.c: the    *)
(* age of a stream at time t is t minus the generation time of the         *)
(* snapshot held.  Each segment between two snapshots is closed in one     *)
(* piece of integer arithmetic.                                            *)
(***************************************************************************)
EXTENDS Integers

CONSTANTS
  TIME_NONE,
  Threshold    \* aoi_threshold_ms

AoiInit ==
  [defined |-> FALSE, first_apply |-> TIME_NONE, seg_start |-> 0, cur_gen |-> 0,
   area2 |-> 0, over_ms |-> 0, peak |-> 0, unknown_ms |-> 0, final_age |-> 0,
   finished |-> FALSE]

\* The time a segment of length n from age a0 to end_age is over the threshold.
OverMs(n, a0, end_age) ==
  CASE a0 >= Threshold                       -> n
    [] a0 < Threshold /\ end_age > Threshold -> end_age - Threshold
    [] OTHER                                 -> 0

\* Close [seg_start, t).
CloseSegment(a, t) ==
  LET n       == t - a.seg_start
      a0      == a.seg_start - a.cur_gen
      end_age == a0 + n
  IN  [a EXCEPT !.area2   = @ + 2 * n * a0 + n * n,
                !.peak    = IF end_age > @ THEN end_age ELSE @,
                !.over_ms = @ + OverMs(n, a0, end_age)]

Clamped(gen, t) == IF gen > t THEN t ELSE gen

\* Mutant: the new segment starts where the closed one did.
AoiApplyKeepStart(a, t, gen) ==
  IF ~ a.defined
  THEN [a EXCEPT !.defined = TRUE, !.first_apply = t, !.unknown_ms = t,
                 !.seg_start = t, !.cur_gen = Clamped(gen, t)]
  ELSE [CloseSegment(a, t) EXCEPT !.cur_gen = Clamped(gen, t)]

\* A snapshot generated at gen is applied at t.
AoiApply(a, t, gen) ==
  CASE ~ a.defined ->
         [a EXCEPT !.defined = TRUE, !.first_apply = t, !.unknown_ms = t,
                   !.seg_start = t, !.cur_gen = Clamped(gen, t)]
    [] a.defined /\ t < a.seg_start -> a
    [] OTHER -> [CloseSegment(a, t) EXCEPT !.seg_start = t, !.cur_gen = Clamped(gen, t)]

\* The run ends.
AoiFinish(a, end) ==
  CASE a.finished -> a
    [] ~ a.finished /\ ~ a.defined -> [a EXCEPT !.finished = TRUE, !.unknown_ms = end]
    [] OTHER ->
         LET closed == IF end > a.seg_start
                       THEN [CloseSegment(a, end) EXCEPT !.seg_start = end] ELSE a
         IN  [closed EXCEPT !.finished = TRUE, !.final_age = end - a.cur_gen]
=============================================================================
