------------------------------- MODULE Frame -------------------------------
(***************************************************************************)
(* The frames the two ends exchange (core/fl_frame.h, core/fl_types.h), as *)
(* the records fl_frame_decode hands to a core.  Payload bytes, the kind   *)
(* and the code of an event are carried but never looked at, so they are   *)
(* left out; the byte layout is the subject of module Codec.  A run of     *)
(* bytes the decoder refuses is a "BAD" frame that carries the error.      *)
(***************************************************************************)
EXTENDS Naturals

StateFrame    == [type : {"STATE"}, stream : Nat, seq : Nat, gen : Nat]
EventFrame    == [type : {"EVENT"}, id : Nat, gen : Nat, deadline : Nat]
AckStateFrame == [type : {"ACK_STATE"}, stream : Nat, seq : Nat, gen : Nat]
AckEventFrame == [type : {"ACK_EVENT"}, id : Nat, flags : {"NONE", "DUPLICATE"}]

\* The verdicts of fl_frame_decode other than FL_OK.
DecodeError == {"LEN", "MAGIC", "TYPE", "SESSION", "FIELD"}
BadFrame    == [type : {"BAD"}, err : DecodeError]

\* Whatever fl_frame_decode can make of the bytes the link hands over.
AnyFrame ==
  StateFrame \cup EventFrame \cup AckStateFrame \cup AckEventFrame \cup BadFrame
=============================================================================
