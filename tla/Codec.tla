-------------------------------- MODULE Codec --------------------------------
(***************************************************************************)
(* The wire codec, core/fl_frame.c: little-endian frames of a length fixed *)
(* by their type, without a checksum.  A frame is its type, its session    *)
(* and the values of its fields; a payload is one value as wide as it has  *)
(* bytes.  One frame is written, damaged or not, and read.  (Bytes are     *)
(* damaged on real links; the simulator only loses and delays them.)       *)
(***************************************************************************)
EXTENDS Integers, Sequences, FiniteSets, FiniteSetsExt

CONSTANTS
  BYTE,            \* the number of values of a byte, 256
  MAGIC,           \* FL_FRAME_MAGIC
  MAX_STREAMS,     \* FL_MAX_STREAMS
  STATE_PAYLOAD,   \* FL_STATE_PAYLOAD_LEN
  EVENT_PAYLOAD,   \* FL_EVENT_PAYLOAD_LEN
  SESSION,         \* the session the reader expects
  Frames,          \* frames given to the encoder
  Caps,            \* sizes of the encoder's buffer
  MaxDamage        \* bound on the bytes damaged

FrameType == {"STATE", "EVENT", "ACK_STATE", "ACK_EVENT"}

\* fl_frame_size: the length of a frame of a known type.
Size == [ty \in FrameType |-> CASE ty = "STATE"     -> 14 + STATE_PAYLOAD
                                [] ty = "EVENT"     -> 19 + EVENT_PAYLOAD
                                [] ty = "ACK_STATE" -> 14
                                [] ty = "ACK_EVENT" -> 10]

\* enum fl_frame_type: the byte a type is written as.
Code == [ty \in FrameType |-> CASE ty = "STATE"     -> 1
                                [] ty = "EVENT"     -> 2
                                [] ty = "ACK_STATE" -> 3
                                [] ty = "ACK_EVENT" -> 4]

\* enum fl_event_kind
RAISE == 1
CLEAR == 2

ASSUME CodecAssumption ==
  /\ BYTE \in Nat /\ MAGIC \in 0 .. BYTE - 1
  /\ \A ty \in FrameType : Code[ty] < BYTE /\ Size[ty] < BYTE
  /\ MAX_STREAMS \in 1 .. BYTE - 1
  /\ MaxDamage \in Nat

VARIABLES
  frame,     \* the frame written
  wire,      \* its bytes
  damage,    \* bytes damaged so far
  result,    \* what fl_frame_decode makes of them: an error, and a frame if there is none
  stage      \* "write", "link", "done"

vars == <<frame, wire, damage, result, stage>>

Nothing == [err |-> "NONE"]

Init ==
  frame \in Frames /\ wire = <<>> /\ damage = 0 /\ result = Nothing /\ stage = "write"

-----------------------------------------------------------------------------
(* Bytes at an offset, little-endian. *)

Digit(v, k) == (v \div (BYTE ^ k)) % BYTE

\* A field lies at an offset and has a width: put_u16, put_u32 or a run of bytes.
At(o, w) == [at |-> o, width |-> w]

Header == [magic |-> At(0, 1), type |-> At(1, 1), session |-> At(2, 2), len |-> At(4, 1)]

\* Where the encoder writes the fields of each type.
Body(ty) ==
  CASE ty = "STATE"     -> [stream |-> At(5, 1), seq |-> At(6, 4), gen |-> At(10, 4),
                            payload |-> At(14, STATE_PAYLOAD)]
    [] ty = "EVENT"     -> [id |-> At(5, 4), kind |-> At(9, 1), code |-> At(10, 1),
                            gen |-> At(11, 4), deadline |-> At(15, 4),
                            payload |-> At(19, EVENT_PAYLOAD)]
    [] ty = "ACK_STATE" -> [stream |-> At(5, 1), seq |-> At(6, 4), gen |-> At(10, 4)]
    [] ty = "ACK_EVENT" -> [id |-> At(5, 4), flags |-> At(9, 1)]

\* Mutant: the decoder reads the deadline of an event a byte early.
ReadBodyEarly(ty) ==
  IF ty = "EVENT" THEN [Body(ty) EXCEPT !.deadline = At(14, 4)] ELSE Body(ty)

\* Where the decoder reads them.
ReadBody(ty) ==
  CASE ty = "STATE"     -> [stream |-> At(5, 1), seq |-> At(6, 4), gen |-> At(10, 4),
                            payload |-> At(14, STATE_PAYLOAD)]
    [] ty = "EVENT"     -> [id |-> At(5, 4), kind |-> At(9, 1), code |-> At(10, 1),
                            gen |-> At(11, 4), deadline |-> At(15, 4),
                            payload |-> At(19, EVENT_PAYLOAD)]
    [] ty = "ACK_STATE" -> [stream |-> At(5, 1), seq |-> At(6, 4), gen |-> At(10, 4)]
    [] ty = "ACK_EVENT" -> [id |-> At(5, 4), flags |-> At(9, 1)]

\* The byte at offset o when the fields of a layout have the values v.
ByteAt(layout, v, o) ==
  LET fld == CHOOSE x \in DOMAIN layout :
               layout[x].at <= o /\ o < layout[x].at + layout[x].width
  IN  Digit(v[fld], o - layout[fld].at)

\* The value read from the bytes b at field x of a layout.
ValueAt(layout, b, x) ==
  LET part(k) == b[layout[x].at + k + 1] * BYTE ^ k
  IN  MapThenSumSet(part, 0 .. layout[x].width - 1)

-----------------------------------------------------------------------------
(* fl_frame_encode and fl_frame_decode. *)

HeaderOf(f) == [magic |-> MAGIC, type |-> Code[f.type], session |-> f.session, len |-> Size[f.type]]

HasStream(ty) == ty \in {"STATE", "ACK_STATE"}

EncodeError(f, cap) ==
  CASE f.type \notin FrameType -> "TYPE"
    [] f.type \in FrameType /\ cap < Size[f.type] -> "LEN"
    [] OTHER -> IF HasStream(f.type) /\ f.body.stream >= MAX_STREAMS THEN "FIELD" ELSE "OK"

Encoded(f) ==
  [j \in 1 .. Size[f.type] |->
     IF j <= 5 THEN ByteAt(Header, HeaderOf(f), j - 1) ELSE ByteAt(Body(f.type), f.body, j - 1)]

TypeOf(b) == {ty \in FrameType : Code[ty] = b[2]}

\* Mutant: the declared length is not looked at.
LengthOkActual(b, ty) == Len(b) = Size[ty]

\* Mutant: the bytes supplied may be more than the frame.
LengthOkDeclared(b, ty) == b[5] = Size[ty] /\ Len(b) >= Size[ty]

LengthOk(b, ty) == b[5] = Size[ty] /\ Len(b) = Size[ty]

Decoded(b, ty) ==
  [type |-> ty, session |-> ValueAt(Header, b, "session"),
   body |-> [x \in DOMAIN ReadBody(ty) |-> ValueAt(ReadBody(ty), b, x)]]

FieldsOk(f) ==
  /\ HasStream(f.type) => f.body.stream < MAX_STREAMS
  /\ f.type = "EVENT" => f.body.kind \in {RAISE, CLEAR}

\* Nothing is read before the length that covers it has been checked.
Decode(b) ==
  IF Len(b) < 5 THEN [err |-> "LEN"]
  ELSE IF b[1] # MAGIC THEN [err |-> "MAGIC"]
  ELSE IF TypeOf(b) = {} THEN [err |-> "TYPE"]
  ELSE LET ty == CHOOSE x \in TypeOf(b) : TRUE
       IN  IF ~ LengthOk(b, ty) THEN [err |-> "LEN"]
           ELSE IF ValueAt(Header, b, "session") # SESSION THEN [err |-> "SESSION"]
           ELSE IF ~ FieldsOk(Decoded(b, ty)) THEN [err |-> "FIELD"]
           ELSE [err |-> "OK", frame |-> Decoded(b, ty)]

-----------------------------------------------------------------------------

Write ==
  /\ stage = "write"
  /\ \E cap \in Caps :
       IF EncodeError(frame, cap) = "OK"
       THEN wire' = Encoded(frame) /\ stage' = "link" /\ UNCHANGED result
       ELSE stage' = "done" /\ result' = [err |-> EncodeError(frame, cap)] /\ UNCHANGED wire
  /\ UNCHANGED <<frame, damage>>

\* A byte changed, the tail cut off, or a byte appended.
Damage ==
  /\ stage = "link" /\ damage < MaxDamage
  /\ \/ \E j \in DOMAIN wire : \E v \in {0, 1, 2, 3, 4, BYTE - 1, (wire[j] + 1) % BYTE} \ {wire[j]} :
          wire' = [wire EXCEPT ![j] = v]
     \/ \E k \in 0 .. Len(wire) - 1 : wire' = SubSeq(wire, 1, k)
     \/ wire' = Append(wire, 0)
  /\ damage' = damage + 1
  /\ UNCHANGED <<frame, result, stage>>

Read ==
  /\ stage = "link"
  /\ result' = Decode(wire)
  /\ stage' = "done"
  /\ UNCHANGED <<frame, wire, damage>>

Next == Write \/ Damage \/ Read

Spec == Init /\ [][Next]_vars

-----------------------------------------------------------------------------
(* Properties. *)

Accepted == stage = "done" /\ result.err = "OK"

\* Undamaged, every value of every field survives, and only a frame of another session
\* or with an unknown kind of event is refused.
RoundTrip ==
  stage = "done" /\ wire # <<>> /\ damage = 0 =>
    IF frame.session = SESSION /\ FieldsOk(frame)
    THEN Accepted /\ result.frame = frame
    ELSE result = [err |-> IF frame.session # SESSION THEN "SESSION" ELSE "FIELD"]

\* Nothing is ignored, and no two runs of bytes are read as one frame.
Canonical == Accepted => Encoded(result.frame) = wire

\* A frame accepted with one byte changed, cut or added has kept its type, for the
\* types have different lengths, and differs in its session or in one other field.
OneByteOneField ==
  Accepted /\ damage = 1 =>
    LET got == result.frame
    IN  /\ got.type = frame.type
        /\ \/ got.session # frame.session /\ got.body = frame.body
           \/ /\ got.session = frame.session
              /\ Cardinality({x \in DOMAIN frame.body : got.body[x] # frame.body[x]}) = 1

\* What is read is what was written: undamaged bytes give back the frame, accepted
\* bytes are the one encoding of the frame read from them whatever the damage, and one
\* damaged byte spoils one field at most (fl_frame_encode and fl_frame_decode agree).
ReadsWhatIsWritten == RoundTrip /\ Canonical /\ OneByteOneField
=============================================================================
