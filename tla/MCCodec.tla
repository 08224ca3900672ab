------------------------------- MODULE MCCodec -------------------------------
(***************************************************************************)
(* The codec with bytes of 32 values and payloads of two, so that TLC's    *)
(* integers hold a field of four bytes.                                    *)
(***************************************************************************)
EXTENDS Codec

\* The edges of one, two and four bytes.
Small == {0, BYTE - 1}
Wide  == {1, BYTE, BYTE ^ 2 - 1, BYTE ^ 4 - 1}

Bodies(ty) ==
  CASE ty = "STATE"     -> [stream : {0, MAX_STREAMS - 1, MAX_STREAMS}, seq : Wide,
                            gen : {BYTE}, payload : {BYTE + 2}]
    [] ty = "EVENT"     -> [id : {BYTE}, kind : {0, RAISE, CLEAR}, code : Small,
                            gen : {BYTE ^ 3}, deadline : Wide, payload : {3 * BYTE + 1}]
    [] ty = "ACK_STATE" -> [stream : {0, MAX_STREAMS}, seq : {BYTE ^ 2}, gen : Wide]
    [] ty = "ACK_EVENT" -> [id : Wide, flags : {0, 1}]

TestFrames ==
  UNION {[type : {ty}, session : {SESSION, SESSION + BYTE}, body : Bodies(ty)] : ty \in FrameType}
  \cup [type : {"UNKNOWN"}, session : {SESSION}, body : {[id |-> 0]}]
=============================================================================
