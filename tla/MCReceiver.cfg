SPECIFICATION MCSpec
CONSTANTS
  N_STREAMS = 3
  DEDUP_WINDOW = 3
  BITS = 4
  ACK_QUEUE = 2
  HORIZON = 2
  TIME_NONE = 9
  Times = {1, 2, 3}
  Frames <- MixedFrames
  MaxFrames = 5
INVARIANTS TypeOK AtMostOnce AcksVouch AcksAccounted
PROPERTIES ImplementsApplication OwedWaitBounded
