\* Every type of frame written, damaged up to twice, and read.
SPECIFICATION Spec
CONSTANTS
  BYTE = 32
  MAGIC = 17
  MAX_STREAMS = 3
  STATE_PAYLOAD = 2
  EVENT_PAYLOAD = 2
  SESSION = 37
  Frames <- TestFrames
  Caps = {13, 31}
  MaxDamage = 2
INVARIANTS ReadsWhatIsWritten
CHECK_DEADLOCK FALSE
