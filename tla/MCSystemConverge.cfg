SPECIFICATION Spec
CONSTANTS
  N_STREAMS = 2
  EVENT_CAPACITY = 1
  DEDUP_WINDOW = 2
  BITS = 2
  ACK_QUEUE = 1
  HORIZON = 9
  MAX_REL = 9
  TIME_NONE = 99
  SEQ_MAX = 9
  ID_MAX = 9
  Configs <- BothConfigs
  Lifetimes <- OneLifetime
  RUN_MS = 8
  SLOT_MS = 1
  Delays = {1, 2}
  MaxRows = 2
  Settle = 7
INVARIANTS Converges
CHECK_DEADLOCK FALSE
