SPECIFICATION Spec
CONSTANTS
  N_STREAMS = 1
  EVENT_CAPACITY = 2
  DEDUP_WINDOW = 1
  BITS = 2
  ACK_QUEUE = 1
  HORIZON = 9
  MAX_REL = 9
  TIME_NONE = 99
  SEQ_MAX = 9
  ID_MAX = 9
  Configs <- EagerConfig
  Lifetimes <- TwoLifetimes
  RUN_MS = 8
  SLOT_MS = 1
  Delays = {1, 2, 4}
  MaxRows = 2
  Settle = 9
PROPERTIES RefusedNeverAcked
CHECK_DEADLOCK FALSE
