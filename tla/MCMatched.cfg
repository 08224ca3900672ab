SPECIFICATION MatchedSpec
CONSTANTS
  N_STREAMS = 2
  EVENT_CAPACITY = 2
  DEDUP_WINDOW = 2
  BITS = 2
  ACK_QUEUE = 1
  HORIZON = 20
  MAX_REL = 20
  TIME_NONE = 99
  SEQ_MAX = 9
  ID_MAX = 9
  Configs <- AllConfigs
  Lifetimes <- Lives
  RUN_MS = 5
  SLOT_MS = 1
  Delays = {1, 2}
  MaxRows = 3
  Pairs <- MatrixPairs
  Ablations <- AblationPairs
  Fixtures <- LedgerFixtures
  AckEntries = {0, 2}
  LastRow = 2
INVARIANTS EventSlotsAgree AblationIdentical FixturesHold
CHECK_DEADLOCK FALSE
