SPECIFICATION MetricsSpec
CONSTANTS
  N_STREAMS = 1
  EVENT_CAPACITY = 2
  DEDUP_WINDOW = 1
  BITS = 2
  ACK_QUEUE = 1
  HORIZON = 9
  MAX_REL = 9
  TIME_NONE = 99
  SEQ_MAX = 9
  ID_MAX = 9
  Configs <- RunConfigs
  Lifetimes <- OneLifetime
  RUN_MS = 5
  SLOT_MS = 1
  Delays = {1, 3}
  MaxRows = 3
  AoiThreshold = 3
INVARIANTS IntervalHolds EstimateConservative AckedWasDelivered FramesConserved
INVARIANTS LedgerReconciles RetentionBound AoiExact SummaryReconciles
CHECK_DEADLOCK FALSE
