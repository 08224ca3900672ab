SPECIFICATION MCSpec
CONSTANTS
  N_STREAMS = 1
  EVENT_CAPACITY = 2
  HORIZON = 3
  MAX_REL = 3
  TIME_NONE = 99
  SEQ_MAX = 4
  ID_MAX = 4
  Configs <- MCConfigs
  Times = {0, 1, 2, 3, 4}
  Lifetimes <- MCLifetimes
  Acks <- MCAcks
INVARIANTS TypeOK RetryDiscipline StepNeverFaults LedgerExact KnowledgeChain
PROPERTIES OutcomesFinal
