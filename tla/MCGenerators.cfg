SPECIFICATION Spec
CONSTANTS
  ScenarioNames <- AllScenarios
  EVENT_CAPACITY = 8
  MAX_STREAMS = 8
  HORIZON = 2147483647
  MAX_REL = 1073741824
  Edge = 2
INVARIANTS RowsAccepted AppointmentsKept
CHECK_DEADLOCK FALSE
