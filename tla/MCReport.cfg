SPECIFICATION Spec
CONSTANTS
  N_SCENARIOS = 8
  N_SEEDS = 3
  Number <- Numbers
  NameLength <- Lengths
  Results <- SomeResults
INVARIANTS ReportHonest
CHECK_DEADLOCK FALSE
