SPECIFICATION Spec
CONSTANTS
  KnownScenarios = {"alarm", "tight"}
  KnownPolicies = {"edf_rr", "fresh_nodefer", "fresh", "fifo"}
  CheckPolicies <- Checked
  Invocations <- Commands
  MaxInvocations = 2
  MaxHead = 2
INVARIANTS TablesAreFresh VerdictCovers ComparedAreMatched LogsAsAsked
