SPECIFICATION Spec
CONSTANTS
  MaxRows = 4
  RunBudgets = {2, 7, 99}
  TestBudgets = {1, 99}
INVARIANTS ResultHolds OneMinimal BudgetExact
PROPERTIES Terminates
CHECK_DEADLOCK FALSE
