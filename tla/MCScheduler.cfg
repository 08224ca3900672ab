SPECIFICATION Spec
CONSTANTS
  TIME_NONE = 99
  Views <- MCViews
INVARIANTS WorkConserving DeferObeysGuard StarvedIsServed DeadlineOrder
CHECK_DEADLOCK FALSE
