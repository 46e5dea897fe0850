CONSTANTS
  first = first
  second = second
  NoOrder = NoOrder
  Tables <- MCTables
  TableOf <- MCTableOf
  MaxAttempts = 2
  AcceptDuration = FALSE
  Orders <- TwoOrders
  RetryablePhases <- NoRetry
  RequireOperator = FALSE
  Timed <- None
  Stops = FALSE
  Crashes = FALSE
CHECK_DEADLOCK FALSE
SPECIFICATION Spec
INVARIANTS ServedByArms
PROPERTIES OutcomeEndsItsOrder
