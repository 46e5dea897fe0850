CONSTANTS
  first = first
  second = second
  NoOrder = NoOrder
  Tables <- MCTables
  TableOf <- MCTableOf
  MaxAttempts = 2
  AcceptDuration = FALSE
  Orders <- OneOrder
  RetryablePhases <- NoRetry
  RequireOperator = FALSE
  Timed <- BothPolicies
  Stops = FALSE
  Crashes = TRUE
CHECK_DEADLOCK FALSE
SPECIFICATION FairSpec
PROPERTIES WorkerReturns
