CONSTANTS
  first = first
  second = second
  NoOrder = NoOrder
  Tables <- MCTables
  TableOf <- MCTableOf
  MaxAttempts = 2
  AcceptDuration = FALSE
  Orders <- OneOrder
  RetryablePhases <- MCRetryablePhases
  RequireOperator = TRUE
  Timed <- None
  Stops = TRUE
  Crashes = FALSE
CHECK_DEADLOCK FALSE
SPECIFICATION Spec
INVARIANTS ServerTypeOK PolicyAtMostOnce LatchedQuiet NoneForgotten QuietMeansQuiet
