CONSTANTS
  cheap = cheap
  far = far
  urgent = urgent
  NoOrder = NoOrder
  Orders <- MCOrders
  Tables <- MCTables
  Priority <- MCPriority
  CreatedAt <- MCCreatedAt
  TableOf <- MCTableOf
  Route <- MCRoute
  PhaseEnergy <- MCPhaseEnergy
  RetryablePhases <- MCRetryablePhases
  MaxAttempts = 2
  Reserve = 2
  ChargeTarget = 14
  InitialCharge = 10
  RequireOperator = TRUE
  RequireDockReturn = TRUE
CHECK_DEADLOCK FALSE
SPECIFICATION FairSpec
INVARIANTS ReserveKept
