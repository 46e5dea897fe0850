CONSTANTS
  cheap = cheap
  far = far
  urgent = urgent
  NoOrder = NoOrder
  Orders <- MCOrders
  Tables <- MCTables
  Priority <- MCPriority
  CreatedAt <- MCCreatedAt
  TableOf <- MCTableOf
  Route <- MCRoute
  PhaseEnergy <- MCPhaseEnergy
  RetryablePhases <- MCRetryablePhases
  MaxAttempts = 2
  Reserve = 2
  ChargeTarget = 14
  InitialCharge = 10
  RequireOperator = FALSE
  RequireDockReturn = FALSE
CHECK_DEADLOCK FALSE
SPECIFICATION FairSpec
INVARIANTS AlwaysRestorable OneActiveMission ChargeCoversMission RestMeansEmptyQueue
PROPERTIES RefinesLifecycle MissionEnds ReleasedOrderMovesOn ComesToRest
