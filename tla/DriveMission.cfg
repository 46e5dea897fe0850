CONSTANTS
  None = None
  Legs <- WaterLegs
  Goes <- WaterGoes
CHECK_DEADLOCK FALSE
SPECIFICATION MissionFairSpec
INVARIANTS ArmsMoveWhenParked StopReachesDeparture LegsInOrder
PROPERTIES MissionEnds
