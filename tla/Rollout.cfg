CONSTANTS
  c1 = c1
  c2 = c2
  Clients <- MCClients
  StowConfigured = TRUE
  StartPosed <- PourOnly
  Detected <- BothPolicies
  Hooked <- PourOnly
  Timed <- PourOnly
  EndPose <- MixedEndPose
  MaxPills = 1
CHECK_DEADLOCK FALSE
SPECIFICATION FairSpec
INVARIANTS StopReachesMotion OnlyStopCutsPoses ArmsTruthful OneJobAtATime
PROPERTIES StopEndsPolicy JobAnswered
