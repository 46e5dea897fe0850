CONSTANTS
  Last = 3
  Attempts = 2
CHECK_DEADLOCK FALSE
SPECIFICATION FairSpec
INVARIANTS GuardedMotion LeftSafe
PROPERTIES OneGoalAtATime StopEndsMotion
