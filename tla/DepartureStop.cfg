CONSTANTS
  g1 = g1
  s1 = s1
  NoRun = NoRun
  Goes <- OneGo
  Stops <- OneStop
  Crashes = FALSE
CHECK_DEADLOCK FALSE
SPECIFICATION Spec
PROPERTIES StopEndsGo
