CONSTANTS
  g1 = g1
  s1 = s1
  NoRun = NoRun
  Goes <- OneGo
  Stops <- OneStop
  Crashes = TRUE
CHECK_DEADLOCK FALSE
SPECIFICATION FairSpec
INVARIANTS StopHolds
PROPERTIES UnsentNeverStarts StopHalts UnattendedHalts GoEnds DrivePromise
