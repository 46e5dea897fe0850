CONSTANTS
  Wheels <- TwoWheels
  Timeout = 1
  Capacity = 1
CHECK_DEADLOCK FALSE
SPECIFICATION FairSpec
PROPERTIES WheelsStand ReleaseStaysInBand ServoRecovers
