CONSTANTS
  MaxMsgs = 10
  Timing = {"prompt", "atomic_reset"}
  MotorMayFail = FALSE
  Readings = {150, 600, 900}
  Averages = {20}
  MaxDetect = 0
  OpenWaitTime = 4
  StackResidue = {}
  RangingMayFail = FALSE
SPECIFICATION FairSpec
PROPERTY DoorCloses
