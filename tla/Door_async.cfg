CONSTANTS
  MaxMsgs = 1
  Timing = {}
  MotorMayFail = FALSE
  Readings = {150, 900}
  Averages = {20}
  MaxDetect = 0
  OpenWaitTime = 4
  StackResidue <- LeftOnStack
  RangingMayFail = FALSE
SPECIFICATION RunningSpec
INVARIANT TypeOK
INVARIANT OneResultPerMessage
PROPERTY DetectorInPlace
PROPERTY NobodyStuckSending
