CONSTANTS
  MaxMsgs = 10
  Timing = {"prompt", "settled"}
  MotorMayFail = FALSE
  Readings = {150, 600, 900}
  Averages = {20}
  MaxDetect = 0
  OpenWaitTime = 4
  StackResidue = {}
  RangingMayFail = FALSE
SPECIFICATION Spec
PROPERTY ResetOnlyIfUnchanged
