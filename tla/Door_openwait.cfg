CONSTANTS
  MaxMsgs = 10
  Timing = {"prompt", "settled", "atomic_reset"}
  MotorMayFail = FALSE
  Readings = {30, 150, 600, 900}
  Averages = {20, 600}
  MaxDetect = 1
  OpenWaitTime = 12
  StackResidue = {}
  RangingMayFail = FALSE
SPECIFICATION Spec
INVARIANT OpenReportMeansOpen
