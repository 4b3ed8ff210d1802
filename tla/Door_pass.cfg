CONSTANTS
  MaxMsgs = 10
  Timing = {"prompt", "settled"}
  MotorMayFail = TRUE
  Readings = {30, 150, 600, 900}
  Averages = {20, 600}
  MaxDetect = 1
  OpenWaitTime = 12
  StackResidue = {}
  RangingMayFail = TRUE
SPECIFICATION Spec
INVARIANT AnswerPending
INVARIANT NoNestedDetection
INVARIANT OneAnswerPerPass
INVARIANT RequestAfterAnswer
INVARIANT OpenOnlyInPass
INVARIANT PictureBelongsToPass
PROPERTY CarriesOutPasses
CHECK_DEADLOCK FALSE
