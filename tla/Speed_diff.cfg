CONSTANTS
  Readings = {2, 7, 12}
  MaxReading = 12
  AverageNum = 2
  SampleNum = 3
  MaxNegative = 1
  Irregular = 15
  GateDistance = 30
  MaxPasses = 3
SPECIFICATION HSpec
INVARIANT AverageIsOfThisEstimate
