CONSTANTS
  Unit = 2
  K = 1
  H = 10
  BaselineSamples = 2
  Models = {"m1"}
  Suites = {"v1"}
  Metrics = {"json"}
  Values <- MCValues
  Gain = 3
  MaxObs = 7
SPECIFICATION Spec
INVARIANTS
  ShiftDetected
  NoFalseAlarm
PROPERTIES
  BaselineFrozen
