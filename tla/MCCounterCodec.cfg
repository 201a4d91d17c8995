SPECIFICATION Spec
CONSTANTS
  IntMin <- MCIntMin
  IntMax <- MCIntMax
  Precision = 4
INVARIANTS
  SmallCountersSurvive
  RestartsDoNotDrift
PROPERTY OrderSurvivesRestart
CHECK_DEADLOCK FALSE
