CONSTANTS
  MaxPresses = 3
  MaxLongs = 7
  MaxReports = 1
  MaxAnswers = 1
SPECIFICATION Spec
INVARIANTS TypeOK ResetAsked FailMeansSilent
PROPERTIES GesturesMeant ResetEnds FactoryEnds
CHECK_DEADLOCK FALSE
