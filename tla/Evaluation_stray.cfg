SPECIFICATION ESpec
CONSTANTS
  MaxEvaluations = 2
  MaxActivations = 3
  MaxLevels = 2
INVARIANT NoStrayControl
CHECK_DEADLOCK FALSE
