SPECIFICATION MCSpec
CONSTANTS
  MaxSlots = 2
  GrowBy = 1
  MaxProcs = 2
  Faults <- AllFaults
  NoJob = NoJob
  N = 2
  INT = 1
  Interactive = TRUE
  MaxRaise = 2
  Conditions <- OnlyDebug
  Outcomes <- AllOutcomes
  None = None
INVARIANTS
  OrderIsLive SnapshotStaysLive ReportedStatusExists StoppedRankFirst
  ContextIsInnermost TrapsKeepStatus
PROPERTIES
  ExitWasWarned InterruptOnlyUntrapped
CHECK_DEADLOCK FALSE
