SPECIFICATION Spec
CONSTANTS
  Scripts <- SomeScripts
  Processes = {1, 2, 3, 4, 5, 6}
  Capacity = 1
  PipeBuffer = 1
  MaxFaults = 0
  Clones <- TwoClones
  Script <- PipelineScript
  Standard <- PipelineStandard
  MaxRefused = 0
  None = None
INVARIANTS NothingIsBorrowed
CHECK_DEADLOCK FALSE
