SPECIFICATION Spec
CONSTANTS
  Scripts <- SomeScripts
  Processes = {1, 2, 3, 4, 5, 6}
  Capacity = 1
  PipeBuffer = 1
  MaxFaults = 1
  Clones <- FourClones
  Script <- SubshellScript
  Standard <- SubshellStandard
  MaxRefused = 1
  None = None
INVARIANTS AnswersReachTheAsker
PROPERTIES AllEnd SignalsAreTaken
CHECK_DEADLOCK FALSE
