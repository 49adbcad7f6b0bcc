CONSTANTS
  p1 = p1  p2 = p2  p3 = p3  ps = ps  h1 = h1  a = a  b = b
  None = None
  Proc = {p1, p2, ps}
  Host = {}
  Job = {a}
  Members <- PairMembers
  JobControl = TRUE
  Trapped = {"USR"}
  Sent = {"USR"}
  MaxSent = 1
  MaxCommands = 3
  Faults = {}
  Mortal = {p1, p2}
SPECIFICATION FairSpec
INVARIANTS NoLostWakeup InterruptedHasSignal NoLingeringZombie
PROPERTIES WaitsReturn
CHECK_DEADLOCK FALSE
