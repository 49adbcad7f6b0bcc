CONSTANTS
  p1 = p1  p2 = p2  p3 = p3  ps = ps  h1 = h1  a = a  b = b
  None = None
  Proc = {p1, p3, ps}
  Host = {h1}
  Job = {a, b}
  Members <- SimpleMembers
  JobControl = TRUE
  Trapped = {"CHLD"}
  Sent = {"INT"}
  MaxSent = 1
  MaxCommands = 3
  Faults = {"steal", "pipe", "tty"}
  Mortal = {}
SPECIFICATION Spec
INVARIANTS StatusReachesItsOwner
CHECK_DEADLOCK FALSE
