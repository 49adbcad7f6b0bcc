CONSTANTS
  MaxLevel = 2
  MaxTraps = 2
  Interactive = TRUE
  CatchesInt = FALSE
  Modes <- AllModes
  Refusals = FALSE
  NoListing = NoListing
SPECIFICATION ShellsSpec
INVARIANT ListsIgnore
CHECK_DEADLOCK FALSE
