SPECIFICATION Spec
CONSTANTS
  Absolute = {"A", "B"}
  Relative = {"rel"}
  BuiltinSlot = "%builtin"
  FuncDir = "%func"
  Cwds = {"c1", "c2"}
  Start = "c1"
  Standard <- StandardPath
  MaxPath = 2
  Name = {"a", "b"}
  Values <- SomeValues
  NoName = NoName
  MaxFrames = 2
  MaxUnits = 4
  VarNames = {"a", "r"}
  Operations <- SomeOperations
  MaxCommands = 3
  MaxLevel = 2
  MaxTraps = 2
  Interactive = TRUE
  CatchesInt = FALSE
  Modes <- AllModes
  Refusals = FALSE
  NoListing = NoListing
INVARIANTS HashAgreesWithSearch AliasesAreExact
  TrapIsInstalled CountIsExact CacheIsTruth IgnoredOnEntryStays ListsOfBothIgnore
PROPERTIES WritesReachTheirElement ReadOnlyStays
VIEW SessionView
CHECK_DEADLOCK FALSE
