SPECIFICATION Spec
CONSTANTS
  MaxEvaluations = 2
  MaxActivations = 3
  MaxLevels = 2
  Files = {f}
  Terminal = tty
  Closed = closed
  Nameable = {0, 3}
  Inherited = 3
  Limit = 4
  MaxScopes = 2
  MaxList = 2
  Names = {ifs, lc}
  Fixed = {ifs}
  MaxValue = 1
  MaxCalls = 2
  MaxSaved = 2
  PrefixedDeclare = FALSE
  Shells = {s1, s2}
  Other = other
INVARIANTS
  NestingIsExact
  BufferFollowsStdin CacheFollowsValue NothingIsClobbered
PROPERTIES
  ErrexitSparesConditions RedirectionsAreScoped VariablesAreScoped
CHECK_DEADLOCK FALSE
