SPECIFICATION Spec
CONSTANTS
  Globs <- SomeGlobs
  Texts <- SomeTexts
  Budgets = {6, 1000}
  Expressions <- SomeExpressions
  Environments <- SomeEnvironments
  Names = {"x", "y"}
  Width = 4
  MaxDepth = 3
  WordsTried <- SomeWords
  Modes = {"argument", "assignment", "value", "here"}
  WordEnvironments <- SomeWordEnvironments
  Lines <- SomeLines
  NamesRead = {1, 2, 3}
  Separators <- SomeSeparators
  Regexes <- SomeRegexes
  Subjects <- SomeSubjects
  StepBudgets = {8, 1000}
  MaxNesting = 12
  MaxRepeat = 3
  MaxGroupDepth = 2
  TestArguments <- SomeArguments
  ConditionTexts <- SomeConditionTexts
  ConditionTrees <- SomeTrees
  ConditionEnvironments <- SomeConditionEnvironments
  MaxConditionDepth = 3
INVARIANTS
  MatchesAreExact ArithmeticIsExact ConditionsAgree WordsAreExact
CHECK_DEADLOCK FALSE
