SPECIFICATION Spec
CONSTANTS
  LexerCases <- SomeCases
  Sources <- SomeSources
  BraceWords <- SomeBraceWords
  WordLimit = 12
  DepthLimit = 2
  Slices <- SomeSlices
  DividedOperands <- SomeDivisions
  Replacements <- SomeReplacements
  MappedValues <- SomeValues
  MaxInteger = 20
INVARIANTS
  WordsReadBack HereDocumentsAreExact CommandsAreExact ExpansionsAreExact
CHECK_DEADLOCK FALSE
