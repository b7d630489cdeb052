SPECIFICATION Spec
CONSTANTS
  Tokens <- TokensOfAll
  Families <- AllFamilies
INVARIANTS ExpressionsAreRight TreeHasTheTokens LineBreaksAreIgnored
PROPERTY ReportIsExact
CHECK_DEADLOCK FALSE
