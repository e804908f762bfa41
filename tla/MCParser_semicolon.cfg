SPECIFICATION ParserSpec
CONSTANTS
  Inputs <- MCTwoStatements
  strtol <- MCstrtol
INVARIANT SemicolonSeparates
CHECK_DEADLOCK FALSE
