SPECIFICATION ParserSpec
CONSTANTS
  Inputs <- MCInputs
  strtol <- MCstrtol
INVARIANTS
  ParserTypeOK
  ParsedAsWritten
PROPERTY ParserEnds
CHECK_DEADLOCK FALSE
