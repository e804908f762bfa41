SPECIFICATION StrmapSpec
CONSTANTS
  v1 = v1
  v2 = v2
  NoVal = NoVal
  Hash <- MCHash
  Val <- MCVal
  MaxNodes = 4
INVARIANTS
  StrmapTypeOK
  OneTree
  ReleasedOnce
PROPERTY ImplementsMap
CHECK_DEADLOCK FALSE
