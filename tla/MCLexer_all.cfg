SPECIFICATION LexerSpec
CONSTANT Texts <- MCTexts
INVARIANTS
  LexerTypeOK
  TextCovered
  ItemsRead
  EofLast
PROPERTY LexerEnds
CHECK_DEADLOCK FALSE
