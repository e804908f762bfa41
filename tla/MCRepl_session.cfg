CONSTANTS
  U8 = 256
  U16 = 65536
  Int63 = 64
  StackSize = 6
  MaxFrames = 4
  Images <- NoImages
  Trees <- FewLines
  Nodes <- FewNodes
  MaxLines = 4
SPECIFICATION ReplSpec
INVARIANTS FreedStaysUnused NoHoleDisposed MeaningKept ArithmeticSurvives
PROPERTIES ConstantsNeverMove GlobalsKeepIndices
