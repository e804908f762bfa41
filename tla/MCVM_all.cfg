CONSTANTS
  U8 = 256
  U16 = 65536
  Int63 = 8
  StackSize = 10
  MaxFrames = 4
  Images <- AllImages
SPECIFICATION VMSpec
INVARIANTS TypeOK FramesTile NeverUnderflows
PROPERTIES CallersUntouched ImplementsActivations RunEnds
