CONSTANTS
  U8 = 256
  U16 = 65536
  Int63 = 64
  StackSize = 16
  MaxFrames = 6
  Images <- NoImages
  Trees <- NoImages
  Nodes <- NoImages
  MaxLines = 3
  BufSize = 80
  Inputs <- MCInputs
  strtol <- MCstrtol
SPECIFICATION FrontSpec
INVARIANTS FrontTypeOK LostByQuote CompilerKeepsPromise TextMeans
PROPERTY TextAnswered
