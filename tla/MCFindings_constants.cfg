CONSTANTS
  U8 = 256
  U16 = 16
  Int63 = 64
  StackSize = 6
  MaxFrames = 4
  Images <- NoImages
  Trees <- NumberLines
  Nodes <- FindingNodes
  MaxLines = 6
SPECIFICATION ReplSpec
INVARIANT LoadsWhatWasAdded
