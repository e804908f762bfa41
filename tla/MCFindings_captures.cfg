CONSTANTS
  U8 = 256
  U16 = 65536
  Int63 = 64
  StackSize = 6
  MaxFrames = 4
  Images <- NoImages
  Trees <- CaptureLines
  Nodes <- FindingNodes
  MaxLines = 1
SPECIFICATION ReplSpec
INVARIANT GlobalsLoadedAreDefined
