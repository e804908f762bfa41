CONSTANTS
  U8 = 256
  U16 = 65536
  Int63 = 8
  Trees <- AllTrees
  Nodes <- AllNodes
SPECIFICATION CompilerSpec
INVARIANTS CompilerTypeOK SlotsAreOwn LastInstTracked JumpsWait OnlyCapturesCrash
PROPERTY CodeStands
