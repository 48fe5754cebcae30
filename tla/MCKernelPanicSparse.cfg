SPECIFICATION PanicSpec
CONSTANTS
  Cores <- SparseCores
  BSP = 0
  Frames <- MCFrames
  BootFrames <- MCBootFrames
  MaxPanics = 3
INVARIANT
  OneEmergencyWriter
