SPECIFICATION PanicSpec
CONSTANTS
  Cores <- ConsecutiveCores
  BSP = 0
  Frames <- MCFrames
  BootFrames <- MCBootFrames
  MaxPanics = 3
INVARIANTS
  OneEmergencyWriter
  NmiFindsHandler
  EarlyPanicFindsOthersWaiting
PROPERTIES
  EveryCoreHalts
  WriterIsNeverStuck
