SPECIFICATION Spec
CONSTANTS
  Cores <- MCCores
  BSP = 2
  Frames <- MCFrames
  BootFrames <- MCBootFrames
INVARIANT
  PhysicalMapNonExecutable
