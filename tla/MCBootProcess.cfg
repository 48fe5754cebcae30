SPECIFICATION Spec
CONSTANTS
  Cores <- MCCores
  BSP = 2
  Frames <- MCFrames
  BootFrames <- MCBootFrames
INVARIANTS
  CoreIdsIdentifyCores
  AssertionsHold
  GrantedOnce
  ReclaimedMemoryUnused
PROPERTIES
  OnlineBarrier
  ReadyBarrier
  EveryCoreBoots
