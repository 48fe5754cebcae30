SPECIFICATION Spec
CONSTANTS
  U64Max <- MCU64Max
  UsizeMax = 6
  Capacity = 3
  PadLimit = 2
  Sizes <- MCSizes
  Aligns <- MCAligns
  Limits <- MCLimits
INVARIANTS
  EntriesApart
  OverflowOnlyWhenFull
PROPERTIES
  BestFit
  RefusalIsJustified
  EveryCallEnds
  ImplementsFreeMemory
CHECK_DEADLOCK FALSE
