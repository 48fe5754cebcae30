SPECIFICATION Spec
CONSTANTS
  U64Max <- MCU64Max
  UsizeMax = 6
  Capacity = 3
  PadLimit = 2
  Sizes <- MCSizes
  Aligns <- MCAligns
  Limits <- MCLimits
PROPERTY
  RefusedOnlyWhenNothingFits
CHECK_DEADLOCK FALSE
