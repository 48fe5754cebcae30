CONSTANTS
  Nothing = Nothing
  c1 = c1
  c2 = c2
  Mappers = {c1}
  Readers = {c2}
  Frames = {0, 1, 2, 3, 4}
  Foreign = {8}
  Top = 1
  Fan <- MCFan
  Ignored = 2
  Addresses = {0, 2}
  Lookups = {1}
  MaxPages = 2
SPECIFICATION Spec
INVARIANTS EveryFrameOnePlace LockNotNeeded
PROPERTY ImplementsAddressSpace
