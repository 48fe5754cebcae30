CONSTANTS
  Cores = {c1, c2, c3}
  Bsp = c1
  Frames <- MCFrames
  LowEnd = 1
  MAX_ADDRESS = 13
  UefiMaps <- MCUefiMaps
  E820Maps <- MCE820Maps
  UefiTables <- MCUefiTables
  BiosTables <- MCBiosTables
  UefiImage = {13, 14}
  BiosImage = {0}
  BiosEntrypoint = 1
  Sectors = 2
  ExitTries = 3
  ReadTries = 5
  MaxEvents = 1
  MaxKernel = 1
SPECIFICATION Spec
CHECK_DEADLOCK FALSE
INVARIANTS EveryFrameOneUse TrampolineReaches EntrypointFirst
PROPERTY LoadsOrPanics
