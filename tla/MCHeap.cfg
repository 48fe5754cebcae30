CONSTANTS
  NoCore = NoCore
  linked = linked
  page = page
  table = table
  Cores = {c1, c2}
  Classes = {linked, page}
  BlocksPerPage <- MCBlocksPerPage
  MaxSlots <- MCMaxSlots
  VecClass = page
  RegionSize = 2
  Frames = {1, 2, 3, 5}
  MaxPages = 2
  Tables = {table}
  TablesOf <- MCTablesOf
SPECIFICATION Spec
CHECK_DEADLOCK FALSE
INVARIANTS EveryBlockOnce EveryFrameOnce NoCircularWait
PROPERTIES ImplementsAllocator CallsReturn
