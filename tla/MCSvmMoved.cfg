CONSTANTS
  Nothing = Nothing
  Host = Host
  c1 = c1
  c2 = c2
  f1 = f1
  f2 = f2
  Cores = {c1, c2}
  Followed = {"Page"}
  Values = {0, 1}
  Zero = 0
  AllowedXcr0 = {1}
  Frames = {f1, f2}
  NrAsids = 3
  MaxVms = 2
  VmcbClean = TRUE
  FlushByAsid = TRUE
  FirstFlush = TRUE
  MoveFlush = FALSE
SPECIFICATION Spec
SYMMETRY Symmetry
INVARIANT NptChangesFlushed
CHECK_DEADLOCK FALSE
