SPECIFICATION Spec
CONSTANTS
  c1 = c1
  c2 = c2
  preemptible = preemptible
  framebuffer = framebuffer
  Cores <- MCCores
  Locks <- MCLocks
  NonPreemptible <- MCNonPreemptible
  NoCore = NoCore
  NoLock = NoLock
  MaxGuards = 2
SYMMETRY Symmetry
INVARIANTS
  TypeOK
  LockCoreNamesAGuard
  NoSilentSelfDeadlock
  InterruptFlagAgrees
PROPERTIES
  StoppedCoresStayMasked
  ImplementsMutex
CHECK_DEADLOCK FALSE
