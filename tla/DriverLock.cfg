SPECIFICATION Spec
CONSTANTS
  f1 = f1
  f2 = f2
  f3 = f3
  Files = {f1, f2, f3}
  NoFile = NoFile
  numGPC = 2
  HalFailures <- AllFailures
  SpeClients = {f1}
INVARIANTS TypeOK LockSound UndisturbedSession NoOrphanCounters
PROPERTIES ForceRecovers ImplementsLock
