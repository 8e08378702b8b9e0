SPECIFICATION Spec
CONSTANTS
  w1 = w1
  w2 = w2
  Foreign = Foreign
  NoWorker = NoWorker
  Absent = Absent
  Corrupt = Corrupt
  Workers = {w1, w2}
  Holders <- MCHolders
  HolderOf <- MCHolderOf
  ClockOf <- MCClockOf
  InitLocks <- MCAnyLock
  MaxSkew = 0
  TTL = 2
  Timeout = 2
  MinBeat = 1
  MaxDelay = 3
  Horizon = 3
  WorkUntil = 3
  PutMode = "exclusive"
  Refuses = FALSE
  Faults = TRUE
  Crashes = TRUE
INVARIANTS
  TypeOK
  ExclusionUntilDeleted
  NeverLockedForLong
PROPERTIES
  ImplementsRevocableLock
CHECK_DEADLOCK FALSE
