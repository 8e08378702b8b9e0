SPECIFICATION Spec
CONSTANTS
  w1 = w1
  w2 = w2
  Foreign = Foreign
  NoWorker = NoWorker
  Absent = Absent
  Corrupt = Corrupt
  Workers = {w1, w2}
  Holders <- MCHolders
  HolderOf <- MCHolderOf
  ClockOf <- MCSkewedClockOf
  InitLocks <- MCNoLock
  MaxSkew = 1
  TTL = 9
  Timeout = 8
  MinBeat = 1
  MaxDelay = 1
  Horizon = 9
  WorkUntil = 9
  PutMode = "conditional"
  Refuses = FALSE
  Faults = FALSE
  Crashes = TRUE
INVARIANTS
  HolderNeverStale
  MutualExclusion
CHECK_DEADLOCK FALSE
