SPECIFICATION Spec
CONSTANTS
  w1 = w1
  w2 = w2
  Foreign = Foreign
  NoWorker = NoWorker
  Absent = Absent
  Corrupt = Corrupt
  Workers = {w1, w2}
  Holders <- MCHolders
  HolderOf <- MCHolderOf
  ClockOf <- MCClockOf
  InitLocks <- MCExpiringLock
  MaxSkew = 0
  TTL = 9
  Timeout = 8
  MinBeat = 1
  MaxDelay = 0
  Horizon = 3
  WorkUntil = 3
  PutMode = "conditional"
  Refuses = FALSE
  Faults = FALSE
  Crashes = FALSE
INVARIANTS
  MutualExclusion
CHECK_DEADLOCK FALSE
