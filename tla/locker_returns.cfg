SPECIFICATION LiveSpec
CONSTANTS
  w1 = w1
  w2 = w2
  Foreign = Foreign
  NoWorker = NoWorker
  Absent = Absent
  Corrupt = Corrupt
  Workers = {w1, w2}
  Holders <- MCHolders
  HolderOf <- MCHolderOf
  ClockOf <- MCClockOf
  InitLocks <- MCForeverLock
  MaxSkew = 0
  TTL = 1
  Timeout = 1
  MinBeat = 1
  MaxDelay = 1
  Horizon = 4
  WorkUntil = 2
  PutMode = "conditional"
  Refuses = TRUE
  Faults = TRUE
  Crashes = TRUE
PROPERTIES
  AcquireReturns
CHECK_DEADLOCK FALSE
