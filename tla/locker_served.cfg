SPECIFICATION LiveSpec
CONSTANTS
  w1 = w1
  w2 = w2
  Foreign = Foreign
  NoWorker = NoWorker
  Absent = Absent
  Corrupt = Corrupt
  Workers = {w1, w2}
  Holders <- MCHolders
  HolderOf <- MCHolderOf
  ClockOf <- MCClockOf
  InitLocks <- MCAnyLock
  MaxSkew = 0
  TTL = 1
  Timeout = 10
  MinBeat = 3
  MaxDelay = 1
  Horizon = 6
  WorkUntil = 3
  PutMode = "legacy"
  Refuses = FALSE
  Faults = FALSE
  Crashes = TRUE
PROPERTIES
  WaiterServed
CHECK_DEADLOCK FALSE
