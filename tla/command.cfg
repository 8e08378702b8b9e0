SPECIFICATION Spec
CONSTANTS
  Second = 10
  Limit = 128
  Invalid = Invalid
  BadFile = BadFile
  Invocations <- MCInvocations
  Requests = {r1, r2, r3}
INVARIANTS
  TypeOK
  PublishesAsConfigured
  StorageIsLast
  StopsInOrder
PROPERTIES
  StopsWhenTold
CHECK_DEADLOCK FALSE
