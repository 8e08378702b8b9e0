SPECIFICATION Spec
CONSTANTS
  s1 = s1
  s2 = s2
  None = None
  MaxInt = 99
  NoHead = NoHead
  Texts <- MCTexts
  Control <- MCControl
  AnyVersion = AnyVersion
  Batches <- MCBatches
  InitIndices <- MCInitIndices
  MaxDebs = 2
INVARIANTS
  TypeOK
  StoredInOrder
  BatchIsPublished
  WordsAreKept
CHECK_DEADLOCK FALSE
