SPECIFICATION Spec
CONSTANTS
  w1 = w1
  w2 = w2
  w3 = w3
  foo = foo
  bar = bar
  amd64 = amd64
  arm64 = arm64
  s1 = s1
  s2 = s2
  NoWorker = NoWorker
  Missing = Missing
  Workers = {w1, w2}
  Names = {foo, bar}
  Archs = {amd64, arm64}
  Sums = {s1, s2}
  Versions = {1, 2}
  BatchOf <- MCTwoVersionsOf
  PreserveOf <- MCAllPreserveOf
  SignOf <- MCSignOf
  CfgArchs = {amd64}
  Variants = 2
  ReadFaults = TRUE
  Rebuilt = {}
INVARIANTS
  NoPackageIsLost
CHECK_DEADLOCK FALSE
