SPECIFICATION Spec
CONSTANTS
  c1 = c1
  c2 = c2
  p1 = p1
  p2 = p2
  v1 = v1
  v2 = v2
  f1 = f1
  f2 = f2
  f3 = f3
  Missing = Missing
  Partial = Partial
  Clients = {c1, c2}
  Paths = {p1, p2}
  Values = {v1, v2}
  Files = {f1, f2, f3}
  Size = 2
  Kinds = {"file", "sftp"}
  Requests <- MCRequests
INVARIANTS
  TypeOK
  ReadsAreWhole
PROPERTIES
  ImplementsObjectStore
CHECK_DEADLOCK FALSE
SYMMETRY Symmetry
