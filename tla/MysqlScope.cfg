SPECIFICATION Spec
CONSTANTS
  Ctx = {c1}
  Owners = {c1}
  Name = {n1, n2, n3}
  NoName = NoName
  Row = {r1, r2, r3}
  Faults = {"begin", "insert"}
  Uses = {}
  MaxDepth = 2
  MaxPoints = 3
INVARIANTS
  TypeOK
  DepthTellsTheTruth
  SavepointsLive
PROPERTIES
  ScopePromise
CHECK_DEADLOCK FALSE
