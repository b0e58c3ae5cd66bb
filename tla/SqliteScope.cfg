SPECIFICATION Spec
CONSTANTS
  Ctx = {c1, c2}
  Owners = {c1}
  Name = {n1, n2}
  NoName = NoName
  Row = {r1, r2}
  Faults = {"begin", "insert"}
  Uses = {}
  MaxDepth = 2
  MaxPoints = 3
INVARIANTS
  TypeOK
  OneHolder
  DepthTellsTheTruth
  SavepointsLive
PROPERTIES
  ScopePromise
CHECK_DEADLOCK FALSE
