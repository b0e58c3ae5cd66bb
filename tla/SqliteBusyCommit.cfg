SPECIFICATION Spec
CONSTANTS
  Ctx = {c1}
  Owners = {}
  Name = {n1}
  NoName = NoName
  Row = {r1}
  Faults = {"commit"}
  Uses = {}
  MaxDepth = 2
  MaxPoints = 1
INVARIANTS
  NothingLeftOpen
CHECK_DEADLOCK FALSE
