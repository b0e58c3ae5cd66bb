SPECIFICATION Spec
CONSTANTS
  Ctx = {c1, c2}
  Owners = {c1}
  Name = {n1}
  NoName = NoName
  Row = {r1, r2}
  Faults <- EveryFault
  Uses <- Everything
  MaxDepth = 2
  MaxPoints = 2
PROPERTIES
  DurableOnlyByCommitOrDdl
  FinishedForGood
  ExitRollsBack
CHECK_DEADLOCK FALSE
