SPECIFICATION FairSpec
CONSTANTS
  Proc = {p1, p2}
  Mig = {1, 2}
  All = All
  Commands = {"apply"}
  Outcomes = {"commit", "partial"}
  Trouble = {"crash"}
  MaxRows = 5
  MaxFailures = 2
INVARIANTS
  TypeOK
  RecordedHasRun
PROPERTIES
  OnTopOfPredecessors
  EverythingApplied
CHECK_DEADLOCK FALSE
