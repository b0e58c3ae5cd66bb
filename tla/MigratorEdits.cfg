SPECIFICATION Spec
CONSTANTS
  Proc = {p1}
  Mig = {1, 2, 3}
  All = All
  Commands = {"apply", "undo"}
  Outcomes = {"commit"}
  Trouble = {"edit"}
  MaxRows = 4
  MaxFailures = 1
INVARIANTS
  TableTellsTheSchema
PROPERTIES
  UndoKeepsWhatIsBefore
  AppliedUpToStop
CHECK_DEADLOCK FALSE
