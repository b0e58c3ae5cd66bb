SPECIFICATION Spec
CONSTANTS
  Proc = {p1}
  Mig = {1, 2}
  All = All
  Commands = {"apply", "undo"}
  Outcomes = {"commit"}
  Trouble = {"edit"}
  MaxRows = 4
  MaxFailures = 1
PROPERTIES
  UndoStopsWhereAsked
CHECK_DEADLOCK FALSE
