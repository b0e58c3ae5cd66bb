SPECIFICATION CreationSpec
CONSTANTS
  i1 = i1
  i2 = i2
  Task = {t1, t2}
  Adapter = {a1, a2}
  Classes = {"mssql"}
  IndexLists <- TwoIndexes
  MaxCalls = 3
  MaxNested = 2
  MaxFaults = 0
PROPERTIES
  LazyMeansCreated
CHECK_DEADLOCK FALSE
