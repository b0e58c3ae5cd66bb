SPECIFICATION CreationSpec
CONSTANTS
  i1 = i1
  i2 = i2
  Task = {t1, t2}
  Adapter = {a1, a2}
  Classes = {"sqlite", "mysql", "mssql", "clickhouse", "mongo", "asyncSqlite",
             "asyncMysql", "asyncMssql", "asyncClickhouse", "asyncMongo"}
  IndexLists <- TwoIndexes
  MaxCalls = 3
  MaxNested = 2
  MaxFaults = 2
INVARIANTS
  SeededOnce
  AllOrNothing
  TableIsWhole

  
CHECK_DEADLOCK FALSE
