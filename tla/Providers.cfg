SPECIFICATION Spec
CONSTANTS
  Ctx = {c1, c2}
  Owners = {c1}
  Name = {n1}
  NoName = NoName
  Row = {r1, r2}
  Faults = {"insert", "lost"}
  Uses = {}
  MaxDepth = 2
  MaxPoints = 1
  Classes = {"mssql", "asyncMssql", "asyncSqlite", "asyncMysql", "mongo", "asyncMongo", "clickhouse", "asyncClickhouse"}
  Disciplines <- EveryHabit
SYMMETRY RowsAlike
INVARIANTS
  TypeOK
  CleanBetweenScopes
PROPERTIES
  ExitRollsBack
  CommitIsDone
  DurableOnlyByLastCommit
  FinishedForGood
CHECK_DEADLOCK FALSE
