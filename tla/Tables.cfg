SPECIFICATION Spec
CONSTANTS
  i1 = i1
  i2 = i2
  Task = {t1, t2}
  Adapter = {a1, a2}
  Classes = {"sqlite", "mysql", "mssql", "clickhouse", "mongo", "asyncSqlite",
             "asyncMysql", "asyncMssql", "asyncClickhouse", "asyncMongo"}
  IndexLists <- TwoIndexes
  MaxCalls = 2
  MaxNested = 2
  MaxFaults = 1
  e1 = e1
  e2 = e2
  e3 = e3
  Client = {c1, c2}
  Id = {1, 2}
  Tag = {a, b}
  NoId = NoId
  MaxRowCalls = 2
  Caller = {c1, c2}
  EntityClass = {e1, e2, e3}
  NameOf <- TwoNamedDoc
  Property = {p, q}
  NoConnection = NoConnection
  MaxConnections = 2
  MaxAsks = 2
  MaxEntities = 3
  Field = {"a", "b"}
  Value = {1, 2}
  Literal = {1}
  InLists <- TwoPlaceholders
  ParameterLists <- OneParameterList
  Collections <- NullFreeCollections
  MaxConditions = 3
INVARIANTS
  TypeOK
  StoredWhenReturned
  KeyNamesOwnRow
  AdapterAsAsked
  ParentsFirst
  ValueSurvives
  FilterMeansClause
PROPERTIES
  EveryCallReturns
CHECK_DEADLOCK FALSE
