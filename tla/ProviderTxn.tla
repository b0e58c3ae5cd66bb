----------------------------- MODULE ProviderTxn -----------------------------
(***************************************************************************)
(* The contexts of one class over one connection: the class is chosen at   *)
(* the start, and the contexts are used one after the other, or, outside   *)
(* their blocks, in any order.                                             *)
(***************************************************************************)
EXTENDS MssqlTxn, AsyncTxn, ClickHouseTxn

CONSTANTS Classes,      \* the classes of contexts
          Disciplines   \* what clients may do beyond the API inside `with`:
                        \* sets of "outside", "late", "script", "raw", as in SqliteTxn

ASSUME ProviderAssumption ==
  /\ Classes \subseteq {"mssql", "asyncMssql", "asyncSqlite", "asyncMysql",
                        "mongo", "asyncMongo", "clickhouse", "asyncClickhouse"}
  /\ Disciplines \subseteq SUBSET {"outside", "late", "script", "raw"}
  /\ Owners \subseteq Ctx
  /\ Faults \subseteq {"insert", "lost"}

VARIABLES class, habits,
          ok            \* the last call returned

all == <<class, habits, ctx, scope, db, ok>>

Sessions == {"mongo", "asyncMongo"}            \* a transaction per cursor
NoTransactions == {"clickhouse", "asyncClickhouse"}
Tsql == {"mssql", "asyncMssql"}

(* __delegate_mode is what the server's ismaster says, or stays None in the *)
(* asynchronous context, which never asks.                                  *)
Delegates == IF class = "mongo" THEN BOOLEAN ELSE {FALSE}

Init ==
  /\ class \in Classes /\ habits \in Disciplines
  /\ \E g \in Delegates : ctx = [c \in Ctx |-> FreshObject(g)]
  /\ scope = [c \in Ctx |-> "new"]
  /\ db = FreshConnection
  /\ ok = TRUE

-----------------------------------------------------------------------------
(* The methods of the class. *)

ExecuteOf(o, d, s) ==
  CASE class = "mssql"       -> MssqlExecute(o, d, s)
    [] class = "asyncMssql"  -> MssqlExecute(AsyncMssqlInner(o), d, s)
    [] class = "asyncSqlite" -> AsyncSqliteExecute(o, d, s)
    [] class = "asyncMysql"  -> AsyncMysqlExecute(o, d, s)
    [] class = "mongo"       -> MongoExecute(o, d, s)
    [] class = "asyncMongo"  -> AsyncMongoExecute(o, d, s)
    [] class = "clickhouse"  -> ClickHouseExecute(o, d, s)
    [] class = "asyncClickhouse" -> AsyncClickHouseExecute(o, d, s)

BeginOf(o, d, n) ==
  CASE class = "mongo"      -> MongoBegin(o, d, n)
    [] class = "asyncMongo" -> AsyncMongoBegin(o, d, n)
    [] class = "asyncMysql" -> AsyncMysqlBegin(o, d)
    [] class = "clickhouse" -> ClickHouseBegin(o, d, n)
    [] class = "asyncClickhouse" -> AsyncClickHouseBegin(o, d, n)
    [] class \in Tsql \cup {"asyncSqlite"} -> ExecuteOf(o, d, Begin(n))

EnterOf(o, d) ==
  IF class = "asyncSqlite" THEN AsyncSqliteInner(o, d) ELSE BeginOf(o, d, NoName)

(* rollback_savepoint(n): what the class spells it as. *)
RollbackSavepointOf(o, d, n) ==
  CASE class = "mssql"      -> MssqlRollbackSavepoint(o, d, n)
    [] class = "asyncMssql" -> MssqlRollbackSavepoint(AsyncMssqlInner(o), d, n)
    [] class \in {"asyncSqlite", "asyncMysql"} -> ExecuteOf(o, d, RollbackTo(n))
    [] class \in Sessions \cup NoTransactions -> ExecuteOf(o, d, Rollback(n))

CursorInsertOf(o, d, r) ==
  CASE class = "mssql"       -> MssqlCursorInsert(o, d, r)
    [] class = "asyncMssql"  -> MssqlCursorInsert(AsyncMssqlInner(o), d, r)
    [] class = "asyncSqlite" -> AsyncSqliteCursorInsert(o, d, r)
    [] class = "asyncMysql"  -> AsyncMysqlCursorInsert(o, d, r)
    [] class \in Sessions    -> MongoCursorInsert(o, d, r)
    [] class \in NoTransactions -> ClickHouseCursorInsert(o, d, r)

RawOf(o, d, s) ==
  CASE class = "mssql"       -> MssqlRaw(o, d, s)
    [] class = "asyncMssql"  -> MssqlRaw(AsyncMssqlInner(o), d, s)
    [] class = "asyncSqlite" -> AsyncSqliteRaw(o, d, s)
    [] class = "asyncMysql"  -> AsyncMysqlRaw(o, d, s)
    [] class \in Sessions    -> MongoRaw(o, d, s)
    [] class \in NoTransactions -> ClickHouseRaw(o, d, s)

ScriptOf(o, d, s, t) ==
  CASE class = "mssql"       -> MssqlScript(o, d, s, t)
    [] class = "asyncMssql"  -> MssqlScript(AsyncMssqlInner(o), d, s, t)
    [] class = "asyncSqlite" -> AsyncSqliteScript(o, d, s, t)
    [] class = "asyncMysql"  -> AsyncMysqlScript(o, d, s, t)
    [] class = "mongo"       -> MongoScript(o, d, s, t)
    [] class = "asyncMongo"  -> AsyncMongoScript(o, d, s, t)
    [] class = "clickhouse"  -> ClickHouseScript(o, d, s, t)
    [] class = "asyncClickhouse" -> AsyncClickHouseScript(o, d, s, t)

ExitOf(o, d, owned) ==
  CASE class = "mssql"       -> MssqlExit(o, d, owned)
    [] class = "asyncMssql"  -> AsyncMssqlExit(o, d, owned)
    [] class = "asyncSqlite" -> AsyncSqliteExit(o, d, owned)
    [] class = "asyncMysql"  -> AsyncMysqlExit(o, d, owned)
    [] class = "mongo"       -> MongoExit(o, d, owned)
    [] class = "asyncMongo"  -> AsyncMongoExit(o, d, owned)
    [] class = "clickhouse"  -> ClickHouseExit(o, d, owned)
    [] class = "asyncClickhouse" -> AsyncClickHouseExit(o, d, owned)

CloseOf(o, d, owned) ==
  CASE class = "mssql"       -> MssqlClose(o, d, owned)
    [] class = "asyncMssql"  -> AsyncMssqlClose(o, d, owned)
    [] class = "asyncSqlite" -> AsyncSqliteClose(o, d, owned)
    [] class = "asyncMysql"  -> AsyncMysqlClose(o, d, owned)
    [] class = "mongo"       -> MongoClose(o, d, owned)
    [] class = "asyncMongo"  -> AsyncMongoClose(o, d, owned)
    [] class = "clickhouse"  -> ClickHouseClose(o, d, owned)
    [] class = "asyncClickhouse" -> AsyncClickHouseClose(o, d, owned)

-----------------------------------------------------------------------------
Free(c) == \A e \in Ctx \ {c} : scope[e] # "inside"

Usable(c) == Free(c) /\ (scope[c] = "inside" \/ "outside" \in habits)

Happens(c, outs) ==
  \E r \in outs : /\ ctx' = [ctx EXCEPT ![c] = r.obj]
                  /\ db' = r.db
                  /\ ok' = r.ok
                  /\ UNCHANGED <<class, habits>>

Does(c, outs) == Usable(c) /\ Happens(c, outs) /\ UNCHANGED scope

BeginTransaction(c, n) ==
  ctx[c].books.depth < MaxDepth /\ Does(c, BeginOf(ctx[c], db, n))

Points(c) == ctx[c].books.savepoints

CreateSavepoint(c, n) ==
  /\ Len(Points(c)) < MaxPoints /\ Len(db.marks) < MaxPoints
  /\ Does(c, ExecuteOf(ctx[c], db, Savepoint(n)))

RollbackSavepoint(c, n) == Does(c, RollbackSavepointOf(ctx[c], db, n))

CommitScope(c) == Does(c, ExecuteOf(ctx[c], db, Commit))

RollbackScope(c, n) == Does(c, ExecuteOf(ctx[c], db, Rollback(n)))

ExecuteInsert(c, r) == Does(c, ExecuteOf(ctx[c], db, Insert(r)))

CursorInsert(c, r) ==
  /\ ctx[c].books.depth \in Finished => "late" \in habits
  /\ Does(c, CursorInsertOf(ctx[c], db, r))

Lines ==
  {Begin(NoName), Commit, Rollback(NoName)} \cup {Insert(r) : r \in Row}
    \cup UNION {{Savepoint(n), Rollback(n)} : n \in Name}

ExecuteRaw(c, s) ==
  /\ "raw" \in habits /\ Len(db.marks) < MaxPoints
  /\ s.op = "begin" => db.level <= MaxDepth
  /\ Does(c, RawOf(ctx[c], db, s))

(* Scripts of two lines, of which one writes at most. *)
ExecuteScript(c, s, t) ==
  /\ "script" \in habits /\ ~ (s.op = "insert" /\ t.op = "insert")
  /\ ctx[c].books.depth < MaxDepth
  /\ Len(Points(c)) < MaxPoints /\ Len(db.marks) < MaxPoints
  /\ Does(c, ScriptOf(ctx[c], db, s, t))

Close(c) ==
  "outside" \in habits /\ Does(c, {CloseOf(ctx[c], db, c \in Owners)})

Enter(c) ==
  /\ Free(c) /\ scope[c] = "new" /\ ctx[c].books.depth < MaxDepth
  /\ \E r \in EnterOf(ctx[c], db) :
       /\ Happens(c, {r})
       /\ scope' = [scope EXCEPT ![c] = IF r.ok THEN "inside" ELSE "refused"]

Exit(c) ==
  /\ scope[c] = "inside"
  /\ Happens(c, ExitOf(ctx[c], db, c \in Owners))
  /\ scope' = [scope EXCEPT ![c] = "left"]

Call(c) ==
  \/ Enter(c) \/ Exit(c) \/ Close(c) \/ CommitScope(c)
  \/ \E n \in Name : CreateSavepoint(c, n) \/ RollbackSavepoint(c, n)
  \/ \E n \in Name \cup {NoName} : BeginTransaction(c, n) \/ RollbackScope(c, n)
  \/ \E r \in Row : ExecuteInsert(c, r) \/ CursorInsert(c, r)
  \/ \E s \in Lines : ExecuteRaw(c, s)
  \/ \E s, t \in Lines : ExecuteScript(c, s, t)

Next == \E c \in Ctx : Call(c)

Spec == Init /\ [][Next]_all

-----------------------------------------------------------------------------
TypeOK ==
  /\ class \in Classes /\ habits \in Disciplines /\ ok \in BOOLEAN
  /\ ctx \in [Ctx -> Object]
  /\ scope \in [Ctx -> {"new", "refused", "inside", "left"}]
  /\ db \in Connection

Inside(c) == scope[c] = "inside"

Holds(c) == Inside(c) /\ ctx[c].books.depth > 0

(* A connection that is used for one scope after another is clean between   *)
(* them: when no block is being executed nothing is open on the server, no  *)
(* write waits for a commit, and a connection whose owner was left is       *)
(* closed.                                                                  *)
CleanBetweenScopes ==
  habits = {} /\ (\A c \in Ctx : ~ Inside(c)) =>
    /\ ~ db.open /\ db.level = 0 /\ db.work = db.durable
    /\ \A c \in Owners : scope[c] = "left" => db.closed

(* A transaction that is open on a client session of MongoDB belongs to a   *)
(* context that still has a BEGIN to finish.                                *)
OpenSessionHasScope ==
  \A c \in Ctx : ctx[c].cursor = "open" => ctx[c].books.depth > 0

(* Leaving a scope that has a BEGIN to finish keeps none of its work and    *)
(* leaves no level of the transaction open, also when the connection is     *)
(* lost on the way.                                                         *)
ExitRollsBack ==
  [][\A c \in Ctx : Exit(c) /\ ctx[c].books.depth > 0 /\ class \in Tsql \cup {"asyncSqlite"} =>
       db'.durable = db.durable /\ db'.work = db.durable /\ db'.level = 0 /\ ~ db'.open]_all

(* A last commit() that returns has made everything the scope sees durable  *)
(* and has left no level open, whatever the driver counts as a level.       *)
CommitIsDone ==
  [][\A c \in Ctx :
       habits = {} /\ CommitScope(c) /\ ok' /\ ctx'[c].books.depth = Committed =>
         db'.durable = db'.work /\ db.work \subseteq db'.durable /\ db'.level = 0]_all

KeepsNothingElse(kinds) ==
  db'.durable # db.durable /\ class \in kinds =>
    \E c \in Ctx : ctx[c].books.depth > 0 /\ ctx'[c].books.depth = Committed

(* Work becomes durable only in the step that commits a scope's last BEGIN: *)
(* a nested commit(), the driver's level under it or a lazily entered shim  *)
(* makes nothing durable.                                                   *)
DurableOnlyByLastCommit ==
  [][habits = {} => KeepsNothingElse(Tsql \cup {"asyncSqlite"})]_all

(* A context of any class that was committed, rolled back or left never     *)
(* becomes usable again, whatever is called on it.                          *)
FinishedForGood ==
  [][\A c \in Ctx : ctx[c].books.depth \in Finished =>
       ctx'[c].books \in {ctx[c].books, [ctx[c].books EXCEPT !.depth = Exited]}]_all

=============================================================================
