# deev: TLA+ models, checks and proofs

deev is an entity framework for Python: transaction contexts, table adapters
and a migrator over SQLite, MySQL, MSSQL, MongoDB and ClickHouse. This directory
holds TLA+ models of the parts that keep state across calls and can go wrong in
an order nobody tested: how a context's bookkeeping follows the server's
transaction, how the migrator's table follows the schema, how tables come to be
and rows are written by several tasks, and the pure functions the adapters
stand on: the order of entities, the translation of values, and WHERE clauses
for MongoDB. Paths in this file are relative to the repository; `sqlite l.118` is line 118 of
`src/deev/sqlite/sqlite_transaction_context.py`, and likewise `mysql`; `migrator`
is `src/deev/common/db_migrator.py`.

    tlc -config SqliteScope.cfg SqliteScope.tla      # a run: its cfg, its module
    tlapm SqliteTxnProofs.tla                        # the proofs

## 1. The system

| component | state it keeps | operations | what is hard about it |
|---|---|---|---|
| transaction context, one class per provider, synchronous and asynchronous | depth with sentinels (-1 left, -2 committed, -3 rolled back), list of savepoint names, name of the transaction, whether it owns the connection | `with`, begin, commit, rollback, savepoints, execute*, cursor, close | books change before the statement is sent; scopes share a connection; the server has a transaction of its own that DDL, errors and other users end |
| transaction control parser (`tlc_parser.py`) | none | classifies BEGIN, SAVEPOINT, COMMIT, ROLLBACK and takes names out | two statements that look alike take different paths |
| proxy connections, proxy cursors, `NoopCursor` | the driver's connection | execute with `%?` rewritten, commit, rollback, close | answers that never came from a server |
| factories (`utils.py`) | client classes by provider | connect, begin_transaction, create/drop database, order of entities | who owns the connection |
| table adapters | cached SQL, the context | create_table, create, read, update, upsert, delete, count | check-then-act without a transaction; writes past the depth |
| `DbAdapter` | connection, adapters by entity type | open, close, get_table_adapter | adapters cached across close |
| `DbMigrator` and `db-migrate` | `_migrationdata`, the schema, the directory of scripts, locals of each invocation | apply, undo, with stop_at | two transactions per script, no lock, process death, directory changes |
| DDL, order of entities (`utils.py`) | none | what to create, and in which order | cycles of foreign keys; ten generators and adapters that each create in their own way |
| MongoDB cursors (`mongo_proxy_cursor.py`, `mongodb/utils.py`) | the collection, the results | SQL statements as MongoDB operations | AND and OR split by a regular expression, placeholders numbered by a counter |
| translation (`translation/`) | caches of compiled plans | values to a store and back | two ways to read a row, seven kinds of store |
| entities, type mappers, validation, connection strings | declarations only | pure conversions | wording, reached by tests |

How they interact: a table adapter or the client calls a context; the context
preprocesses each statement (may scrub it, refuse it, or change its own books)
and hands it to a proxy cursor on the connection, which the server answers or
refuses. Several contexts may be made over one connection
(`begin_transaction(connection)`), and only one made from a connection string
owns it and closes it. The migrator opens one context for `_migrationdata` and
one more for each script it runs.

What makes each correct:

* contexts: the depth tells the truth about the server; one scope at a time
  finishes a connection's transaction; only the last COMMIT keeps work; leaving a
  scope with a BEGIN to finish keeps nothing; a finished context stays finished;
  every tracked savepoint exists.
* migrator: the table says what is in the schema; nothing is listed that has not
  run; scripts run in order; stop_at is where it stops; re-running completes an
  interrupted apply.
* table adapters: one entity, one row; `upsert` leaves the entity as given
  whatever was there before; two `create_table` calls leave one whole table and run its
  hook once; a lazily created table is there when it is first used.
* `DbAdapter`: an adapter that is handed out is the one that was asked for, and
  bound to the open connection.
* pure parts: a foreign key's target is created first; a value read back is the
  value written; a filter selects what its WHERE clause means.

## 2. The modules

| module | what it is |
|---|---|
| `TxnContext` | what the contexts share: sentinels, statements as records, the books, the LIFO list of savepoints |
| `DbSession` | external: a DB-API connection and its server-side transaction: what is durable, what it sees, its savepoints, whether a transaction is open, whether it is closed |
| `SqliteSession`, `MysqlSession` | external: which statements the two servers accept, and what these do |
| `SqliteTxn`, `MysqlTxn` | the contexts: state, one action per method, safety and action properties |
| `TxnScope` | the promise: scopes one after the other, kept whole or not at all, and savepoints |
| `SqliteScope`, `MysqlScope` | the refinement mappings onto `TxnScope` |
| `MCSqliteTxn`, `MCMysqlTxn` | sets of faults and uses for the runs in which everything goes wrong |
| `Migrator` | `DbMigrator` and the invocations of `db-migrate` |
| `ScopeCalls` | what the other classes of contexts share: a call is the set of its outcomes (object, connection, returned or raised), and calls compose; the external connection, with T-SQL's count of levels |
| `MssqlTxn`, `MongoTxn`, `ClickHouseTxn`, `AsyncTxn` | the methods of the other eight classes of contexts, as operators; the asynchronous SQLite context reuses `SqliteTxn!Preprocess`, the MySQL one `MysqlTxn!Preprocess` |
| `ProviderTxn`, `MCProviderTxn` | contexts of one of these classes, chosen at the start, over one connection; properties |
| `TableCreation` | `__deferred_init`, `create_table`, `primary_key`, `commit`, `rollback` and the hook of the ten table adapters, over connections with transactions |
| `TableRows` | `create`, `read`, `update`, `delete`, `exists`, `upsert` of the ten, one statement a step |
| `DbAdapters` | `DbAdapter` and `AsyncDbAdapter`: connection, registry and cache |
| `EntityOrder` | the two loops of `_order_entities_for_ddl`, turn by turn, against a definition of reachability |
| `Scalars` | a single value of one of eleven types, or None: as it is written, returned and read |
| `Translation` | containers of values and whole entities to a store and back, against the value that was written |
| `WhereFilter` | the loop of `parse_sql_where`, one condition a step, and the cursors that use the filter, against what SQL means |
| `MCCreation` | the instances of `TableCreation`, and what the documentation says of lazy creation |
| `MCTables` | the instance of `TableCreation`, `TableRows` and the modules after it: `part` chooses one, `probe` the value that is translated |
| `TxnLemmas` | facts about the books, lists of savepoints and sessions, proved |
| `SqliteTxnProofs`, `MysqlTxnProofs`, `ProviderTxnProofs` | theorems about the contexts and the refinement of `TxnScope` |
| `MigratorProofs` | theorems about the migrator |
| `CreationProofs`, `RowsProofs` | theorems about `TableCreation`, `TableRows` |
| `AdapterProofs` | theorems about `DbAdapters`, `EntityOrder`, `WhereFilter` and `Scalars`, which share no state |

`SqliteTxn` composes `SqliteSession` over `DbSession` and `TxnContext`;
`MysqlTxn` composes `MysqlSession` in the same way.

### The contexts

State: `ctx[c]` is the three fields of the object, `scope[c]` is where the
`with` block of `c` is (`new`, `refused`, `inside`, `left`), `db` is the
connection. One action is one method: `Enter` (`__enter__`), `Exit`
(`__exit__`, with its `rollback` and `close`), `BeginTransaction`,
`CreateSavepoint`, `RollbackSavepoint`, `RollbackLastSavepoint`, `CommitScope`,
`RollbackScope`, `ExecuteInsert`, `ExecuteRaw`, `ExecuteScript`, `CursorInsert`
(a table adapter writing through `cursor()`), `Close`, and, outside the context,
`ConnectionCommit` and `ConnectionRollback`. Every method that takes SQL goes
through `Preprocess`, which is `__preprocess_sql` with a case per kind of
statement; the books it returns are in force whatever the server then answers,
which is the order of the code (sqlite l.118 before l.222).

* `Sent` is the conversation with the server. `Accepted` applies the
  statement; `Refused` is an error the server has reason for, or one listed in
  `Faults`: a busy BEGIN or COMMIT, a failed write, and `abort`, a refused write
  that ends the transaction on the server.
* `Uses` is what clients do beyond the API inside `with`: calls before and after
  the block, writes after commit, repeated savepoint names, raw statements,
  scripts, commits of the connection, DDL on MySQL.
* A call that raises before it changes anything is a stuttering step. ROLLBACK
  itself is refused only when there is nothing to roll back.
* The ambient transaction id is written and never read by these classes, and is
  left out. A name made up by the code (`TID_...`) is one that is not in use.
* SQLite: BEGIN inside a transaction is refused; a write outside one opens it
  (the driver's default). MySQL: START TRANSACTION and DDL commit what is open;
  SAVEPOINT of a live name replaces the older one.

### The other contexts

`ProviderTxn` has the same shape as `SqliteTxn`, but eight classes stand behind
its actions: `ExecuteOf`, `BeginOf`, `ExitOf` and the others pick the operator of
the class, and `Happens` takes one of its outcomes. What an object keeps is the
books of `TxnContext` and four fields more: whether its cursor has a client
session and a transaction on it (MongoDB), whether `close()` has taken the
context away, whether a shim has made the synchronous context inside it, and the
delegated mode.

* MSSQL: every BEGIN and COMMIT is sent, and `level` is the server's
  @@TRANCOUNT. The driver is not in autocommit mode, so it opens a level by
  itself; whether an explicit BEGIN comes on top of that, and whether the
  driver's `commit()` ends one level or all, is left open, and the properties
  hold either way. The driver's commit follows the last COMMIT (mssql l.313-316).
* MongoDB: control never reaches the server as a statement, it acts on the
  session of the context's cursor, and `begin_transaction` makes a new cursor.
  The asynchronous one leaves `async with start_session()` before it uses the
  session (`async_mongo_transaction_context.py` l.203-212). Documents are written
  outside the session (`mongo_proxy_cursor.py` l.214), so they are durable at once.
* ClickHouse: books only. A row is durable at once.
* Asynchronous SQLite and MSSQL: shims that make (and, for SQLite, enter) a
  synchronous context on first use. `Then` is "and after that, unless it raised".
* Asynchronous MySQL: the cursor is never made, so whatever is not scrubbed
  raises after the books have changed.
* `ExecuteRaw` sends a statement past the books: MongoDB's cursor passes over
  transaction control, ClickHouse refuses it, T-SQL and SQLite obey.
* `ExecuteScript` takes two lines, of which one writes at most: both are
  preprocessed first, what is left is sent in one call as it was written.

### Tables

`TableCreation`: `adapter[a]` is the two flags of an adapter object, `job[j]` a
call under way with the calls that wait for it (`waiting`: `__deferred_init`
calls `create_table`, which enters `__deferred_init` again), `made` the server's
catalog, `seeded` the runs of the hook whose rows are committed, and `txn[a]` what the
adapter's connection has made and written and not committed: nobody else sees it,
and it is lost with a rollback or with the process. Steps are `DeferredInit`,
`LookForTable`, `ExecuteDdl` (one statement), `RunHook`, `Operate`,
`EndTransaction` (`commit()` and `rollback()`, of the adapter or of a context
over it); `Refused` is a statement the server refuses or a hook that raises,
`Restart` the death of a process, and `TimesOut` a statement that has waited for another
connection too long. A class is a record of the points in which the ten differ: the
statements of its DDL and which of them insist (`CREATE INDEX` without IF NOT
EXISTS), what its transaction takes in, whether its code runs on a loop, whether it is
suspended there, whether creation is called or scheduled, whether an insert
creates the collection, what `primary_key` does.

What is durable when (`takes`) is the driver's and the server's, as `connect`
(`utils.py` l.75-122) sets them up:

* MSSQL, `"all"`: the connection is not in autocommit (l.112) and `create_table`
  does not commit, so table, indexes and the hook's rows are one transaction until
  the caller commits; what it has made keeps others from making it (`Holds`).
* MySQL, `"rows"`: every DDL statement commits what was open, and itself; the hook's rows wait
  for a commit. A transaction that has rows in a table keeps others from making indexes of
  it.
* SQLite, `"open"`: the driver opens a transaction for a row, not for DDL, so DDL is
  durable at once unless a context or a row has opened one, which then takes it in. (Python's
  driver has not committed before DDL since 3.6; `docs/transactions.rst:111`
  still says so.) One transaction writes at a time.
* ClickHouse and MongoDB, `"none"`: everything is durable at once. That `create_index`
  takes part in no session's transaction is assumed for MongoDB, as rows do not either.

A waiting statement goes on when the other transaction ends, or fails: after
`timeout` seconds on MSSQL (`utils.py` l.113-114, 9 by default), `read_timeout`
on MySQL (l.83), and 5 seconds, the driver's own default, on SQLite (l.122).
Left out of this module: a hook that commits or rolls back by itself; contexts nested
in contexts (for that, section 2, the contexts); and on the synchronous path a hook
that is a coroutine, which is only scheduled if a loop runs
(`docs/hooks.rst:33-35`), and so may follow the first operation or run on after
the caller's commit.

`TableRows`: `Program(op, id)` is the sequence of statements a method sends; a
step executes one for one client, and clients have a connection each or, as
tasks, share one. ClickHouse's updates and deletes are mutations that are
applied later. `own` is a history variable: the key of the row the call really
wrote.

`DbAdapters`: `connect`, `close` (each with the suspension of the asynchronous
class between its check and its assignment) and `get_table_adapter`, whose cache
key is what the code makes it from: the registered property, `create_table` and
the name of the table.

`EntityOrder`: `queue` and `seen` are the locals of the loop that follows foreign
keys (`Discover`), `remaining` and `ordered` those of Kahn's algorithm
(`EmitReady`), which falls back to the alphabet when no table is ready
(`FallBack`, `EmitRest`). `stage` is the loop that runs. An entity is the rank of its table's
name, so `Min` is the alphabetically first.

`WhereFilter`: `clause` is what was read of the text, conditions and the words that
join them, `parsed` the locals `and_group`, `or_groups` and `param_idx`.
`ReadCondition` is a turn of the loop, `Step` what it does to these, and a
clause may end wherever `MayEnd` holds. The cursors' statements are operators over
a collection.

`Translation` has no state: the code's functions are operators, over `Scalars`, which has
what they do to a value that is no container and reaches no recursion. In all three the
reference is written without an eye to the code (sets closed under references;
the value itself, naive datetimes being UTC; conjunctions of bound conditions).

### The migrator

State: `files` (the directory), `rows` and `nextId` (`_migrationdata`),
`effect[m]` (how often `m` is in the schema: applied minus undone), `run[p]`
(locals of an invocation). `Start` is everything before the loop, with its
checks of stop_at and the ids read from the table; `Skip`, `Execute` and
`Record` are the three parts of an iteration between which another process can
move or this one can die: decide, run the script in its own transaction
(migrator l.104-108), write the row in the other (l.110-111). `Return` leaves
the loop, `Crash` kills the process or fails the write, `EditFiles` is a
checkout. A script ends with `commit`; with an exception and nothing done; with
an exception after DDL that committed by itself (`partial`); or with an explicit
rollback and a normal return (`rollback`).

## 3. The runs

Every cfg turns deadlock checking off: clients and operators may simply stop.

| run | bounds | what it shows |
|---|---|---|
| `SqliteScope` | 2 contexts, one the owner; 2 names, 2 rows, depth 2, 3 savepoints; BEGIN and writes may be refused | `OneHolder`, `DepthTellsTheTruth`, `SavepointsLive`, and `ScopePromise`: the contexts on a connection implement `TxnScope` |
| `SqliteAnything` | 2 contexts, 1 name, 2 rows, depth 2, 1 savepoint, every fault and every use | `DurableOnlyByLastCommit`, `FinishedForGood`, `ExitRollsBack` |
| `MysqlScope` | 1 context, 3 names used once, 3 rows, depth 2, 3 savepoints | the same promises on MySQL |
| `MysqlAnything` | 2 contexts, every fault and use, DDL | the action properties on MySQL |
| `MigratorEdits` | 3 scripts, 1 invocation at a time, apply and undo, the directory changes, 4 rows | `TableTellsTheSchema`, `UndoKeepsWhatIsBefore`, `AppliedUpToStop` |
| `MigratorCrowd` | 2 invocations, 2 scripts, crashes, partial scripts, 5 rows, 2 failures | `RecordedHasRun`, `OnTopOfPredecessors`, `EverythingApplied` |
| `Providers` | 8 classes, 2 contexts, one the owner; 1 name, 2 rows (symmetric), depth 2, 1 savepoint; writes refused, connection lost; clients that keep to `with`, call anything at any time, send scripts, or send raw statements | `CleanBetweenScopes`, `ExitRollsBack`, `CommitIsDone`, `DurableOnlyByLastCommit`, `FinishedForGood` |
| `Creation` | 10 classes, 2 tasks with 1 or 2 adapters, no index or 2, 3 calls, 2 nested, 2 faults | `SeededOnce`, `AllOrNothing`, `TableIsWhole`, `FirstUseFindsTable` |
| `Tables` | creation: as in `Creation` with 2 calls and 1 fault, and fairness; rows: 2 clients, 2 keys, 2 tags, 2 calls; hub: 2 callers, 3 entity classes of which two are named alike, 2 properties, 2 connections, 2 asks; order: every graph of 3 entities; values: 7 stores, hints of up to two containers; filter: clauses of up to 3 conditions over 2 fields and 2 values, `IN` with 2 placeholders, 4 parameters, 4 collections | `EveryCallReturns`; `StoredWhenReturned`, `KeyNamesOwnRow`; `AdapterAsAsked`; `ParentsFirst`; `ValueSurvives`; `FilterMeansClause` |
| `SqliteBusyCommit` | violation | a refused COMMIT leaves the transaction open after the block |
| `MigratorLostFile` | violation | undo to a migration without a file goes past it |
| `CreationRolledBack` | violation | a rollback takes the table and leaves the flags, on MSSQL |

Why the bounds are enough. Two contexts are all it takes for one to be inside
the other, and the books of contexts never mix. Depth 2 tells the first BEGIN
from the others: `OnBegin` and `OnCommit` distinguish 0, 1 and more. Three
savepoints have a first, a middle and a last, and two names repeat a name across
scopes. Two rows tell work kept from work lost. Three scripts have one before,
at and after stop_at; two invocations are what a stale snapshot needs; five rows
allow each of them to record each script and one more. In `Providers`, one name
repeats and two rows tell kept from lost; scripts are a discipline of their
own because their errors would hide what the others show. In `Creation`, two tasks
race and two indexes have an order; three calls are one each and one after
both, or a creation, the end of its transaction and an operation; two faults are a failed
creation and the death of a process after it. Liveness is checked with two calls, one for each
task or two of one, and one fault, since a call waits for the other connection alone, and a third
call does what a first or second one does. In `Tables`, two row calls interleave, over a table that is empty or has a row; three
entities have every kind of cycle and a table above one; three conditions have
an AND and an OR in both orders; a list of a list is nesting enough, as every
function recurses in the same way. The counters bounded this
way (`MaxDepth`, `MaxPoints`, `MaxRows`, `MaxFailures`) appear in guards of
`BeginTransaction`, `CreateSavepoint`, `ExecuteRaw`, `ExecuteScript`, `Enter`,
`Start` and `Ends`; `MaxCalls`, `MaxNested`, `MaxRowCalls`, `MaxConnections` and
`MaxAsks` in those of `CallMethod`, `DeferredInit`, `CallAdapter`,
`ConnectIfNeeded`, `Connected` and `GetTableAdapter`. The theorems hold for every
value of the bounds of their modules.

Fairness. `Migrator!FairSpec` and `MCTables!Spec` state any. In the migrator an invocation that runs keeps
running (weak fairness of `Step(p)`: a single-threaded program), and the operator
re-invokes `apply` with `all` whenever no other invocation of that process is in
its way again and again (strong fairness: other commands may come first). Nothing
forces a crash, and failures are finite (`MaxFailures`), as a database that
fails for ever would never finish; `EverythingApplied` is what follows. In
`MCTables` a call that was begun goes on (weak fairness of `JobStep(j)` in the part that creates: a thread
that runs, or a task of a loop that is not blocked), nothing more. `TimesOut` is among its
steps, so a statement that waits for another connection's transaction, which
nobody need end, is timed out: that is the drivers' doing with the timeouts above, which
`connect` sets unless its caller passes None. `EveryCallReturns` says that every call ends.

The violation runs quote the documentation; section 6 says what they show.

## 4. What is proved

For every value of the constants, with no bound on contexts, names, rows, depth,
savepoints, invocations, scripts, tasks, adapters, callers, calls, failures,
entities, foreign keys, conditions, documents or values. The
bounds are constants too, and a theorem holds for each value of them.

| theorem | property | from | argument |
|---|---|---|---|
| `SqliteTxnProofs!TypeCorrect` | `TypeOK` | - | `Preprocess` and every answer keep types |
| `SqliteTxnProofs!OwnershipHolds` | `OneHolder` | `Disciplined` | the invariant `Ownership` |
| `SqliteTxnProofs!DepthIsTrue` | `DepthTellsTheTruth` | `Disciplined` | the same |
| `SqliteTxnProofs!SavepointsAreLive` | `SavepointsLive` | `Disciplined` | the same |
| `SqliteTxnProofs!ExitAlwaysRollsBack` | `ExitRollsBack` | - | the invariant `NothingUnsettled` |
| `SqliteTxnProofs!LastCommitOnly` | `DurableOnlyByLastCommit` | - | who sends COMMIT |
| `SqliteTxnProofs!FinishedStays` | `FinishedForGood` | - | a sentinel passes through every method |
| `SqliteTxnProofs!PromiseKept` | `ScopePromise` | `Strict` | step by step, `Ownership` and `PointsInOrder` |
| `MysqlTxnProofs!TypeCorrect` | `TypeOK` | - | as on SQLite, DDL included |
| `MysqlTxnProofs!FinishedStays` | `FinishedForGood` | - | |
| `MysqlTxnProofs!ExitAlwaysRollsBack` | `ExitRollsBack` | - | `NothingUnsettled` |
| `MysqlTxnProofs!CommitOrDdlOnly` | `DurableOnlyByCommitOrDdl` | - | who sends what commits |
| `MysqlTxnProofs!DepthIsTrue` | `DepthTellsTheTruth` | `Disciplined`, `Alone` | with `BooksFollowScope` |
| `MysqlTxnProofs!SavepointsAreLive` | `SavepointsLive` | `Strict`, `Alone` | `PointsInOrder` and `UniqueNames` |
| `MysqlTxnProofs!PromiseKept` | `ScopePromise` | `Strict`, `Alone` | step by step, the same |
| `ProviderTxnProofs!TypeCorrect` | `TypeOK` | - | the invariant `CallsInv` |
| `ProviderTxnProofs!SessionsHaveScopes` | (`OpenSessionHasScope`) | - | `CallsInv` |
| `ProviderTxnProofs!FinishedStays` | `FinishedForGood` | - | `CallsInv` |
| `ProviderTxnProofs!ExitAlwaysRollsBack` | `ExitRollsBack` | - | `CallsInv` |
| `ProviderTxnProofs!ConnectionIsClean` | `CleanBetweenScopes` | - | `CallsInv` and `WithInv` |
| `ProviderTxnProofs!CommitsAreDone` | `CommitIsDone` | - | the same |
| `ProviderTxnProofs!LastCommitOnly` | `DurableOnlyByLastCommit` | - | the same |
| `MigratorProofs!TypeCorrect` | `TypeOK` | - | |
| `MigratorProofs!RecordedHaveRun` | `RecordedHasRun` | `ApplyOnly` | the invariant `HasRun` |
| `MigratorProofs!RunsOnTopOfPredecessors` | `OnTopOfPredecessors` | `ApplyOnly` | the same |
| `MigratorProofs!TableIsTheSchema` | `TableTellsTheSchema` | `OneByOne` | the invariant `Tracked` |
| `MigratorProofs!UndoKeepsToStop` | `UndoKeepsWhatIsBefore` | - | the invariant `StopAhead` |
| `MigratorProofs!AppliesUpToStop` | `AppliedUpToStop` | one invocation at a time | `StopAhead` and `Accounted` |
| `CreationProofs!CreationTypeCorrect` | (`CreationTypeOK`) | - | the invariant `Shape` |
| `CreationProofs!RowsAreThereOnce` | `SeededOnce` | - | the invariant `OnceInv` |
| `CreationProofs!CreatesAllOrNothing` | `AllOrNothing` | - | the invariant `AllInv` |
| `CreationProofs!WholeOrNot` | `TableIsWhole` | - | `Progress` |
| `CreationProofs!TableIsFound` | `FirstUseFindsTable` | - | `Nested` and `Awaited` |
| `RowsProofs!RowsTypeCorrect` | (`RowsTypeOK`) | - | the invariant `RowsInv` |
| `RowsProofs!StoredIsStored` | `StoredWhenReturned` | - | the same |
| `RowsProofs!KeysNameRows` | `KeyNamesOwnRow` | - | the same |
| `AdapterProofs!HubTypeCorrect` | (`HubTypeOK`) | - | the invariant `HubInv` |
| `AdapterProofs!AdaptersAreAsAsked` | `AdapterAsAsked` | - | the same |
| `AdapterProofs!OrderTypeCorrect` | (`OrderTypeOK`) | - | the invariant `OrderInv` |
| `AdapterProofs!ParentsComeFirst` | `ParentsFirst` | - | the same |
| `AdapterProofs!FilterTypeCorrect` | (`FilterTypeOK`) | - | the invariant `FilterInv` |
| `AdapterProofs!ClauseKeepsItsMeaning` | `FilterMeansClause` | - | the same |
| `AdapterProofs!ScalarsReadBack` | (`ScalarsSurvive`) | - | type by type |

### The hypotheses

`Disciplined` is `Uses \subseteq {"reuse"}` and `Faults \subseteq {"begin",
"insert"}`: clients that use `with`, the API and adapters inside the block, and a
server that refuses only what it can refuse before it has done anything. The
runs show why each is needed: without it the transaction of
`SqliteBusyCommit` stays open, and on MySQL the DDL it excludes ends the
transaction behind the depth's back. `Strict` asks besides that a savepoint's name
is not used again while it is live: `TxnScope` goes back to the savepoint it is
told, and of two with one name the code and the client may mean different ones.
`SavepointsLive` of SQLite needs no such thing, so there the theorem says more than
the run. On MySQL the server drops the older savepoint of the same name and the
list of the context does not (section 6), so `SavepointsLive` is false without it. `Alone` is
one context on the connection, the case in which MySQL's contexts work
(section 6 has the other). `ApplyOnly` excludes undo and scripts that roll
back and return: `RecordedHasRun` is false with either, as a row is written for a script
that rolled back (section 6), and outlives an undo that dies before it deletes it. `OneByOne`
excludes a second invocation, a crash, and scripts that do things by halves: any of
them can part a script from its row (section 6 has what the crash does). `AppliesUpToStop` excludes only the second
invocation, which could record or delete what this one has read.
Theorems with no hypothesis hold of every use and every fault the module has; the
properties of `Providers`, `TableCreation`, `TableRows` and `DbAdapters` name in
their own text the classes and disciplines they are about, as the runs check them.

Constants have the assumptions a proof needs, each what the code provides: the
owners of a connection are contexts; in `TableCreation` the indexes of an entity
are distinct and none is the table, and there is an adapter for every task; in
`TableRows` there is a key and a value to store, and no key is `NoId`, which
stands for none; in `WhereFilter` values are numbers other than the one that stands
for NULL, literals are values, and operands, parameters and collections are
sequences of such.

### The arguments

*SQLite.* `OneHolder` is not inductive: to see that a second context cannot enter,
one has to know that a scope that holds has an open transaction behind it
(`DepthTellsTheTruth`), that a context which was not entered has untouched books
(`BooksFollowScope`), and that a closed connection has no transaction
(`ClosedIsQuiet`); together they are `Ownership`. `SavepointsLive` says that the list
is embedded in the server's stack, not equal to it: with repeated names `LastOf`
finds the last occurrence on both sides, and `TxnLemmas` shows that popping through
it keeps the embedding. `NothingUnsettled` says that a connection without a
transaction has nothing to lose, which is what makes the rollback of `__exit__`
harmless when the server has already rolled back. For `PromiseKept` the mapping of
`SqliteScope` sees the savepoints a scope lists as the rows the server has
under these names, so a step must also keep the older of them as they are:
`PointsInOrder` says that later names stand for later savepoints.

*MySQL.* The server's stack has gaps where a name was replaced, and a nested
BEGIN is neither sent nor counted. `UniqueNames` makes the mark that a name stands for
the only one; then the order of the list and of the marks agree, and a
`ROLLBACK TO` cuts both at the same place.

*The other classes.* A call is a set of outcomes, so the proof classifies outcomes
instead of calls: those of every method, shim and script of every class, whatever
was called before, keep `CallsInv` (an object is `Sound`, a connection `Settles`: an
open session belongs to a BEGIN, what is not open is settled, the shim has made its
inner context before it counts a BEGIN). For clients that keep to `with`, `WithInv` adds
that one block is executed at a time and that inside it the server's level is the
depth or one more (the level the driver opened by itself), which is why the last COMMIT,
with the driver's commit after it, brings it to 0 on either reading of the
driver.

*Migrator.* `HasRun` adds to `RecordedHasRun` that an invocation which is about to
record a script has run it, and that what it skipped or passed is in the schema;
`Tracked` says what `effect` is in the middle of an iteration. `StopAhead`: as long as
anything is left, a stop_at that was listed is left too, so what an undo comes
to is not before it. `Accounted`: what is behind an apply is in the table just as far as
it was to go, and of what is left the table still says what the invocation read; that
it read ids other than 0 is part of it, since 0 is what the code takes for none.

*Creation.* `HeldBack` is what the four rest on: what one connection has made and not
committed, another one that wants to make it waits for. `OnceInv`: one thing of the entity, the `Gate`
(the table on MSSQL, the first index elsewhere), is made by a strict statement, so of all
racing creations one gets past it, and whoever finds the hook's rows, committed or not, finds the gate
with them (`Claims`), so a rollback or a death that takes the gate takes the rows too; on SQLite's
asynchronous class without an index it is the loop, which is not suspended inside, that
lets one through. `AllInv`: on MSSQL a connection that has something uncommitted is
the only one (`made = {}` and nobody else has any), it has the table first,
and except while it creates it has nothing or everything (`Even`), so that what a
commit adds is everything; what a timeout cuts off had made nothing, since it waits at the
table. `Progress(m)`: what all have made together is what the first `m` statements make,
nobody is further than the next, and unless something was lost or cut off one creation stands exactly
there. `Awaited`: an adapter that does not find the table and has not lost it keeps the wish to
create it, and once it counts as initialized a call is on its way to do so and no operation starts;
`Nested` says who waits for whom, and `TableFirst` that the table is the first thing made.

*Rows.* `RowsInv` gives for each list of statements that may be left of a call what
the call knows at that point: `Before` its write, or `Between` its write and the last of its
reads, when the key the server generated is in its cursor, or on a connection that
nobody else uses, or in a transaction that keeps the others from the table.

*Adapters.* `HubInv`: an adapter is kept under the key made from what it was asked
for, an answer came from the cache, and until a `close()` every adapter kept is
bound to a connection that is open; the last is needed because the cache outlives the
call that filled it.

*The order of DDL.* `OrderInv`: what is queued or seen lies on the way to what the
adapter's entities reach, and everything seen refers to what is seen or queued, so an empty
queue leaves exactly the reachable entities. What was emitted had its targets
before it, and no table that sorts before it was ready then. The hard part is `FallBack`: if no
table that remains is ready, each refers to one that remains, and `CycleBelow`
shows that each is then above a cycle: of the tables it reaches among those, take one
whose own reach is smallest; the one it refers to reaches no less, hence reaches itself.
So the tables that are emitted by the alphabet alone are those the property
makes no promise for.

*Filters.* `FilterInv` says of every group that it is one of the clause's conjunctions, a
maximal run of conditions without OR (`RunsFrom`), with each condition bound to the
parameters its placeholders stand for, counted from the left; the open group is the
last run, and every condition is in a group. Supported clauses test a field
once in a conjunction, which is what makes a later condition not overwrite an earlier
one in the dict. At the end of a clause a document then matches a group when the
conditions of its run hold (`GroupMeansIt`), a run is what `Conjoined` means
(`RunIsConjunction`), and the cursor's statements follow (`CursorsFollow`).

*Single values.* `ScalarsSurvive` is what `ValueSurvives` says where the hint is no
container: integers, dates, clocks and offsets are any, and a store is one of the seven that can
keep the type (`ScalarStored`). A type is followed through what is written (the hint
decides in SQL, the value's own type in BSON and JSON), what the driver returns
(`ReturnedScalar`) and what is read. A datetime comes to the same in the end because
writing and reading pick policies that fit: where the driver drops the offset, both sides go to
UTC (`AssumeUtc`), and where it is kept, neither does. The theorem leaves out the
texts `null` and `NULL`, which every conversion takes for None (section 6), and times at an
offset other than UTC, which no store keeps.

### Only model-checked

* The two liveness properties, `EverythingApplied` and `EveryCallReturns`, and with them
  everything about fairness, which is out of the prover's reach.
* `ValueSurvives`: a value is a nest of containers, the conversions follow it down by
  recursion, and what they return for every value needs induction over it, which the
  prover cannot be given here. Without containers it is `ScalarsSurvive`, which is proved.
* `TypeOK` of `MCTables`, as its module sees that recursion. The five parts it consists
  of are theorems of their own modules.

Every other property that a passing run checks is a theorem.

## 5. The hazards

`PROJECT.json` lists them with their lines and the properties that watch them.
Five have no property. `rollback_savepoint` of MSSQL swallows every error
(mssql l.253): the step is in the model, but nothing is promised of it. `__del__`
schedules `close()` (`async_run.py` l.42): when it is called is the interpreter's
business. MongoDB's nested `begin_transaction`, which replaces the session, is a step that
leaves no trace in the database, where the properties of `Providers` look. Two are cases in
which the code loses, that a property therefore leaves out: MongoDB's scheduled creation
(`TableIsWhole`) and a clash on another column (`StoredWhenReturned`). `KeyNamesOwnRow`
leaves out connections that tasks share; section 6 has all three. `FirstUseFindsTable` leaves out a rollback, an
adapter shared by tasks that are suspended in the creation, `primary_key` read first, and MongoDB,
where an insert makes the collection and so there is nothing to find. The first three are what
`LazyMeansCreated` refuses; the run `CreationRolledBack` shows the rollback, on MSSQL.

## 6. Where code and documentation part

Shown by a run:

* `README.md:11` "never leave a mismanaged state": the depth is -2 before COMMIT
  is sent (sqlite l.118). If it is refused (database is locked), `rollback()`
  raises, `__exit__` does nothing, and the transaction stays open
  (`SqliteBusyCommit`).
* `docs/migration.rst:73`, undo stops at stop_at: it is looked up in the table but
  compared with files (migrator l.147, l.170-175), so with the file gone the loop
  never stops (`MigratorLostFile`). `UndoKeepsWhatIsBefore` asks for the file.
* `mssql_table_adapter.py` l.49, `create_table=True` creates the table if it does not
  exist: a rollback takes the table, the caller's `adapter.rollback()` (l.245-247) among others,
  and leaves `__initialized` (l.71) and `__create_table` (l.239) as they are, so the next
  operation finds no table (`CreationRolledBack`). `FirstUseFindsTable` holds until then.

`docs/hooks.rst:49-51` says that the hook fires at most once per table, and that
two racing processes may both fire it. `SeededOnce` says where they do not: on MSSQL, and on
SQLite and MySQL if the entity has an index, the one that comes second fails in its DDL, or waits
and finds the table. Without an index on SQLite and MySQL, and on ClickHouse and MongoDB, both may,
as the documentation has it. What `docs/hooks.rst:46-47` says of seed data, that it takes part in the
transaction, the model follows: a rollback takes the hook's rows, and on MySQL, or on SQLite outside
of a context, leaves the table without them, and nobody runs the hook again.

Met while modelling, read from the code, and without a run of their own:

* `docs/hooks.rst:53-54`, a hook that raises leaves the table in place and is not run
  again: on MSSQL the table is in the transaction, and if that is rolled back
  the next `create_table()` finds none and runs the hook again;
* `create_table=True` means creation on the first operation
  (`async_mysql_table_adapter.py` l.31, `docs/hooks.rst:43-44`), with the indexes
  (`async_mongo_table_adapter.py` l.38): `primary_key` of the asynchronous MySQL adapter sets
  `__initialized` without creating anything (l.76); on asynchronous ClickHouse and MySQL a
  second task finds it set while the first one is still creating
  (`async_clickhouse_table_adapter.py` l.69, MySQL's l.68); on asynchronous MongoDB the creation
  is only scheduled, so the first insert comes before it and neither index nor hook follows (l.78);
* `async_mysql_table_adapter.py` l.173, `create` returns the key of the created entity: tasks that
  share a connection may get each other's (l.203);
* `db_table_adapter.py` l.70, `upsert` inserts or updates: on SQLite an entity that clashes
  with another row on a unique column is dropped (`sqlite_table_adapter.py` l.305);
* `docs/transactions.rst:21`, a transaction still open at the end of the scope is rolled back:
  a write after `commit()` in the block opens a transaction in the driver, and
  `__exit__`, which looks at the depth, leaves it (sqlite l.60);
* `docs/transactions.rst:36`, `rollback(n)` goes back to a named savepoint: it discards the whole
  transaction and ends the scope (sqlite l.149);
* `docs/transactions.rst:87`, nested scopes of MySQL map to savepoints: a second
  scope on the connection sends START TRANSACTION (mysql l.104), which commits the
  first one's work; `DurableOnlyByCommitOrDdl` names it among the ways work is kept;
* `docs/migration.rst:16`, re-running is safe: a process that dies between
  the script's commit and the row's has applied a migration that is not listed,
  and the next run applies it again (migrator l.107). `TableTellsTheSchema` is
  therefore checked without crashes;
* SQLite's driver does not commit before DDL (`docs/transactions.rst:111`), which is in the
  models what the driver does;
* a `with` inside another on one SQLite connection is refused at BEGIN, no
  savepoint is made (sqlite l.50; `docs/transactions.rst:73`, `:82`);
* `execute_script` with two statements that reach the driver raises, after a COMMIT
  among them has been counted (sqlite l.251; `docs/transactions.rst:46`);
* on MySQL, a savepoint that DDL has released makes `rollback_savepoint()` fail
  with no fallback (mysql l.136; `docs/transactions.rst:114`);
* on MySQL, a repeated savepoint name leaves a stale entry in the list (mysql
  l.109; `docs/transactions.rst:72`);
* on MySQL, a nested BEGIN is scrubbed and not counted, so the inner commit is
  final (mysql l.94; `docs/transactions.rst:32`, `:34`);
* on MSSQL, nested BEGIN and COMMIT are sent, not scrubbed (mssql l.109, l.128;
  `docs/transactions.rst:91-94`), and a script with a COMMIT never has the driver's
  commit, since its text is not just `COMMIT` (mssql l.315, l.382): with a level of
  the driver's own the work is lost when the connection closes;
* a script whose first statement fails has still changed the books by all of its
  lines, so the depth may stay ahead of the server and a nested COMMIT, which
  MSSQL sends, be the server's last; `DurableOnlyByLastCommit` of `Providers` is for
  clients without scripts;
* on MongoDB, a nested `begin_transaction` replaces the cursor and its session
  (`mongo_transaction_context.py` l.212), and BEGIN overwrites the name of the
  transaction, as on ClickHouse; documents are written outside the session
  whatever the mode (`mongo_proxy_cursor.py` l.214; `docs/migration.rst:257`); the
  answer to "does the server delegate" is cached under a name that is never
  written (`mongo_transaction_context.py` l.55) and looks for a key `replSetName`
  (l.75);
* asynchronous MongoDB begins a transaction on a session that has been ended
  (`async_mongo_transaction_context.py` l.203-212);
* the asynchronous SQLite context is entered by its first call: a
  `begin_transaction()` on it makes the depth 2;
* `AsyncMySQLTransactionContext.execute` asserts a cursor that nothing creates
  (`async_mysql_transaction_context.py` l.213);
* MySQL's `update()` binds the names of the columns instead of their values
  (`mysql_table_adapter.py` l.243);
* a first lazy creation that fails is not tried again, since the flag is set before it
  (`mysql_table_adapter.py` l.67; `docs/hooks.rst:41-45`);
* on MySQL an `upsert` that clashes with another row on a unique column overwrites that
  row, and one of a key 0 with autoincrement returns 0;
* on ClickHouse a row is stored even when the call raises, because waiting for the
  replicas failed after the insert, and `db_table_adapter_factory` always turns that
  waiting on (`utils.py` l.862);
* `DbAdapter.close` keeps the adapters it has made, bound to the closed connection,
  and the registry is keyed by the class's `__name__`, for all subclasses
  (`db_adapter.py` l.173); two tasks in `connect()` open two connections, one of
  which nobody closes, and an asynchronous `close` resets whatever connection is
  there when it returns;
* the order of DDL guarantees nothing for a table above a cycle of foreign keys or
  above a self-reference (`utils.py` l.758 on, against its docstring);
* WHERE clauses for MongoDB (`mongodb/utils.py` l.108 on): a condition that is not
  understood is dropped, and so selects more; a field tested twice in a
  conjunction keeps its last test; AND and OR inside a literal or a BETWEEN split
  it; UPDATE binds its WHERE from the first parameter, as it does its SET; UPDATE and
  DELETE change one document; `<>` selects a missing field;
* translation: the texts `null` and `NULL` become None; a `time` loses its offset; a
  None reads back as the field's default on SQL; `Decimal` reaches SQLite unconverted;
  datetimes in bare containers come back naive from MongoDB (`translation/utils.py`
  l.146); an enum or a timedelta in a container is not JSON;
* a script that rolls back and returns normally is recorded as applied (migrator
  l.105-108), and `db-migrate` exits with 0 after a failed apply
  (`db_migrate.py` l.169).

## 7. Not modelled, and the plan

Partly modelled, or not at all:

* commits a client sends on the connection, past the contexts of `ProviderTxn`
  (`SqliteTxn` and `MysqlTxn` have them);
* hooks that end the transaction themselves, and coroutine hooks of synchronous adapters
  (section 2, Tables); contexts of MSSQL over another context, for which the driver's
  `commit()` is not called (mssql l.315);
* `query()` and `bulk_create()` of the adapters, ORDER BY, LIMIT, INSERT and
  `executemany` of the MongoDB cursors, and fetching everywhere: results that no
  other state depends on;
* `float`, `Any` and heterogeneous containers in `Translation`, and the stores' columns
  that a type is not meant for; the scalar rules of the compiled plan and of
  `to_pyobject` are one operator, so a difference between these two is out of sight;
* `tlc_parser.py` beyond what its answers mean, type mappers, validation, connection
  strings and entity declarations: lookup and text without state;
* `connect`, `create_database`, `drop_database`, the configuration and printing of
  `db-migrate`: I/O; `__del__` of the asynchronous classes; the drivers and servers
  beyond what is marked external.

What is left to prove of the properties that are checked is nothing the prover can
reach (section 4). The next steps, in this order:

1. weaker hypotheses: `Disciplined` of SQLite with scripts and refused savepoints, and
   `OnTopOfPredecessors` with undo in the mix, each with its run first;
2. commits past the contexts in `ProviderTxn`, as `SqliteTxn` has them;
3. `query()` and `bulk_create()` in `TableRows`.
