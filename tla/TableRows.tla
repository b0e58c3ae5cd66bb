------------------------------ MODULE TableRows ------------------------------
(***************************************************************************)
(* create, read, update, delete, exists and upsert of the table adapters:  *)
(* the statements each class sends, one a step, from clients with a        *)
(* connection each or tasks that share one, over one table.  An entity is  *)
(* its key and one other column, which may be unique.                      *)
(***************************************************************************)
EXTENDS Integers, SequencesExt

CONSTANTS Client, Id, Tag,
          NoId,          \* the key of an entity that was given none
          MaxRowCalls    \* bound: calls the clients make

ASSUME RowsAssumption ==
  /\ Id \subseteq Nat \ {0} /\ NoId \notin Nat /\ MaxRowCalls \in Nat
  /\ Id # {} /\ Tag # {}

VARIABLES shop,      \* class, key and unique column of the table, connections
          rows,      \* the table
          counter,   \* the server's, or the document of `_deev`
          lastId,    \* LAST_INSERT_ID() of each connection
          pending,   \* mutations ClickHouse has accepted and not applied
          client,    \* the calls being executed
          served     \* how many were made

tableRows == <<shop, rows, counter, lastId, pending, client, served>>

Names == "names"     \* what update of the MySQL adapter writes for a value

Entity(id, tag) == [id |-> id, tag |-> tag]

-----------------------------------------------------------------------------
(* The statements of each method.  insert: the key is the server's if the   *)
(* table has autoincrement; append, mutate, mutateAway: ClickHouse's.       *)

WhenAuto(steps) == IF shop.auto THEN steps ELSE <<>>

ByKey(op) == CASE op = "read" -> <<"select">>
               [] op = "update" -> <<"update">>
               [] op = "delete" -> <<"delete">>

(* Mutant of SqliteProgram: upsert does not insert. *)
HalfSqliteProgram(op, id) ==
  CASE op = "create" \/ (op = "upsert" /\ shop.auto /\ id = NoId) ->
         <<"insert">> \o WhenAuto(<<"cursorKey">>)
    [] op = "upsert" /\ ~ (shop.auto /\ id = NoId) -> <<"update">>
    [] op \notin {"create", "upsert"} -> ByKey(op)

SqliteProgram(op, id) ==
  CASE op = "create" \/ (op = "upsert" /\ shop.auto /\ id = NoId) ->
         <<"insert">> \o WhenAuto(<<"cursorKey">>)
    [] op = "upsert" /\ ~ (shop.auto /\ id = NoId) -> <<"update", "insertOrIgnore">>
    [] op \notin {"create", "upsert"} -> ByKey(op)

(* update binds the names of the columns in place of the values. *)
MysqlProgram(op, id) ==
  CASE op = "create" \/ (op = "upsert" /\ shop.auto /\ id = NoId) ->
         <<"insert">> \o WhenAuto(<<"connectionKey">>)
    [] op = "upsert" /\ ~ (shop.auto /\ id = NoId) -> <<"insertOrUpdate">>
    [] op = "update" -> <<"updateNames">>
    [] op \notin {"create", "upsert", "update"} -> ByKey(op)

AsyncMysqlProgram(op, id) ==
  CASE op = "create" \/ (op = "upsert" /\ shop.auto /\ id \in {NoId, 0}) ->
         <<"insert">> \o WhenAuto(<<"connectionKey">>)
    [] op = "upsert" /\ ~ (shop.auto /\ id \in {NoId, 0}) -> <<"insertOrUpdate">>
    [] op \notin {"create", "upsert"} -> ByKey(op)

(* OUTPUT INSERTED, and a look whether the row is there. *)
MssqlCreate == <<"insert">> \o WhenAuto(<<"cursorKey">>) \o <<"verify">>

MssqlUpsert(id) ==
  IF shop.auto /\ id \in {NoId, 0} THEN MssqlCreate ELSE <<"update", "insertIfMissed">>

MssqlProgram(op, id) ==
  CASE op = "create" -> MssqlCreate
    [] op = "upsert" -> MssqlUpsert(id)
    [] op \notin {"create", "upsert"} -> ByKey(op)

(* upsert of a table with autoincrement always inserts. *)
MongoProgram(op, id) ==
  CASE op \in {"create", "upsert"} /\ shop.auto -> <<"count", "insertCounted">>
    [] op = "create" /\ ~ shop.auto -> <<"insert">>
    [] op = "upsert" /\ ~ shop.auto -> <<"updateOrInsert">>
    [] op \notin {"create", "upsert"} -> ByKey(op)

AsyncMongoProgram(op, id) == MongoProgram(op, id)

(* update and delete are mutations; upsert asks exists() first. *)
ClickHouseProgram(op, id) ==
  CASE op = "create" -> <<"append", "sync">>
    [] op = "update" -> <<"mutate", "sync">>
    [] op = "delete" -> <<"mutateAway", "sync">>
    [] op = "upsert" -> <<"select", "mutateOrAppend", "sync">>
    [] op = "read" -> <<"select">>

AsyncClickHouseProgram(op, id) == ClickHouseProgram(op, id)

(* The shims call a synchronous adapter. *)
AsyncSqliteProgram(op, id) == SqliteProgram(op, id)

AsyncMssqlProgram(op, id) == MssqlProgram(op, id)

Program(op, id) ==
  CASE shop.class = "sqlite"      -> SqliteProgram(op, id)
    [] shop.class = "mysql"       -> MysqlProgram(op, id)
    [] shop.class = "mssql"       -> MssqlProgram(op, id)
    [] shop.class = "mongo"       -> MongoProgram(op, id)
    [] shop.class = "clickhouse"  -> ClickHouseProgram(op, id)
    [] shop.class = "asyncSqlite" -> AsyncSqliteProgram(op, id)
    [] shop.class = "asyncMysql"  -> AsyncMysqlProgram(op, id)
    [] shop.class = "asyncMssql"  -> AsyncMssqlProgram(op, id)
    [] shop.class = "asyncMongo"  -> AsyncMongoProgram(op, id)
    [] shop.class = "asyncClickhouse" -> AsyncClickHouseProgram(op, id)

-----------------------------------------------------------------------------
Counting == {"sqlite", "mysql", "mssql", "mongo", "asyncSqlite", "asyncMysql",
             "asyncMssql", "asyncMongo"}       \* classes tried with autoincrement

Columnar == {"clickhouse", "asyncClickhouse"}

Shims == {"asyncSqlite", "asyncMssql"}

Async == Shims \cup {"asyncMysql", "asyncMongo", "asyncClickhouse"}

Shops == [class : Counting \cup Columnar, auto : BOOLEAN, unique : BOOLEAN, shared : BOOLEAN]

(* Tasks may share a connection, threads do not; ClickHouse knows neither   *)
(* autoincrement nor unique columns.                                        *)
LegalShop(s) ==
  /\ s.auto => s.class \in Counting
  /\ s.unique => s.class \notin Columnar
  /\ s.shared => s.class \in Async
  /\ ~ s.shared => s.class \notin Async \ {"asyncMysql"}

NoCall == [todo |-> <<>>, op |-> "none", id |-> NoId, tag |-> NoId, hit |-> FALSE,
          cursor |-> NoId, key |-> NoId, own |-> NoId, result |-> "none"]

RowsStart(s) ==
  /\ shop = s
  /\ rows \in {{}, {Entity(CHOOSE i \in Id : TRUE, CHOOSE t \in Tag : TRUE)}}
  /\ counter = IF rows = {} THEN 0 ELSE CHOOSE i \in Id : TRUE
  /\ lastId = [c \in Client |-> 0]
  /\ pending = {}
  /\ client = [c \in Client |-> NoCall]
  /\ served = 0

RowsInit == \E s \in {r \in Shops : LegalShop(r)} : RowsStart(s)

-----------------------------------------------------------------------------
Me(c) == client[c]

Busy(c) == Me(c).todo # <<>>

(* A shim awaits nothing; SQLite lets one write at a time, and the one that *)
(* has updated holds the lock until its caller commits.                     *)
RunsCall(c) ==
  \A d \in Client \ {c} :
    /\ shop.class \in Shims /\ shop.shared => ~ Busy(d)
    /\ shop.class \in {"sqlite", "asyncSqlite"} => Me(d).todo # <<"insertOrIgnore">>

Ids(op) ==
  CASE op = "create" -> IF shop.auto THEN {NoId} ELSE Id
    [] op = "upsert" -> IF shop.auto THEN Id \cup {NoId, 0} ELSE Id
    [] op \notin {"create", "upsert"} -> Id

TagsTried == IF shop.unique THEN Tag ELSE {CHOOSE t \in Tag : TRUE}

CallAdapter(c, op, id, tag) ==
  /\ ~ Busy(c) /\ served < MaxRowCalls /\ id \in Ids(op)
  /\ served' = served + 1
  /\ client' = [client EXCEPT ![c] =
                  [NoCall EXCEPT !.todo = Program(op, id), !.op = op, !.id = id, !.tag = tag,
                                 !.key = id]]
  /\ UNCHANGED <<shop, rows, counter, lastId, pending>>

(* After a statement: the next one, or the method returns. *)
Advanced(r) ==
  IF Len(r.todo) > 1 THEN [r EXCEPT !.todo = Tail(@)]
  ELSE [NoCall EXCEPT !.op = r.op, !.id = r.id, !.key = r.key, !.own = r.own,
                      !.result = "returned"]

Moves(c, r) == client' = [client EXCEPT ![c] = r]

Raises(c) ==
  /\ Moves(c, [NoCall EXCEPT !.result = "raised"])
  /\ UNCHANGED <<rows, counter, lastId, pending>>

Takes(id) == {x \in rows : x.id = id}

Clashes(id, tag) == Takes(id) \cup {x \in rows : shop.unique /\ x.tag = tag}

(* A row is written; own remembers its key. *)
Leaves(c, rs, id) ==
  /\ rows' = rs
  /\ Moves(c, Advanced([Me(c) EXCEPT !.own = id, !.hit = TRUE]))
  /\ UNCHANGED <<counter, lastId, pending>>

Passes(c, r) == Moves(c, Advanced(r)) /\ UNCHANGED <<rows, counter, lastId, pending>>

Wire(c) == IF shop.shared THEN CHOOSE d \in Client : TRUE ELSE c

(* External: the server gives the next key, and tells the cursor and the    *)
(* connection.                                                              *)
InsertGenerated(c) ==
  LET id == counter + 1
  IN  IF Clashes(id, Me(c).tag) # {} THEN Raises(c)
      ELSE /\ rows' = rows \cup {Entity(id, Me(c).tag)}
           /\ counter' = id /\ lastId' = [lastId EXCEPT ![Wire(c)] = id]
           /\ Moves(c, Advanced([Me(c) EXCEPT !.own = id, !.cursor = id]))
           /\ UNCHANGED pending

(* An explicit key takes the counter along. *)
InsertAs(c, id) ==
  IF Clashes(id, Me(c).tag) # {} THEN Raises(c)
  ELSE /\ rows' = rows \cup {Entity(id, Me(c).tag)}
       /\ counter' = IF id > counter THEN id ELSE counter
       /\ Moves(c, Advanced([Me(c) EXCEPT !.own = id]))
       /\ UNCHANGED <<lastId, pending>>

(* UPDATE of the rows old, which leaves them with tag. *)
Rewrites(c, old, tag) ==
  IF old = {} THEN Passes(c, [Me(c) EXCEPT !.hit = FALSE])
  ELSE IF shop.unique /\ \E x \in rows \ old : x.tag = tag THEN Raises(c)
  ELSE Leaves(c, (rows \ old) \cup {Entity(x.id, tag) : x \in old},
              (CHOOSE x \in old : TRUE).id)

(* ON DUPLICATE KEY UPDATE rewrites a row with the key or the unique tag.   *)
InsertOrUpdate(c) ==
  IF Me(c).id = NoId \/ (shop.auto /\ Me(c).id = 0) THEN InsertGenerated(c)
  ELSE IF Clashes(Me(c).id, Me(c).tag) = {} THEN InsertAs(c, Me(c).id)
  ELSE \E x \in Clashes(Me(c).id, Me(c).tag) : Rewrites(c, {x}, Me(c).tag)

(* Mutant of CursorKey: the last key of the table, whoever took it. *)
TableKey(c) == counter

(* lastrowid, OUTPUT INSERTED: of this cursor. *)
CursorKey(c) == Me(c).cursor

Accepts(c, mutation) ==
  /\ pending' = pending \cup {mutation}
  /\ Moves(c, Advanced([Me(c) EXCEPT !.own = Me(c).id]))
  /\ UNCHANGED <<rows, counter, lastId>>

AppendRow(c) == Leaves(c, rows \cup {Entity(Me(c).id, Me(c).tag)}, Me(c).id)

Mutation(c, kind) == [kind |-> kind, row |-> Entity(Me(c).id, Me(c).tag)]

Executes(c, s) ==
  LET id == Me(c).id
      tag == Me(c).tag
  IN  CASE s = "insert"         -> IF shop.auto THEN InsertGenerated(c) ELSE InsertAs(c, id)
        [] s = "insertCounted"  -> InsertAs(c, Me(c).key)
        [] s = "count"          -> /\ counter' = counter + 1
                                   /\ Moves(c, Advanced([Me(c) EXCEPT !.key = counter + 1]))
                                   /\ UNCHANGED <<rows, lastId, pending>>
        [] s = "cursorKey"      -> Passes(c, [Me(c) EXCEPT !.key = CursorKey(c)])
        [] s = "connectionKey"  -> Passes(c, [Me(c) EXCEPT !.key = lastId[Wire(c)]])
        [] s = "verify"         -> IF Takes(Me(c).key) = {} THEN Raises(c) ELSE Passes(c, Me(c))
        [] s = "select"         -> Passes(c, [Me(c) EXCEPT !.hit = Takes(id) # {}])
        [] s = "update"         -> Rewrites(c, Takes(id), tag)
        [] s = "updateNames"    -> Rewrites(c, Takes(id), Names)
        [] s = "insertOrUpdate" -> InsertOrUpdate(c)
        [] s = "insertOrIgnore" -> IF Clashes(id, tag) # {} THEN Passes(c, Me(c))
                                   ELSE InsertAs(c, id)
        [] s = "insertIfMissed" -> IF Me(c).hit THEN Passes(c, Me(c))
                                   ELSE IF shop.auto THEN Raises(c) ELSE InsertAs(c, id)
        [] s = "updateOrInsert" -> IF Takes(id) # {} THEN Rewrites(c, Takes(id), tag)
                                   ELSE InsertAs(c, id)
        [] s = "delete"         -> /\ rows' = rows \ Takes(id)
                                   /\ Moves(c, Advanced(Me(c)))
                                   /\ UNCHANGED <<counter, lastId, pending>>
        [] s = "append"         -> AppendRow(c)
        [] s = "mutate"         -> Accepts(c, Mutation(c, "update"))
        [] s = "mutateAway"     -> Accepts(c, Mutation(c, "delete"))
        [] s = "mutateOrAppend" -> IF Me(c).hit THEN Accepts(c, Mutation(c, "update"))
                                   ELSE AppendRow(c)
        [] s = "sync"           -> Passes(c, Me(c))

ExecuteStatement(c) ==
  /\ Busy(c) /\ RunsCall(c)
  /\ Executes(c, Head(Me(c).todo))
  /\ UNCHANGED <<shop, served>>

(* The server refuses the statement or the connection is lost: sync_replicas *)
(* after an insert too.                                                      *)
StatementFails(c) == Busy(c) /\ Raises(c) /\ UNCHANGED <<shop, served>>

(* External: ClickHouse applies a mutation, later. *)
ApplyMutation ==
  \E m \in pending :
    /\ pending' = pending \ {m}
    /\ rows' = (rows \ Takes(m.row.id))
                 \cup {Entity(x.id, m.row.tag) :
                         x \in IF m.kind = "update" THEN Takes(m.row.id) ELSE {}}
    /\ UNCHANGED <<shop, counter, lastId, client, served>>

(* exists() sends what read() sends. *)
Operations == {"create", "read", "update", "delete", "upsert"}

RowsNext ==
  \/ \E c \in Client : \/ ExecuteStatement(c) \/ StatementFails(c)
                       \/ \E op \in Operations, i \in Id \cup {NoId, 0}, t \in TagsTried :
                            RunsCall(c) /\ CallAdapter(c, op, i, t)
  \/ ApplyMutation

RowsSpec == RowsInit /\ [][RowsNext]_tableRows

-----------------------------------------------------------------------------
RowsTypeOK ==
  /\ shop \in Shops
  /\ \A x \in rows : x.id \in Nat /\ x.tag \in Tag \cup {Names}
  /\ counter \in Nat /\ served \in 0..MaxRowCalls
  /\ \A c \in Client : Me(c).result \in {"none", "returned", "raised"} /\ Me(c).hit \in BOOLEAN

WritesReturned(c) ==
  Me(c).op \in {"create", "upsert"} /\ Me(c).result = "returned"

SqlFamily == {"sqlite", "mysql", "asyncSqlite", "asyncMysql"}

(* create() and upsert() that return have left the entity in the table, or  *)
(* ClickHouse with the order to: what other clients did between two of its  *)
(* statements makes them raise.  Not for upsert() on SQLite and MySQL if    *)
(* another column is unique: an entity that clashes there is dropped.       *)
StoredWhenReturned ==
  \A c \in Client :
    WritesReturned(c) /\ (Me(c).op = "upsert" => ~ (shop.unique /\ shop.class \in SqlFamily))
      => Me(c).own # NoId

(* The key they return names the row they wrote, not one that another       *)
(* client took meanwhile.  Not for tasks that share a MySQL connection, for *)
(* a clash as above, and for a key of 0 with autoincrement on MySQL.        *)
KeyNamesOwnRow ==
  \A c \in Client :
    /\ WritesReturned(c) /\ Me(c).own # NoId
    /\ ~ (shop.class = "asyncMysql" /\ shop.shared)
    /\ Me(c).op = "upsert" => ~ (shop.unique /\ shop.class \in SqlFamily)
    /\ ~ (shop.class = "mysql" /\ shop.auto /\ Me(c).id = 0)
    => Me(c).key = Me(c).own
=============================================================================
