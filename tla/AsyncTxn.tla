------------------------------ MODULE AsyncTxn ------------------------------
(***************************************************************************)
(* AsyncSQLiteTransactionContext, a shim over the synchronous context, and *)
(* AsyncMySQLTransactionContext, which has no synchronous one under it.    *)
(* What the synchronous contexts do is taken from SqliteTxn and MysqlTxn.  *)
(***************************************************************************)
EXTENDS ScopeCalls

CONSTANTS Ctx, Owners, Uses, MaxDepth, MaxPoints

VARIABLES ctx, scope, db

Sqlite == INSTANCE SqliteTxn
Mysql == INSTANCE MysqlTxn

SqliteSend(o, d, s) ==
  {Outcome(o, r.db, r.ok) :
     r \in Replies(d, s, Sqlite!Accepts(d, s), IF Sqlite!Accepts(d, s)
                                               THEN {Sqlite!Apply(d, s)} ELSE {})}

SqliteExecute(o, d, s) ==
  LET p == Sqlite!Preprocess(o.books, s)
      q == [o EXCEPT !.books = p.books]
  IN  IF p.stmt \in {Raise, Scrub} THEN {Outcome(q, d, p.stmt = Scrub)}
                                   ELSE SqliteSend(q, d, p.stmt)

(* __get_inner_ctx: the synchronous context is kept, and then entered; when *)
(* BEGIN is refused it is not entered again.                                *)
AsyncSqliteInner(o, d) ==
  IF o.made THEN Returned(o, d)
  ELSE SqliteExecute([o EXCEPT !.made = TRUE], d, Begin(NoName))

AsyncSqliteExecute(o, d, s) ==
  Then(AsyncSqliteInner(o, d), LAMBDA q, e : SqliteExecute(q, e, s))

AsyncSqliteRaw(o, d, s) ==
  Then(AsyncSqliteInner(o, d), LAMBDA q, e : SqliteSend(q, e, s))

(* The driver takes one statement a call. *)
AsyncSqliteScript(o, d, s, t) ==
  Then(AsyncSqliteInner(o, d),
       LAMBDA p, f :
         Script(p, f, s, t, LAMBDA q, u : Line(q, Sqlite!Preprocess(q.books, u), u),
                LAMBDA q, e, lines : IF Len(lines) > 1 THEN Raised(q, e)
                                     ELSE SqliteSend(q, e, lines[1])))

AsyncSqliteCursorInsert(o, d, r) ==
  Then(AsyncSqliteInner(o, d), LAMBDA q, e : SqliteSend(q, e, Insert(r)))

AsyncSqliteClose(o, d, owned) ==
  Outcome(o, IF o.made /\ owned THEN Dead(d) ELSE d, TRUE)

AsyncSqliteExit(o, d, owned) ==
  LET rolled == IF o.made /\ o.books.depth > 0
                THEN SqliteExecute(o, d, Rollback(NoName)) ELSE Returned(o, d)
  IN  Leave({AsyncSqliteClose(r.obj, r.db, owned) : r \in rolled})

-----------------------------------------------------------------------------
(* execute() asserts a cursor that no method makes; by then the books have  *)
(* been changed.                                                            *)
AsyncMysqlExecute(o, d, s) ==
  LET p == Mysql!Preprocess(o.books, s)
  IN  {Outcome([o EXCEPT !.books = p.books], d, p.stmt = Scrub)}

AsyncMysqlRaw(o, d, s) == Raised(o, d)

AsyncMysqlScript(o, d, s, t) ==
  Script(o, d, s, t, LAMBDA q, u : Line(q, Mysql!Preprocess(q.books, u), u),
         LAMBDA q, e, lines : Raised(q, e))

(* begin_transaction() drops the name. *)
AsyncMysqlBegin(o, d) == AsyncMysqlExecute(o, d, Begin(NoName))

AsyncMysqlCursorInsert(o, d, r) ==
  IF o.gone THEN Raised(o, d)
  ELSE {Outcome(o, t.db, t.ok) :
          t \in Replies(d, Insert(r), Mysql!Accepts(d, Insert(r)), {Mysql!Apply(d, Insert(r))})}

AsyncMysqlClose(o, d, owned) ==
  IF owned THEN Outcome([o EXCEPT !.gone = TRUE], Dead(d), TRUE)
           ELSE Outcome(o, d, TRUE)

AsyncMysqlExit(o, d, owned) ==
  LET rolled == IF o.books.depth > 0 THEN AsyncMysqlExecute(o, d, Rollback(NoName))
                                     ELSE Returned(o, d)
  IN  Leave({AsyncMysqlClose(r.obj, r.db, owned) : r \in rolled})
=============================================================================
