---------------------------- MODULE ClickHouseTxn ----------------------------
(***************************************************************************)
(* ClickHouseTransactionContext and AsyncClickHouseTransactionContext      *)
(* (src/deev/clickhouse/): the books are kept and nothing of them is ever  *)
(* sent; a row that is written is there for everybody.                     *)
(***************************************************************************)
EXTENDS MongoTxn

ClickHouseCommit(x) ==
  CASE x.depth = 0 -> Sends(x, Raise)
    [] x.depth = 1 -> Sends(FinishedBooks(Committed), Scrub)
    [] x.depth > 1 -> Sends([x EXCEPT !.depth = @ - 1], Scrub)

ClickHouseRollback(x, n) ==
  CASE x.depth = 0 -> Sends(x, Raise)
    [] x.depth > 0 /\ Occurs(x.savepoints, n) ->
         Sends([x EXCEPT !.savepoints = PopThrough(@, n)], Scrub)
    [] x.depth > 0 /\ ~ Occurs(x.savepoints, n) ->
         IF n \in {NoName, x.name} THEN Sends(FinishedBooks(RolledBack), Scrub)
                                   ELSE Sends(x, Raise)

ClickHousePreprocess(x, s) ==
  IF x.depth \in Finished THEN Sends(x, Raise)
  ELSE CASE s.op = "begin"     -> Sends([x EXCEPT !.depth = @ + 1, !.name = s.arg], Scrub)
         [] s.op = "savepoint" -> Sends([x EXCEPT !.savepoints = Append(@, s.arg)], Scrub)
         [] s.op = "commit"    -> ClickHouseCommit(x)
         [] s.op = "rollback"  -> ClickHouseRollback(x, s.arg)
         [] s.op = "insert"    -> Sends(x, s)

(* Mutant of ClickHouseExecute: a finished context still writes. *)
CarelessClickHouseExecute(o, d, s) ==
  IF s.op = "insert" THEN DocumentWrite(o, d, s.arg)
  ELSE Returned([o EXCEPT !.books.depth = IF s = Commit THEN 0 ELSE @], d)

ClickHouseExecute(o, d, s) ==
  LET p == ClickHousePreprocess(o.books, s)
      q == [o EXCEPT !.books = p.books]
  IN  CASE p.stmt \in {Raise, Scrub} -> {Outcome(q, d, p.stmt = Scrub)}
        [] p.stmt \notin {Raise, Scrub} /\ o.gone -> Raised(q, d)
        [] p.stmt \notin {Raise, Scrub} /\ ~ o.gone -> DocumentWrite(q, d, s.arg)

(* raw=True: the server refuses transaction control. *)
ClickHouseRaw(o, d, s) ==
  IF o.gone \/ s.op # "insert" THEN Raised(o, d) ELSE DocumentWrite(o, d, s.arg)

(* A script writes at most one row. *)
ClickHouseScript(o, d, s, t) ==
  Script(o, d, s, t, LAMBDA q, u : Line(q, ClickHousePreprocess(q.books, u), u),
         LAMBDA q, e, lines : IF q.gone THEN Raised(q, e)
                              ELSE DocumentWrite(q, e, lines[1].arg))

(* A cursor is made first, from the context. *)
ClickHouseBegin(o, d, n) ==
  IF o.gone THEN Raised(o, d) ELSE ClickHouseExecute(o, d, Begin(n))

ClickHouseCursorInsert(o, d, r) ==
  IF o.gone THEN Raised(o, d) ELSE DocumentWrite(o, d, r)

ClickHouseClose(o, d, owned) ==
  Outcome([o EXCEPT !.gone = TRUE], IF owned /\ ~ o.gone THEN Dead(d) ELSE d, TRUE)

ClickHouseExit(o, d, owned) ==
  LET rolled == IF o.books.depth > 0 THEN ClickHouseExecute(o, d, Rollback(NoName))
                                     ELSE Returned(o, d)
  IN  Leave({ClickHouseClose(r.obj, r.db, owned) : r \in rolled})
-----------------------------------------------------------------------------
(* AsyncClickHouseTransactionContext keeps the same books. *)

AsyncClickHousePreprocess(x, s) == ClickHousePreprocess(x, s)

(* begin_transaction always makes a cursor; execute asks for the context    *)
(* before it uses one.                                                      *)
AsyncClickHouseExecute(o, d, s) ==
  LET p == AsyncClickHousePreprocess(o.books, s)
      q == [o EXCEPT !.books = p.books]
  IN  CASE p.stmt \in {Raise, Scrub} -> {Outcome(q, d, p.stmt = Scrub)}
        [] p.stmt \notin {Raise, Scrub} /\ o.gone -> Raised(q, d)
        [] p.stmt \notin {Raise, Scrub} /\ ~ o.gone -> DocumentWrite(q, d, s.arg)

AsyncClickHouseScript(o, d, s, t) == ClickHouseScript(o, d, s, t)

AsyncClickHouseBegin(o, d, n) ==
  IF o.gone THEN Raised(o, d) ELSE AsyncClickHouseExecute(o, d, Begin(n))

AsyncClickHouseClose(o, d, owned) == ClickHouseClose(o, d, owned)

AsyncClickHouseExit(o, d, owned) ==
  LET rolled == IF o.books.depth > 0
                THEN AsyncClickHouseExecute(o, d, Rollback(NoName)) ELSE Returned(o, d)
  IN  Leave({AsyncClickHouseClose(r.obj, r.db, owned) : r \in rolled})
=============================================================================
