---------------------------- MODULE SqliteSession ----------------------------
(***************************************************************************)
(* External: one SQLite connection as the contexts use it, in the default  *)
(* isolation level of Python's sqlite3 driver.  SAVEPOINT opens a          *)
(* transaction when there is none, a BEGIN inside a transaction is refused,*)
(* and so are COMMIT and ROLLBACK outside one.                             *)
(***************************************************************************)
EXTENDS DbSession

(* Whether the server itself has no reason to refuse s. *)
Accepts(db, s) ==
  /\ ~ db.closed
  /\ s.op = "begin" => ~ db.open
  /\ s.op \in {"commit", "rollback"} => db.open
  /\ s.op = "rollbackTo" => Occurs(MarkNames(db), s.arg)
  /\ s.op = "insert" => s.arg \notin db.work

Apply(db, s) ==
  CASE s.op = "begin"      -> [db EXCEPT !.open = TRUE]
    [] s.op = "savepoint"  -> [db EXCEPT !.open = TRUE,
                                 !.marks = Append(@, [name |-> s.arg, rows |-> db.work])]
    [] s.op = "insert"     -> [db EXCEPT !.open = TRUE, !.work = @ \cup {s.arg}]
    [] s.op = "rollbackTo" -> ReturnTo(db, LastOf(MarkNames(db), s.arg))
    [] s.op = "commit"     -> Settled(db, db.work)
    [] s.op = "rollback"   -> Discard(db)
=============================================================================
