---------------------------- MODULE MysqlSession ----------------------------
(***************************************************************************)
(* External: one MySQL connection as the contexts use it, with autocommit  *)
(* off, the driver's default.  START TRANSACTION inside a transaction      *)
(* commits that one first; DDL commits it too, and drops its savepoints; a *)
(* second SAVEPOINT of one name replaces the first; beginning and ending   *)
(* a transaction take no name, and are otherwise never refused.            *)
(***************************************************************************)
EXTENDS DbSession

Ddl == [op |-> "ddl", arg |-> NoName]

Accepts(db, s) ==
  /\ ~ db.closed
  /\ s.op \in {"begin", "rollback"} => s.arg = NoName
  /\ s.op = "rollbackTo" => Occurs(MarkNames(db), s.arg)
  /\ s.op = "insert" => s.arg \notin db.work

(* The marks without the one named n. *)
Without(marks, n) ==
  LET at == CHOOSE i \in 1..Len(marks) : marks[i].name = n
  IN  IF \A i \in 1..Len(marks) : marks[i].name # n THEN marks
      ELSE [i \in 1..(Len(marks) - 1) |-> marks[IF i < at THEN i ELSE i + 1]]

Replaced(marks, m) == Append(Without(marks, m.name), m)

Apply(db, s) ==
  CASE s.op = "begin"      -> [Settled(db, db.work) EXCEPT !.open = TRUE]
    [] s.op = "savepoint"  -> [db EXCEPT !.open = TRUE,
                                 !.marks = Replaced(@, [name |-> s.arg, rows |-> db.work])]
    [] s.op = "insert"     -> [db EXCEPT !.open = TRUE, !.work = @ \cup {s.arg}]
    [] s.op = "rollbackTo" -> ReturnTo(db, LastOf(MarkNames(db), s.arg))
    [] s.op \in {"commit", "ddl"} -> Settled(db, db.work)
    [] s.op = "rollback"   -> Discard(db)
=============================================================================
