------------------------------ MODULE MssqlTxn ------------------------------
(***************************************************************************)
(* MSSQLTransactionContext (src/deev/mssql/mssql_transaction_context.py)   *)
(* and its asynchronous shim, over one connection of mssql_python.         *)
(***************************************************************************)
EXTENDS ScopeCalls

-----------------------------------------------------------------------------
(* External: T-SQL counts BEGINs.  The driver is not in autocommit mode: it *)
(* opens a transaction by itself before the first statement, and whether    *)
(* that is a level of its own under an explicit BEGIN is the driver's       *)
(* business, as is whether its commit() ends one level or all.              *)

TsqlAccepts(d, s) ==
  /\ s.op \in {"commit", "rollback", "savepoint"} => d.level > 0
  /\ s.op = "rollbackTo" => Occurs(MarkNames(d), s.arg)
  /\ s.op = "insert" => s.arg \notin d.work

OneLevelLess(d) ==
  IF d.level <= 1 THEN [Settled(d, d.work) EXCEPT !.level = 0]
                  ELSE Leveled(d, d.level - 1)

TsqlResults(d, s) ==
  CASE s.op = "begin"      -> {Leveled(d, d.level + 1)}
                                \cup {Leveled(d, 2) : z \in {0} \cap {d.level}}
    [] s.op = "savepoint"  -> {[d EXCEPT !.marks =
                                  Append(@, [name |-> s.arg, rows |-> d.work])]}
    [] s.op = "insert"     -> {[Leveled(d, IF d.level = 0 THEN 1 ELSE d.level)
                                  EXCEPT !.work = @ \cup {s.arg}]}
    [] s.op = "rollbackTo" -> {ReturnTo(d, LastOf(MarkNames(d), s.arg))}
    [] s.op = "commit"     -> {OneLevelLess(d)}
    [] s.op = "rollback"   -> {Quiet(d)}

TsqlReplies(d, s) ==
  {[r EXCEPT !.db = IF r.db.open /\ r.db.level = 0 THEN Leveled(r.db, 1) ELSE r.db] :
     r \in Replies(d, s, TsqlAccepts(d, s), TsqlResults(d, s))}

(* connection.commit() of the driver *)
DriverCommits(d) ==
  Replies(d, Commit, TRUE,
          {OneLevelLess(d), [Settled(d, d.work) EXCEPT !.level = 0]})

-----------------------------------------------------------------------------
(* __preprocess_sql *)

(* Mutants of MssqlBegin: the nested one is counted and not sent; the name  *)
(* is the statement.                                                        *)
UnsentMssqlBegin(x, s) ==
  Sends([x EXCEPT !.depth = @ + 1, !.name = IF x.depth = 0 THEN s.arg ELSE @],
        IF x.depth = 0 THEN s ELSE Scrub)

MisnamedMssqlBegin(x, s) ==
  Sends([x EXCEPT !.depth = @ + 1, !.name = s], s)

MssqlBegin(x, s) ==
  Sends([x EXCEPT !.depth = @ + 1, !.name = IF x.depth = 0 THEN s.arg ELSE @], s)

(* Every COMMIT is sent, nested or not. *)
MssqlCommit(x, s) ==
  CASE x.depth = 0 -> Sends(x, Raise)
    [] x.depth = 1 -> Sends(FinishedBooks(Committed), s)
    [] x.depth > 1 -> Sends([x EXCEPT !.depth = @ - 1], s)

(* Mutant of MssqlRollback: the full one is scrubbed. *)
SilentMssqlRollback(x, s) ==
  CASE x.depth = 0 -> Sends(x, Raise)
    [] x.depth > 0 /\ Occurs(x.savepoints, s.arg) ->
         Sends([x EXCEPT !.savepoints = PopThrough(@, s.arg)], RollbackTo(s.arg))
    [] x.depth > 0 /\ ~ Occurs(x.savepoints, s.arg) ->
         Sends(FinishedBooks(RolledBack), Scrub)

(* ROLLBACK TRANSACTION takes a savepoint's name or the transaction's. *)
MssqlRollback(x, s) ==
  CASE x.depth = 0 -> Sends(x, Raise)
    [] x.depth > 0 /\ Occurs(x.savepoints, s.arg) ->
         Sends([x EXCEPT !.savepoints = PopThrough(@, s.arg)], RollbackTo(s.arg))
    [] x.depth > 0 /\ ~ Occurs(x.savepoints, s.arg) ->
         IF s.arg \in {NoName, x.name}
         THEN Sends(FinishedBooks(RolledBack), Rollback(NoName))
         ELSE Sends(x, Raise)

MssqlPreprocess(x, s) ==
  IF x.depth \in Finished THEN Sends(x, Raise)
  ELSE CASE s.op = "begin"     -> MssqlBegin(x, s)
         [] s.op = "savepoint" -> Sends([x EXCEPT !.savepoints = Append(@, s.arg)], s)
         [] s.op = "commit"    -> MssqlCommit(x, s)
         [] s.op = "rollback"  -> MssqlRollback(x, s)
         [] s.op = "insert"    -> Sends(x, s)

-----------------------------------------------------------------------------
(* The methods. *)

(* Mutant of MssqlSend: the driver's own commit is left out. *)
UndrivenMssqlSend(o, d, s) ==
  {Outcome(o, r.db, r.ok) : r \in TsqlReplies(d, s)}

(* The COMMIT of the last BEGIN is followed by the driver's commit(), if    *)
(* the context is over a connection: here it is, never over another context. *)
MssqlSend(o, d, s) ==
  LET last == s = Commit /\ o.books.depth = Committed
  IN  UNION {{Outcome(o, t.db, t.ok) : t \in IF last /\ r.ok THEN DriverCommits(r.db)
                                                             ELSE {r}} :
               r \in TsqlReplies(d, s)}

MssqlExecute(o, d, s) ==
  LET p == MssqlPreprocess(o.books, s)
      q == [o EXCEPT !.books = p.books]
  IN  CASE p.stmt \in {Raise, Scrub} -> {Outcome(q, d, p.stmt = Scrub)}
        [] p.stmt \notin {Raise, Scrub} /\ o.gone -> Raised(q, d)
        [] p.stmt \notin {Raise, Scrub} /\ ~ o.gone -> MssqlSend(q, d, p.stmt)

(* External: ROLLBACK TRANSACTION takes the name of a savepoint. *)
TsqlReading(s) ==
  IF s.op = "rollback" /\ s.arg # NoName THEN RollbackTo(s.arg) ELSE s

(* execute(sql, raw=True) *)
MssqlRaw(o, d, s) ==
  IF o.gone THEN Raised(o, d) ELSE MssqlSend(o, d, TsqlReading(s))

(* A batch: an error in its first statement need not end it. *)
TsqlBatch(o, d, lines) ==
  LET first == TsqlReplies(d, TsqlReading(lines[1]))
      Rest(r) == IF Len(lines) = 1 THEN {r} ELSE TsqlReplies(r.db, TsqlReading(lines[2]))
  IN  UNION {{Outcome(o, t.db, r.ok /\ t.ok) : t \in Rest(r) \cup (IF r.ok THEN {} ELSE {r})} :
               r \in first}

(* The text of a script is never just COMMIT: the driver does not commit.   *)
MssqlScript(o, d, s, t) ==
  Script(o, d, s, t, LAMBDA q, u : Line(q, MssqlPreprocess(q.books, u), u),
         LAMBDA q, e, lines : IF q.gone THEN Raised(q, e) ELSE TsqlBatch(q, e, lines))

(* rollback_savepoint swallows whatever execute raises. *)
MssqlRollbackSavepoint(o, d, n) ==
  {[r EXCEPT !.ok = TRUE] : r \in MssqlExecute(o, d, Rollback(n))}

(* cursor().execute(...), which looks at no depth. *)
MssqlCursorInsert(o, d, r) ==
  IF o.gone THEN Raised(o, d) ELSE MssqlSend(o, d, Insert(r))

MssqlClose(o, d, owned) ==
  IF owned THEN Outcome([o EXCEPT !.gone = TRUE], Dead(d), TRUE)
           ELSE Outcome(o, d, TRUE)

(* Mutant of MssqlExit: a connection that is owned is not closed. *)
UnclosedMssqlExit(o, d, owned) ==
  Leave(IF o.books.depth > 0 THEN MssqlExecute(o, d, Rollback(NoName)) ELSE Returned(o, d))

MssqlExit(o, d, owned) ==
  LET rolled == IF o.books.depth > 0 THEN MssqlExecute(o, d, Rollback(NoName))
                                     ELSE Returned(o, d)
  IN  Leave({MssqlClose(r.obj, r.db, owned) : r \in rolled})

-----------------------------------------------------------------------------
(* AsyncMSSQLTransactionContext: a synchronous context made on first use.   *)

AsyncMssqlInner(o) == [o EXCEPT !.made = TRUE]

AsyncMssqlExit(o, d, owned) == MssqlExit(o, d, owned)

AsyncMssqlClose(o, d, owned) ==
  IF o.made THEN MssqlClose(o, d, owned) ELSE Outcome(o, d, TRUE)
=============================================================================
