------------------------------ MODULE MysqlTxn ------------------------------
(***************************************************************************)
(* MySQLTransactionContext (src/deev/mysql/mysql_transaction_context.py)   *)
(* over one MySQL connection, which several contexts may use.              *)
(*                                                                         *)
(* A call that raises before it changes anything is a stuttering step.     *)
(* The ambient transaction id is written and never read by this class.     *)
(***************************************************************************)
EXTENDS MysqlSession

CONSTANTS
  Ctx,          \* the context objects
  Owners,       \* those made with owns_context=True
  Faults,       \* statements the server may refuse for reasons of its own,
                \* and "abort": a deadlock victim loses its transaction
  Uses,         \* what clients do beyond calling the API inside `with`
  MaxDepth,     \* bound on BEGINs (this class never counts beyond one)
  MaxPoints     \* bound on savepoints

ASSUME MysqlAssumption ==
  /\ Owners \subseteq Ctx
  /\ Faults \subseteq {"begin", "savepoint", "commit", "insert", "abort"}
  /\ Uses \subseteq
       {"outside",     \* call a context before __enter__ or after __exit__
        "late",        \* write with cursor() after commit or rollback
        "reuse",       \* give two live savepoints one name
        "ddl",         \* CREATE, DROP or ALTER inside the scope
        "raw",         \* execute(..., raw=True)
        "script",      \* execute_script
        "connection"}  \* commit or roll back the connection itself
  /\ MaxDepth \in Nat /\ MaxPoints \in Nat

VARIABLES
  ctx,          \* the bookkeeping of each context
  scope,        \* where its `with` block is
  db            \* the connection

vars == <<ctx, scope, db>>

Init ==
  /\ ctx = [c \in Ctx |-> FreshBooks]
  /\ scope = [c \in Ctx |-> "new"]
  /\ db = FreshSession

-----------------------------------------------------------------------------
(* __preprocess_sql: the books after the statement and what is sent.       *)

Sends(x, s) == [books |-> x, stmt |-> s]

(* Mutant of OnBegin: a BEGIN inside a transaction is sent. *)
EagerBegin(x, s) == Sends([x EXCEPT !.depth = 1, !.name = s.arg], Begin(NoName))

(* A BEGIN inside a transaction is scrubbed and not counted.  The name of   *)
(* START TRANSACTION is kept, and not sent.                                 *)
OnBegin(x, s) ==
  IF x.depth > 0
  THEN Sends(x, Scrub)
  ELSE Sends([x EXCEPT !.depth = 1, !.name = s.arg], Begin(NoName))

(* Mutant of OnSavepoint: the wrong name is tracked. *)
MisnamedSavepoint(x, s) == Sends([x EXCEPT !.savepoints = Append(@, x.name)], s)

OnSavepoint(x, s) == Sends([x EXCEPT !.savepoints = Append(@, s.arg)], s)

(* Mutant of OnCommit: COMMIT is never sent. *)
SilentCommit(x, s) ==
  CASE x.depth = 0 -> Sends(x, Raise)
    [] x.depth = 1 -> Sends(FinishedBooks(Committed), Scrub)
    [] x.depth > 1 -> Sends([x EXCEPT !.depth = @ - 1], Scrub)

OnCommit(x, s) ==
  CASE x.depth = 0 -> Sends(x, Raise)
    [] x.depth = 1 -> Sends(FinishedBooks(Committed), s)
    [] x.depth > 1 -> Sends([x EXCEPT !.depth = @ - 1], Scrub)

(* Mutant of OnRollback: nothing is popped. *)
UnpoppedRollback(x, s) ==
  CASE x.depth = 0 -> Sends(x, Raise)
    [] x.depth > 0 /\ Occurs(x.savepoints, s.arg) -> Sends(x, RollbackTo(s.arg))
    [] x.depth > 0 /\ ~ Occurs(x.savepoints, s.arg) ->
         IF s.arg \in {NoName, x.name}
         THEN Sends(FinishedBooks(RolledBack), Rollback(NoName))
         ELSE Sends(x, Raise)

(* ROLLBACK and ROLLBACK TO are not told apart: what the name stands for    *)
(* decides.                                                                 *)
OnRollback(x, s) ==
  CASE x.depth = 0 -> Sends(x, Raise)
    [] x.depth > 0 /\ Occurs(x.savepoints, s.arg) ->
         Sends([x EXCEPT !.savepoints = PopThrough(@, s.arg)], RollbackTo(s.arg))
    [] x.depth > 0 /\ ~ Occurs(x.savepoints, s.arg) ->
         IF s.arg \in {NoName, x.name}
         THEN Sends(FinishedBooks(RolledBack), Rollback(NoName))
         ELSE Sends(x, Raise)

Preprocess(x, s) ==
  CASE x.depth \in Finished  -> Sends(x, Raise)
    [] x.depth \notin Finished /\ s.op = "begin"     -> OnBegin(x, s)
    [] x.depth \notin Finished /\ s.op = "savepoint" -> OnSavepoint(x, s)
    [] x.depth \notin Finished /\ s.op = "commit"    -> OnCommit(x, s)
    [] x.depth \notin Finished /\ s.op \in {"rollback", "rollbackTo"} -> OnRollback(x, s)
    [] x.depth \notin Finished /\ s.op \in {"insert", "ddl"} -> Sends(x, s)

-----------------------------------------------------------------------------
(* Talking to the server.  The books have changed by the time the answer    *)
(* arrives, whatever the answer is.                                         *)

Accepted(s) == Accepts(db, s) /\ db' = Apply(db, s)

Refused(s) ==
  \/ (Accepts(db, s) => s.op \in Faults) /\ db' = Refuse(db, s)
  \/ "abort" \in Faults /\ s.op = "insert" /\ db.open /\ db' = Discard(db)

Answered(s) == Accepted(s) \/ Refused(s)

Sent(s) ==
  IF s \in {Scrub, Raise} THEN UNCHANGED db ELSE Answered(s)

Inside(c) == scope[c] = "inside" \/ "outside" \in Uses

(* execute(sql) with one statement, not raw. *)
Execute(c, s) ==
  /\ Inside(c)
  /\ LET p == Preprocess(ctx[c], s)
     IN  /\ ctx' = [ctx EXCEPT ![c] = p.books]
         /\ Sent(p.stmt)
  /\ UNCHANGED scope

BeginTransaction(c, n) == ctx[c].depth < MaxDepth /\ Execute(c, Begin(n))

Room(x) == Len(x.savepoints) < MaxPoints /\ Len(db.marks) < MaxPoints

CreateSavepoint(c, n) ==
  /\ Room(ctx[c])
  /\ Occurs(ctx[c].savepoints, n) => "reuse" \in Uses
  /\ Execute(c, Savepoint(n))

RollbackSavepoint(c, n) == Execute(c, RollbackTo(n))

(* rollback_savepoint() without a name returns early on an empty list. *)
RollbackLastSavepoint(c) ==
  LET held == ctx[c].savepoints
  IN  held # <<>> /\ Execute(c, RollbackTo(held[Len(held)]))

CommitScope(c) == Execute(c, Commit)

RollbackScope(c, n) == Execute(c, Rollback(n))

ExecuteInsert(c, r) == Execute(c, Insert(r))

ExecuteDdl(c) == "ddl" \in Uses /\ Execute(c, Ddl)

(* A table adapter writes through cursor(), which looks at no depth. *)
CursorInsert(c, r) ==
  /\ Inside(c)
  /\ ctx[c].depth \in Finished => Uses \cap {"late", "outside"} # {}
  /\ Answered(Insert(r))
  /\ UNCHANGED <<ctx, scope>>

(* execute(sql, raw=True) *)
ExecuteRaw(c, s) ==
  /\ "raw" \in Uses /\ Inside(c)
  /\ s.op = "savepoint" => Len(db.marks) < MaxPoints
  /\ Answered(s)
  /\ UNCHANGED <<ctx, scope>>

(* Several statements in one call: depending on the driver's version it     *)
(* complains before or after the server has run them.                       *)
AnsweredTogether(s, t) ==
  \/ UNCHANGED db
  \/ /\ Accepts(db, s) /\ Accepts(Apply(db, s), t)
     /\ db' = Apply(Apply(db, s), t)

(* execute_script with two lines.  Every line is preprocessed before any is *)
(* sent; the lines that were not scrubbed go to the server in one call, as  *)
(* they were written.                                                       *)
ExecuteScript(c, s, t) ==
  /\ "script" \in Uses /\ Inside(c) /\ Len(ctx[c].savepoints) + 1 < MaxPoints
  /\ Len(db.marks) + 1 < MaxPoints /\ ctx[c].depth < MaxDepth
  /\ LET p == Preprocess(ctx[c], s)
         q == Preprocess(p.books, t)
     IN  \/ /\ p.stmt = Raise
            /\ ctx' = [ctx EXCEPT ![c] = p.books] /\ UNCHANGED db
         \/ /\ p.stmt # Raise
            /\ ctx' = [ctx EXCEPT ![c] = q.books]
            /\ CASE q.stmt = Raise -> UNCHANGED db
                 [] q.stmt = Scrub /\ p.stmt = Scrub -> UNCHANGED db
                 [] q.stmt = Scrub /\ p.stmt # Scrub -> Answered(s)
                 [] q.stmt \notin {Raise, Scrub} /\ p.stmt = Scrub -> Answered(t)
                 [] q.stmt \notin {Raise, Scrub} /\ p.stmt # Scrub -> AnsweredTogether(s, t)
  /\ UNCHANGED scope

-----------------------------------------------------------------------------
(* The `with` block. *)

(* __enter__: when START TRANSACTION is refused the block is never entered, *)
(* so __exit__ is never called.                                             *)
Enter(c) ==
  /\ scope[c] = "new" \/ (scope[c] = "refused" /\ "outside" \in Uses)
  /\ LET p == Preprocess(ctx[c], Begin(NoName))
     IN  /\ ctx' = [ctx EXCEPT ![c] = p.books]
         /\ \/ p.stmt = Raise /\ scope' = [scope EXCEPT ![c] = "refused"] /\ UNCHANGED db
            \/ p.stmt = Scrub /\ scope' = [scope EXCEPT ![c] = "inside"] /\ UNCHANGED db
            \/ p.stmt.op = "begin" /\ Accepted(p.stmt) /\ scope' = [scope EXCEPT ![c] = "inside"]
            \/ p.stmt.op = "begin" /\ Refused(p.stmt) /\ scope' = [scope EXCEPT ![c] = "refused"]

CloseOwned(c, d) == IF c \in Owners THEN Shut(d) ELSE d

(* Mutants of Exit: the context can be used again, and a scope that raised  *)
(* is left without a rollback.                                              *)
ReusableExit(c) ==
  /\ scope[c] = "inside"
  /\ scope' = [scope EXCEPT ![c] = "left"]
  /\ ctx' = [ctx EXCEPT ![c] = FreshBooks]
  /\ db' = CloseOwned(c, IF ctx[c].depth > 0 THEN Discard(db) ELSE db)

SilentExit(c) ==
  /\ scope[c] = "inside"
  /\ scope' = [scope EXCEPT ![c] = "left"]
  /\ ctx' = [ctx EXCEPT ![c] = FinishedBooks(Exited)]
  /\ db' = CloseOwned(c, db)

(* __exit__, with an exception or without: rollback() if a BEGIN is still   *)
(* open, then, even when that raises, close().                              *)
Exit(c) ==
  /\ scope[c] = "inside"
  /\ scope' = [scope EXCEPT ![c] = "left"]
  /\ IF ctx[c].depth > 0
     THEN /\ ctx' = [ctx EXCEPT ![c] = FinishedBooks(Exited)]
          /\ db' = CloseOwned(c, IF Accepts(db, Rollback(NoName)) THEN Discard(db) ELSE db)
     ELSE /\ ctx' = [ctx EXCEPT ![c].depth = Exited]
          /\ db' = CloseOwned(c, db)

(* close(), called by the client or by __del__. *)
Close(c) ==
  /\ c \in Owners
  /\ db' = Shut(db)
  /\ UNCHANGED <<ctx, scope>>

(* context.connection.commit() and .rollback(). *)
ConnectionCommit ==
  /\ "connection" \in Uses /\ ~ db.closed
  /\ db' = Settled(db, db.work)
  /\ UNCHANGED <<ctx, scope>>

ConnectionRollback ==
  /\ "connection" \in Uses /\ ~ db.closed
  /\ db' = Discard(db)
  /\ UNCHANGED <<ctx, scope>>

-----------------------------------------------------------------------------
Call(c) ==
  \/ Enter(c) \/ Exit(c) \/ Close(c)
  \/ CommitScope(c) \/ RollbackLastSavepoint(c) \/ ExecuteDdl(c)
  \/ \E n \in Name : CreateSavepoint(c, n) \/ RollbackSavepoint(c, n)
  \/ \E n \in Name \cup {NoName} : BeginTransaction(c, n) \/ RollbackScope(c, n)
  \/ \E r \in Row : ExecuteInsert(c, r) \/ CursorInsert(c, r)
  \/ \E s \in Stmt \cup {Ddl} : ExecuteRaw(c, s)
  \/ \E s, t \in Stmt : ExecuteScript(c, s, t)

Next == (\E c \in Ctx : Call(c)) \/ ConnectionCommit \/ ConnectionRollback

Spec == Init /\ [][Next]_vars

-----------------------------------------------------------------------------
TypeOK ==
  /\ ctx \in [Ctx -> Bookkeeping]
  /\ scope \in [Ctx -> {"new", "refused", "inside", "left"}]
  /\ db \in Session

(* The state of a scope that has a BEGIN to finish. *)
Holds(c) == scope[c] = "inside" /\ ctx[c].depth > 0

(* __transaction_depth tells the truth about the server: a scope with a     *)
(* BEGIN to finish has an open transaction behind it, and there is no open  *)
(* transaction that no scope is going to finish.                            *)
DepthTellsTheTruth ==
  /\ \A c \in Ctx : Holds(c) => db.open \/ db.closed
  /\ db.open => \E c \in Ctx : Holds(c)

(* Every savepoint a scope still lists exists on the server, and in the     *)
(* same order, so rollback_savepoint() never names one that is gone.        *)
SavepointsLive ==
  \A c \in Ctx : Holds(c) /\ ~ db.closed => Embedded(ctx[c].savepoints, db.marks)

(* Work becomes durable only when a context's BEGIN is committed, when a    *)
(* context begins (which commits what was open before), by DDL, or when a   *)
(* client commits behind the context's back: never by a nested begin or     *)
(* commit, a savepoint, a rollback or a refused statement.                  *)
DurableOnlyByCommitOrDdl ==
  [][db'.durable # db.durable =>
       \/ \E c \in Ctx : ctx[c].depth > 0 /\ ctx'[c].depth = Committed
       \/ \E c \in Ctx : ctx[c].depth = 0 /\ ctx'[c].depth # 0
       \/ \E c \in Ctx : ExecuteDdl(c)
       \/ \E c \in Ctx, s \in {Commit, Begin(NoName), Ddl} : ExecuteRaw(c, s)
       \/ ConnectionCommit]_vars

(* A context that was committed, rolled back or left never becomes usable   *)
(* again, whatever is called on it.                                         *)
FinishedForGood ==
  [][\A c \in Ctx : ctx[c].depth \in Finished =>
       ctx'[c] \in {ctx[c], [ctx[c] EXCEPT !.depth = Exited]}]_vars

(* Whatever happened inside a scope, leaving it with a BEGIN to finish      *)
(* keeps nothing of its work and leaves no transaction behind.              *)
ExitRollsBack ==
  [][\A c \in Ctx : Exit(c) /\ ctx[c].depth > 0 =>
       db'.durable = db.durable /\ db'.work = db.durable /\ ~ db'.open]_vars
=============================================================================
