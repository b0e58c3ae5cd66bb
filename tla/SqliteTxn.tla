------------------------------ MODULE SqliteTxn ------------------------------
(***************************************************************************)
(* SQLiteTransactionContext (src/deev/sqlite/sqlite_transaction_context.py)*)
(* over one SQLite connection.  Several contexts may use the connection:   *)
(* one inside the other, or one after the other.                           *)
(*                                                                         *)
(* A call that raises before it changes anything is a stuttering step.     *)
(* The ambient transaction id is written and never read by this class, so  *)
(* it is not part of the state.                                            *)
(***************************************************************************)
EXTENDS SqliteSession

CONSTANTS
  Ctx,          \* the context objects
  Owners,       \* those made with owns_context=True
  Faults,       \* statements the server may refuse for reasons of its own,
                \* and "abort": a refused write may end the transaction
  Uses,         \* what clients do beyond calling the API inside `with`
  MaxDepth,     \* bound on nested BEGINs
  MaxPoints     \* bound on savepoints

ASSUME SqliteAssumption ==
  /\ Owners \subseteq Ctx
  /\ Faults \subseteq {"begin", "savepoint", "commit", "insert", "abort"}
  /\ Uses \subseteq
       {"outside",     \* call a context before __enter__ or after __exit__
        "late",        \* write with cursor() after commit or rollback
        "reuse",       \* give two live savepoints one name
        "raw",         \* execute(..., raw=True)
        "script",      \* execute_script
        "connection"}  \* commit or roll back the connection itself
  /\ MaxDepth \in Nat /\ MaxPoints \in Nat

VARIABLES
  ctx,          \* the bookkeeping of each context
  scope,        \* where its `with` block is
  db            \* the connection

vars == <<ctx, scope, db>>

Init ==
  /\ ctx = [c \in Ctx |-> FreshBooks]
  /\ scope = [c \in Ctx |-> "new"]
  /\ db = FreshSession

-----------------------------------------------------------------------------
(* __preprocess_sql: the books after the statement and what is sent.       *)

Sends(x, s) == [books |-> x, stmt |-> s]

OnBegin(x, s) ==
  IF x.depth = 0
  THEN Sends([x EXCEPT !.depth = 1, !.name = s.arg], s)
  ELSE Sends([x EXCEPT !.depth = @ + 1], Scrub)

(* Mutant of OnSavepoint: the wrong name is tracked. *)
MisnamedSavepoint(x, s) == Sends([x EXCEPT !.savepoints = Append(@, x.name)], s)

OnSavepoint(x, s) == Sends([x EXCEPT !.savepoints = Append(@, s.arg)], s)

(* Mutants of OnCommit: every COMMIT is sent, and none is. *)
EagerCommit(x, s) ==
  CASE x.depth = 0 -> Sends(x, Raise)
    [] x.depth = 1 -> Sends(FinishedBooks(Committed), s)
    [] x.depth > 1 -> Sends([x EXCEPT !.depth = @ - 1], s)

SilentCommit(x, s) ==
  CASE x.depth = 0 -> Sends(x, Raise)
    [] x.depth = 1 -> Sends(FinishedBooks(Committed), Scrub)
    [] x.depth > 1 -> Sends([x EXCEPT !.depth = @ - 1], Scrub)

OnCommit(x, s) ==
  CASE x.depth = 0 -> Sends(x, Raise)
    [] x.depth = 1 -> Sends(FinishedBooks(Committed), s)
    [] x.depth > 1 -> Sends([x EXCEPT !.depth = @ - 1], Scrub)

KnownName(x, n) == n = NoName \/ Occurs(x.savepoints, n) \/ n = x.name

OnRollback(x, s) ==
  IF x.depth = 0 \/ ~ KnownName(x, s.arg)
  THEN Sends(x, Raise)
  ELSE Sends(FinishedBooks(RolledBack), Rollback(NoName))

(* Mutant of OnRollbackTo: nothing is popped. *)
UnpoppedRollbackTo(x, s) ==
  IF x.depth = 0 \/ ~ KnownName(x, s.arg) THEN Sends(x, Raise) ELSE Sends(x, s)

OnRollbackTo(x, s) ==
  IF x.depth = 0 \/ ~ KnownName(x, s.arg)
  THEN Sends(x, Raise)
  ELSE Sends(IF Occurs(x.savepoints, s.arg)
             THEN [x EXCEPT !.savepoints = PopThrough(@, s.arg)]
             ELSE x,
             s)

Preprocess(x, s) ==
  CASE x.depth \in Finished  -> Sends(x, Raise)
    [] x.depth \notin Finished /\ s.op = "begin"      -> OnBegin(x, s)
    [] x.depth \notin Finished /\ s.op = "savepoint"  -> OnSavepoint(x, s)
    [] x.depth \notin Finished /\ s.op = "commit"     -> OnCommit(x, s)
    [] x.depth \notin Finished /\ s.op = "rollback"   -> OnRollback(x, s)
    [] x.depth \notin Finished /\ s.op = "rollbackTo" -> OnRollbackTo(x, s)
    [] x.depth \notin Finished /\ s.op = "insert"     -> Sends(x, s)

-----------------------------------------------------------------------------
(* Talking to the server.  The books have changed by the time the answer    *)
(* arrives, whatever the answer is.                                         *)

Accepted(s) == Accepts(db, s) /\ db' = Apply(db, s)

Refused(s) ==
  \/ (Accepts(db, s) => s.op \in Faults) /\ db' = Refuse(db, s)
  \/ "abort" \in Faults /\ s.op = "insert" /\ db.open /\ db' = Discard(db)

Answered(s) == Accepted(s) \/ Refused(s)

Sent(s) ==
  IF s \in {Scrub, Raise} THEN UNCHANGED db ELSE Answered(s)

Inside(c) == scope[c] = "inside" \/ "outside" \in Uses

(* execute(sql) with one statement, not raw. *)
Execute(c, s) ==
  /\ Inside(c)
  /\ LET p == Preprocess(ctx[c], s)
     IN  /\ ctx' = [ctx EXCEPT ![c] = p.books]
         /\ Sent(p.stmt)
  /\ UNCHANGED scope

BeginTransaction(c, n) == ctx[c].depth < MaxDepth /\ Execute(c, Begin(n))

Room(x) == Len(x.savepoints) < MaxPoints /\ Len(db.marks) < MaxPoints

(* An automatic TID_... name is one that is in use nowhere. *)
CreateSavepoint(c, n) ==
  /\ Room(ctx[c])
  /\ Occurs(ctx[c].savepoints, n) => "reuse" \in Uses
  /\ Execute(c, Savepoint(n))

RollbackSavepoint(c, n) == Execute(c, RollbackTo(n))

(* rollback_savepoint() without a name returns early on an empty list. *)
RollbackLastSavepoint(c) ==
  LET held == ctx[c].savepoints
  IN  held # <<>> /\ Execute(c, RollbackTo(held[Len(held)]))

CommitScope(c) == Execute(c, Commit)

RollbackScope(c, n) == Execute(c, Rollback(n))

ExecuteInsert(c, r) == Execute(c, Insert(r))

(* A table adapter writes through cursor(), which looks at no depth. *)
CursorInsert(c, r) ==
  /\ Inside(c)
  /\ ctx[c].depth \in Finished => Uses \cap {"late", "outside"} # {}
  /\ Answered(Insert(r))
  /\ UNCHANGED <<ctx, scope>>

(* execute(sql, raw=True) *)
ExecuteRaw(c, s) ==
  /\ "raw" \in Uses /\ Inside(c)
  /\ s.op = "savepoint" => Len(db.marks) < MaxPoints
  /\ Answered(s)
  /\ UNCHANGED <<ctx, scope>>

(* execute_script with two lines.  Every line is preprocessed before any is *)
(* sent; the lines that were not scrubbed go to the server in one call, as  *)
(* they were written, and the driver takes one statement a call.            *)
ExecuteScript(c, s, t) ==
  /\ "script" \in Uses /\ Inside(c) /\ Room(ctx[c])
  /\ ctx[c].depth < MaxDepth
  /\ LET p == Preprocess(ctx[c], s)
         q == Preprocess(p.books, t)
     IN  \/ /\ p.stmt = Raise
            /\ ctx' = [ctx EXCEPT ![c] = p.books] /\ UNCHANGED db
         \/ /\ p.stmt # Raise
            /\ ctx' = [ctx EXCEPT ![c] = q.books]
            /\ CASE q.stmt = Raise -> UNCHANGED db
                 [] q.stmt = Scrub /\ p.stmt = Scrub -> UNCHANGED db
                 [] q.stmt = Scrub /\ p.stmt # Scrub -> Answered(s)
                 [] q.stmt \notin {Raise, Scrub} /\ p.stmt = Scrub -> Answered(t)
                 [] q.stmt \notin {Raise, Scrub} /\ p.stmt # Scrub -> UNCHANGED db
  /\ UNCHANGED scope

-----------------------------------------------------------------------------
(* The `with` block. *)

(* Mutant of Enter: the block is entered whatever becomes of BEGIN. *)
CarelessEnter(c) ==
  /\ scope[c] = "new" /\ ctx[c].depth < MaxDepth
  /\ LET p == Preprocess(ctx[c], Begin(NoName))
     IN  /\ ctx' = [ctx EXCEPT ![c] = p.books]
         /\ Sent(p.stmt)
  /\ scope' = [scope EXCEPT ![c] = "inside"]

(* __enter__: when BEGIN is refused the block is never entered, so __exit__ *)
(* is never called.                                                         *)
Enter(c) ==
  /\ scope[c] = "new" \/ (scope[c] = "refused" /\ "outside" \in Uses)
  /\ ctx[c].depth < MaxDepth
  /\ LET p == Preprocess(ctx[c], Begin(NoName))
     IN  /\ ctx' = [ctx EXCEPT ![c] = p.books]
         /\ \/ p.stmt = Raise /\ scope' = [scope EXCEPT ![c] = "refused"] /\ UNCHANGED db
            \/ p.stmt = Scrub /\ scope' = [scope EXCEPT ![c] = "inside"] /\ UNCHANGED db
            \/ p.stmt.op = "begin" /\ Accepted(p.stmt) /\ scope' = [scope EXCEPT ![c] = "inside"]
            \/ p.stmt.op = "begin" /\ Refused(p.stmt) /\ scope' = [scope EXCEPT ![c] = "refused"]

CloseOwned(c, d) == IF c \in Owners THEN Shut(d) ELSE d

(* Mutants of Exit: the context can be used again, and a scope that raised  *)
(* is left without a rollback.                                              *)
ReusableExit(c) ==
  /\ scope[c] = "inside"
  /\ scope' = [scope EXCEPT ![c] = "left"]
  /\ ctx' = [ctx EXCEPT ![c] = FreshBooks]
  /\ db' = CloseOwned(c, IF ctx[c].depth > 0 THEN Discard(db) ELSE db)

SilentExit(c) ==
  /\ scope[c] = "inside"
  /\ scope' = [scope EXCEPT ![c] = "left"]
  /\ ctx' = [ctx EXCEPT ![c] = FinishedBooks(Exited)]
  /\ db' = CloseOwned(c, db)

(* __exit__, with an exception or without: rollback() if a BEGIN is still   *)
(* open, then, even when that raises, close().                              *)
Exit(c) ==
  /\ scope[c] = "inside"
  /\ scope' = [scope EXCEPT ![c] = "left"]
  /\ IF ctx[c].depth > 0
     THEN /\ ctx' = [ctx EXCEPT ![c] = FinishedBooks(Exited)]
          /\ LET d == IF Accepts(db, Rollback(NoName)) THEN Discard(db) ELSE db
             IN  db' = CloseOwned(c, d)
     ELSE /\ ctx' = [ctx EXCEPT ![c].depth = Exited]
          /\ db' = CloseOwned(c, db)

(* close(), called by the client or by __del__. *)
Close(c) ==
  /\ c \in Owners
  /\ db' = Shut(db)
  /\ UNCHANGED <<ctx, scope>>

(* context.connection.commit() and .rollback(): another user of the         *)
(* connection, or an adapter made on it.  The driver ignores both when no   *)
(* transaction is open.                                                     *)
ConnectionCommit ==
  /\ "connection" \in Uses /\ db.open
  /\ db' = Settled(db, db.work)
  /\ UNCHANGED <<ctx, scope>>

ConnectionRollback ==
  /\ "connection" \in Uses /\ db.open
  /\ db' = Discard(db)
  /\ UNCHANGED <<ctx, scope>>

-----------------------------------------------------------------------------
Call(c) ==
  \/ Enter(c) \/ Exit(c) \/ Close(c)
  \/ CommitScope(c) \/ RollbackLastSavepoint(c)
  \/ \E n \in Name : CreateSavepoint(c, n) \/ RollbackSavepoint(c, n)
  \/ \E n \in Name \cup {NoName} : BeginTransaction(c, n) \/ RollbackScope(c, n)
  \/ \E r \in Row : ExecuteInsert(c, r) \/ CursorInsert(c, r)
  \/ \E s \in Stmt : ExecuteRaw(c, s)
  \/ \E s, t \in Stmt : ExecuteScript(c, s, t)

Next == (\E c \in Ctx : Call(c)) \/ ConnectionCommit \/ ConnectionRollback

Spec == Init /\ [][Next]_vars

-----------------------------------------------------------------------------
TypeOK ==
  /\ ctx \in [Ctx -> Bookkeeping]
  /\ scope \in [Ctx -> {"new", "refused", "inside", "left"}]
  /\ db \in Session

(* The state of a scope that has a BEGIN to finish. *)
Holds(c) == scope[c] = "inside" /\ ctx[c].depth > 0

(* Two scopes never both believe that the connection's one transaction is   *)
(* theirs to finish: __enter__ of a second context over a connection with   *)
(* an open transaction does not get as far as the `with` block.             *)
OneHolder == \A c, d \in Ctx : Holds(c) /\ Holds(d) => c = d

(* __transaction_depth tells the truth about the server: a scope with a     *)
(* BEGIN to finish has an open transaction behind it, and there is no open  *)
(* transaction that no scope is going to finish.                            *)
DepthTellsTheTruth ==
  /\ \A c \in Ctx : Holds(c) => db.open \/ db.closed
  /\ db.open => \E c \in Ctx : Holds(c)

(* Every savepoint a scope still lists exists on the server, and in the     *)
(* same order, so rollback_savepoint() never names one that is gone.        *)
SavepointsLive ==
  \A c \in Ctx : Holds(c) /\ ~ db.closed => Embedded(ctx[c].savepoints, db.marks)

(* Clients that use `with`, the API and the table adapters inside the       *)
(* block, and a server that refuses only what it can refuse before it has   *)
(* done anything.                                                           *)
Disciplined == Uses \subseteq {"reuse"} /\ Faults \subseteq {"begin", "insert"}

(* The three facts above are inductive together with these: a context that  *)
(* was not entered is as __init__ left it, one inside its block is past its *)
(* BEGIN, a BEGIN of `with` has no name, and a closed connection has no     *)
(* transaction.                                                             *)
BooksFollowScope ==
  \A c \in Ctx :
    /\ scope[c] = "new" => ctx[c] = FreshBooks
    /\ scope[c] = "inside" => ctx[c].depth \in {Committed, RolledBack} \/ ctx[c].depth > 0
    /\ ctx[c].name = NoName

ClosedIsQuiet == db.closed => ~ db.open

Ownership ==
  /\ OneHolder /\ DepthTellsTheTruth /\ SavepointsLive
  /\ BooksFollowScope /\ ClosedIsQuiet

(* Work becomes durable only in the step in which some scope's last open    *)
(* BEGIN is committed, unless a client commits behind the context's back: a *)
(* nested commit(), a script or a refused statement makes nothing durable.  *)
DurableOnlyByLastCommit ==
  [][db'.durable # db.durable =>
       \/ \E c \in Ctx : ctx[c].depth > 0 /\ ctx'[c].depth = Committed
       \/ \E c \in Ctx : ExecuteRaw(c, Commit)
       \/ ConnectionCommit]_vars

(* A context that was committed, rolled back or left never becomes usable   *)
(* again, whatever is called on it.                                         *)
FinishedForGood ==
  [][\A c \in Ctx : ctx[c].depth \in Finished =>
       ctx'[c] \in {ctx[c], [ctx[c] EXCEPT !.depth = Exited]}]_vars

(* A connection without a transaction has nothing that is not durable, and  *)
(* a closed one has no transaction.                                         *)
NothingUnsettled ==
  /\ ~ db.open => db.work = db.durable /\ db.marks = <<>>
  /\ db.closed => ~ db.open

(* Whatever happened inside a scope, leaving it with a BEGIN to finish      *)
(* keeps nothing of its work and leaves no transaction behind.              *)
ExitRollsBack ==
  [][\A c \in Ctx : Exit(c) /\ ctx[c].depth > 0 =>
       db'.durable = db.durable /\ db'.work = db.durable /\ ~ db'.open]_vars

-----------------------------------------------------------------------------
(* What the documentation says, and the code does not do.                   *)

(* README.md: "never leave a mismanaged state".  When no `with` block is    *)
(* being executed, no transaction is open.                                  *)
NothingLeftOpen == db.open => \E c \in Ctx : scope[c] = "inside"
=============================================================================
