--------------------------- MODULE SqliteTxnProofs ---------------------------
(***************************************************************************)
(* What is proved of SqliteTxn and SqliteScope, for any number of contexts,*)
(* names and rows, and any nesting depth.                                  *)
(***************************************************************************)
EXTENDS SqliteScope, TxnLemmas

(* Preprocessing keeps the books well formed, and sends a statement, or     *)
(* nothing.                                                                 *)
LEMMA PreprocessType ==
  ASSUME NEW x \in Bookkeeping, NEW s \in Stmt
  PROVE  /\ Preprocess(x, s).books \in Bookkeeping
         /\ Preprocess(x, s).stmt \in Stmt \cup {Scrub, Raise}
<1> USE DEF Bookkeeping, Sends
<1>1. ASSUME NEW o \in {Committed, RolledBack, Exited} PROVE FinishedBooks(o) \in Bookkeeping
  BY DEF FinishedBooks, Finished
<1>2. CASE x.depth \in Finished
  BY <1>2 DEF Preprocess
<1>3. CASE x.depth \notin Finished
  <2>1. x.depth \in Nat
    BY <1>3
  <2>2. CASE s.op = "begin"
    <3>1. Preprocess(x, s) = OnBegin(x, s)
      BY <1>3, <2>2 DEF Preprocess
    <3>2. s.arg \in Name \cup {NoName}
      BY <2>2, StmtParts
    <3>3. CASE x.depth = 0
      <4>1. [x EXCEPT !.depth = 1] \in Bookkeeping
        OBVIOUS
      <4>2. [[x EXCEPT !.depth = 1] EXCEPT !.name = s.arg] \in Bookkeeping
        BY <3>2, <4>1
      <4>3. QED
        BY <3>1, <3>3, <4>2 DEF OnBegin
    <3>4. CASE x.depth # 0
      BY <2>1, <3>1, <3>4 DEF OnBegin
    <3>5. QED
      BY <3>3, <3>4
  <2>3. CASE s.op = "savepoint"
    <3>1. s.arg \in Name
      BY <2>3, StmtParts
    <3>2. Append(x.savepoints, s.arg) \in Seq(Name)
      BY <3>1
    <3>3. QED
      BY <1>3, <2>3, <3>2 DEF Preprocess, OnSavepoint
  <2>4. CASE s.op = "commit"
    <3>1. Preprocess(x, s) = OnCommit(x, s)
      BY <1>3, <2>4 DEF Preprocess
    <3>2. CASE x.depth = 0
      BY <3>1, <3>2 DEF OnCommit
    <3>3. CASE x.depth = 1
      BY <1>1, <3>1, <3>3 DEF OnCommit
    <3>4. CASE x.depth > 1
      BY <2>1, <3>1, <3>4 DEF OnCommit
    <3>5. QED
      BY <2>1, <3>2, <3>3, <3>4
  <2>5. CASE s.op = "rollback"
    <3>1. Rollback(NoName) \in Stmt
      BY DEF Stmt, Rollback
    <3>2. Preprocess(x, s) = OnRollback(x, s)
      BY <1>3, <2>5 DEF Preprocess
    <3>3. QED
      BY <1>1, <3>1, <3>2 DEF OnRollback
  <2>6. CASE s.op = "rollbackTo"
    <3>1. Occurs(x.savepoints, s.arg) => PopThrough(x.savepoints, s.arg) \in Seq(Name)
      BY PopThroughPrefix
    <3>2. Preprocess(x, s) = OnRollbackTo(x, s)
      BY <1>3, <2>6 DEF Preprocess
    <3>3. QED
      BY <3>1, <3>2 DEF OnRollbackTo
  <2>7. CASE s.op = "insert"
    BY <1>3, <2>7 DEF Preprocess
  <2>8. QED
    BY <2>2, <2>3, <2>4, <2>5, <2>6, <2>7, StmtParts
<1>4. QED
  BY <1>2, <1>3

-----------------------------------------------------------------------------
(* Every statement the server accepts leaves a well-formed connection.      *)
LEMMA ApplyType ==
  ASSUME NEW d \in Session, NEW s \in Stmt, Accepts(d, s)
  PROVE  Apply(d, s) \in Session
<1>1. CASE s.op = "begin"
  BY <1>1 DEF Apply, Session
<1>2. CASE s.op = "savepoint"
  <2> DEFINE m == [name |-> s.arg, rows |-> d.work]
             marks == Append(d.marks, m)
  <2>1. d.marks \in Seq(Mark) /\ d.work \in SUBSET Row
    BY DEF Session
  <2>2. m \in Mark
    BY <1>2, <2>1, StmtParts DEF Mark
  <2>3. marks \in Seq(Mark)
    BY <2>1, <2>2
  <2>4. Apply(d, s) = [d EXCEPT !.open = TRUE, !.marks = marks]
    BY <1>2 DEF Apply
  <2> HIDE DEF marks
  <2>5. [d EXCEPT !.open = TRUE, !.marks = marks] \in Session
    BY <2>3 DEF Session
  <2>6. QED
    BY <2>4, <2>5
<1>3. CASE s.op = "insert"
  <2>1. s.arg \in Row
    BY <1>3, StmtParts
  <2>2. [d EXCEPT !.open = TRUE, !.work = @ \cup {s.arg}] \in Session
    BY <2>1 DEF Session
  <2>3. QED
    BY <1>3, <2>2 DEF Apply
<1>4. CASE s.op = "rollbackTo"
  <2>1. Occurs(MarkNames(d), s.arg)
    BY <1>4 DEF Accepts
  <2>2. LastOf(MarkNames(d), s.arg) \in 1..Len(d.marks)
    BY <2>1, MarkNamesType, LastOfOccurs
  <2>3. QED
    BY <1>4, <2>2, ReturnToType DEF Apply
<1>5. CASE s.op = "commit"
  <2>1. d.work \in SUBSET Row
    BY DEF Session
  <2>2. QED
    BY <1>5, <2>1, SettledType DEF Apply
<1>6. CASE s.op = "rollback"
  BY <1>6, DiscardShutType DEF Apply
<1>7. QED
  BY <1>1, <1>2, <1>3, <1>4, <1>5, <1>6, StmtParts

(* And every answer, a refusal included.                                    *)
LEMMA AnsweredType ==
  ASSUME db \in Session, NEW s \in Stmt, Answered(s)
  PROVE  db' \in Session
<1>1. CASE Accepted(s)
  BY <1>1, ApplyType DEF Accepted
<1>2. CASE db' = Refuse(db, s)
  BY <1>2 DEF Refuse, Session
<1>3. CASE db' = Discard(db)
  BY <1>3, DiscardShutType
<1>4. QED
  BY <1>1, <1>2, <1>3 DEF Answered, Refused

(* execute() keeps the shape of everything.                                 *)
LEMMA ExecuteType ==
  ASSUME TypeOK, NEW c \in Ctx, NEW s \in Stmt, Execute(c, s)
  PROVE  TypeOK'
<1> DEFINE p == Preprocess(ctx[c], s)
<1>1. ctx[c] \in Bookkeeping
  BY DEF TypeOK
<1>2. p.books \in Bookkeeping /\ p.stmt \in Stmt \cup {Scrub, Raise}
  BY <1>1, PreprocessType
<1>3. ctx' = [ctx EXCEPT ![c] = p.books] /\ Sent(p.stmt) /\ scope' = scope
  BY DEF Execute
<1> HIDE DEF p
<1>4. db' \in Session
  BY <1>2, <1>3, AnsweredType DEF Sent, TypeOK
<1>5. QED
  BY <1>2, <1>3, <1>4 DEF TypeOK

(* execute_script() keeps the shape of everything.                          *)
LEMMA ScriptType ==
  ASSUME TypeOK, NEW c \in Ctx, NEW s \in Stmt, NEW t \in Stmt, ExecuteScript(c, s, t)
  PROVE  TypeOK'
<1> DEFINE p == Preprocess(ctx[c], s)
           q == Preprocess(p.books, t)
<1>1. p.books \in Bookkeeping /\ q.books \in Bookkeeping
  BY PreprocessType DEF TypeOK
<1>2. scope' = scope
  BY DEF ExecuteScript
<1>3. /\ \/ ctx' = [ctx EXCEPT ![c] = p.books]
         \/ ctx' = [ctx EXCEPT ![c] = q.books]
      /\ db' = db \/ Answered(s) \/ Answered(t)
  BY DEF ExecuteScript
<1> HIDE DEF p, q
<1>4. db' \in Session
  BY <1>3, AnsweredType DEF TypeOK
<1>5. QED
  BY <1>1, <1>2, <1>3, <1>4 DEF TypeOK

(* __enter__ keeps the shape of everything.                                 *)
LEMMA EnterType ==
  ASSUME TypeOK, NEW c \in Ctx, Enter(c)
  PROVE  TypeOK'
<1> DEFINE p == Preprocess(ctx[c], Begin(NoName))
<1>1. Begin(NoName) \in Stmt
  BY DEF Begin, Stmt
<1>2. p.books \in Bookkeeping /\ p.stmt \in Stmt \cup {Scrub, Raise}
  BY <1>1, PreprocessType DEF TypeOK
<1>3. /\ ctx' = [ctx EXCEPT ![c] = p.books]
      /\ \E o \in {"inside", "refused"} : scope' = [scope EXCEPT ![c] = o]
      /\ db' = db \/ (p.stmt.op = "begin" /\ Answered(p.stmt))
  BY DEF Enter, Answered
<1> HIDE DEF p
<1>4. p.stmt.op = "begin" => p.stmt \in Stmt
  BY <1>2 DEF Scrub, Raise
<1>5. db' \in Session
  BY <1>3, <1>4, AnsweredType DEF TypeOK
<1>6. QED
  BY <1>2, <1>3, <1>5 DEF TypeOK

(* __exit__ keeps the shape of everything.                                  *)
LEMMA ExitType ==
  ASSUME TypeOK, NEW c \in Ctx, Exit(c)
  PROVE  TypeOK'
<1>1. db \in Session /\ ctx[c] \in Bookkeeping
  BY DEF TypeOK
<1>2. \A d \in Session : CloseOwned(c, d) \in Session
  BY DiscardShutType DEF CloseOwned
<1>3. db' \in Session
  <2>1. \E d \in {db, Discard(db)} : db' = CloseOwned(c, d)
    BY DEF Exit
  <2>2. QED
    BY <1>1, <1>2, <2>1, DiscardShutType
<1>4. \E b \in Bookkeeping : ctx' = [ctx EXCEPT ![c] = b]
  <2>1. FinishedBooks(Exited) \in Bookkeeping
    BY DEF FinishedBooks, Bookkeeping, Finished
  <2>2. [ctx[c] EXCEPT !.depth = Exited] \in Bookkeeping
    BY <1>1 DEF Bookkeeping, Finished
  <2>3. QED
    BY <2>1, <2>2 DEF Exit
<1>5. scope' = [scope EXCEPT ![c] = "left"]
  BY DEF Exit
<1>6. QED
  BY <1>3, <1>4, <1>5 DEF TypeOK

(* The API gives a live savepoint's name to no other, unless the client     *)
(* does.                                                                    *)
NewName(c, s) ==
  s.op = "savepoint" /\ Occurs(ctx[c].savepoints, s.arg) => "reuse" \in Uses

(* The operations of the class that take one statement are execute() of it. *)
LEMMA CallIsOne ==
  ASSUME TypeOK, NEW c \in Ctx, Call(c)
  PROVE  \/ Enter(c) \/ Exit(c) \/ Close(c)
         \/ \E s \in Stmt : Execute(c, s) /\ NewName(c, s)
         \/ \E r \in Row : CursorInsert(c, r)
         \/ \E s \in Stmt : ExecuteRaw(c, s)
         \/ \E s \in Stmt, t \in Stmt : ExecuteScript(c, s, t)
<1>1. /\ Commit \in Stmt
      /\ \A n \in Name \cup {NoName} : Begin(n) \in Stmt /\ Rollback(n) \in Stmt
      /\ \A n \in Name : Savepoint(n) \in Stmt /\ RollbackTo(n) \in Stmt
      /\ \A r \in Row : Insert(r) \in Stmt
  BY DEF Stmt, Begin, Rollback, Savepoint, RollbackTo, Insert
<1> USE DEF NewName, Begin, Rollback, RollbackTo, Commit, Insert
<1>2. CASE CommitScope(c)
  BY <1>1, <1>2 DEF CommitScope
<1>3. CASE \E n \in Name : CreateSavepoint(c, n) \/ RollbackSavepoint(c, n)
  BY <1>1, <1>3 DEF CreateSavepoint, RollbackSavepoint, Savepoint
<1>4. CASE \E n \in Name \cup {NoName} : BeginTransaction(c, n) \/ RollbackScope(c, n)
  BY <1>1, <1>4 DEF BeginTransaction, RollbackScope
<1>5. CASE \E r \in Row : ExecuteInsert(c, r)
  BY <1>1, <1>5 DEF ExecuteInsert
<1>6. CASE RollbackLastSavepoint(c)
  <2> DEFINE held == ctx[c].savepoints
  <2>1. held \in Seq(Name)
    BY DEF TypeOK, Bookkeeping
  <2>2. held # <<>> => held[Len(held)] \in Name
    BY <2>1
  <2>3. QED
    BY <1>1, <1>6, <2>2 DEF RollbackLastSavepoint
<1>7. QED
  BY <1>2, <1>3, <1>4, <1>5, <1>6 DEF Call

(* Whatever clients do and whatever the server answers, the books and the   *)
(* connection keep their shape: depth is a count or one of the sentinels.   *)
THEOREM TypeCorrect == Spec => []TypeOK
<1>1. Init => TypeOK
  <2>1. FreshBooks \in Bookkeeping
    BY DEF FreshBooks, Bookkeeping
  <2>2. FreshSession \in Session
    BY DEF FreshSession, Session
  <2>3. QED
    BY <2>1, <2>2 DEF Init, TypeOK
<1>2. TypeOK /\ [Next]_vars => TypeOK'
  <2> SUFFICES ASSUME TypeOK, [Next]_vars PROVE TypeOK'
    OBVIOUS
  <2>1. ASSUME NEW c \in Ctx, Call(c) PROVE TypeOK'
    <3>1. CASE Enter(c)
      BY <3>1, EnterType
    <3>2. CASE Exit(c)
      BY <3>2, ExitType
    <3>3. CASE Close(c)
      BY <3>3, DiscardShutType DEF Close, TypeOK
    <3>4. CASE \E s \in Stmt : Execute(c, s)
      BY <3>4, ExecuteType
    <3>5. ASSUME NEW r \in Row, CursorInsert(c, r) PROVE TypeOK'
      <4>1. Insert(r) \in Stmt
        BY DEF Insert, Stmt
      <4>2. QED
        BY <3>5, <4>1, AnsweredType DEF CursorInsert, TypeOK
    <3>6. ASSUME NEW s \in Stmt, ExecuteRaw(c, s) PROVE TypeOK'
      BY <3>6, AnsweredType DEF ExecuteRaw, TypeOK
    <3>7. ASSUME NEW s \in Stmt, NEW t \in Stmt, ExecuteScript(c, s, t) PROVE TypeOK'
      BY <3>7, ScriptType
    <3>8. QED
      BY <2>1, <3>1, <3>2, <3>3, <3>4, <3>5, <3>6, <3>7, CallIsOne DEF Call
  <2>2. CASE ConnectionCommit
    BY <2>2, SettledType DEF ConnectionCommit, TypeOK, Session
  <2>3. CASE ConnectionRollback
    BY <2>3, DiscardShutType DEF ConnectionRollback, TypeOK
  <2>4. CASE UNCHANGED vars
    BY <2>4 DEF vars, TypeOK
  <2>5. QED
    BY <2>1, <2>2, <2>3, <2>4 DEF Next
<1>3. QED
  BY <1>1, <1>2, PTL DEF Spec

-----------------------------------------------------------------------------
(* Ownership of the connection's transaction. *)

(* A step that neither begins nor ends a transaction, moves no context in   *)
(* or out of its block, and leaves both savepoint lists alone.              *)
LEMMA QuietStep ==
  ASSUME TypeOK, Ownership,
         scope' = scope,
         \A c \in Ctx : /\ ctx'[c].savepoints = ctx[c].savepoints
                        /\ ctx'[c].name = ctx[c].name
                        /\ scope[c] # "inside" => ctx'[c] = ctx[c]
                        /\ ctx[c].depth > 0 <=> ctx'[c].depth > 0
                        /\ ctx'[c].depth = ctx[c].depth \/ ctx[c].depth > 0,
         db'.open = db.open, db'.closed = db.closed, db'.marks = db.marks
  PROVE  Ownership'
<1>1. \A c \in Ctx : Holds(c)' <=> Holds(c)
  BY DEF Holds
<1>2. OneHolder'
  BY <1>1 DEF Ownership, OneHolder
<1>3. DepthTellsTheTruth'
  BY <1>1 DEF Ownership, DepthTellsTheTruth
<1>4. SavepointsLive'
  BY <1>1 DEF Ownership, SavepointsLive
<1>5. BooksFollowScope'
  BY DEF Ownership, BooksFollowScope
<1>6. ClosedIsQuiet'
  BY DEF Ownership, ClosedIsQuiet
<1>7. QED
  BY <1>2, <1>3, <1>4, <1>5, <1>6 DEF Ownership

(* A step in which the scope that held the transaction gives it up: nothing *)
(* is open afterwards, and no other scope was holding anything.             *)
LEMMA ReleaseStep ==
  ASSUME TypeOK, Ownership, NEW c \in Ctx, Holds(c),
         NEW b, ctx' = [ctx EXCEPT ![c] = b],
         b.name = NoName, b.depth \in Finished,
         \A d \in Ctx \ {c} : scope'[d] = scope[d],
         scope'[c] \in {"inside", "left"},
         scope'[c] = "inside" => b.depth # Exited,
         ~ db'.open
  PROVE  Ownership'
<1>1. ctx'[c] = b /\ \A d \in Ctx \ {c} : ctx'[d] = ctx[d]
  BY DEF TypeOK
<1>2. ~ (b.depth > 0)
  BY DEF Finished, Exited, Committed, RolledBack
<1>3. \A d \in Ctx : ~ Holds(d)'
  BY <1>1, <1>2 DEF Ownership, OneHolder, Holds
<1>4. BooksFollowScope'
  BY <1>1 DEF Ownership, BooksFollowScope, Finished
<1>5. QED
  BY <1>3, <1>4 DEF Ownership, OneHolder, DepthTellsTheTruth, SavepointsLive, ClosedIsQuiet

(* A context that changes only its savepoints, on a server that changes only *)
(* its marks, inside a scope that goes on.                                   *)
LEMMA PointsStep ==
  ASSUME TypeOK, Ownership, NEW c \in Ctx, Holds(c),
         NEW names, ctx' = [ctx EXCEPT ![c].savepoints = names],
         scope' = scope, db'.open = db.open, db'.closed = db.closed,
         ~ db.closed => Embedded(names, db'.marks)
  PROVE  Ownership'
<1>1. /\ ctx'[c].savepoints = names /\ ctx'[c].depth = ctx[c].depth
      /\ ctx'[c].name = ctx[c].name
      /\ \A d \in Ctx \ {c} : ctx'[d] = ctx[d]
  BY DEF TypeOK, Bookkeeping
<1>2. \A d \in Ctx : Holds(d)' <=> Holds(d)
  BY <1>1 DEF Holds
<1>3. \A d \in Ctx : Holds(d) => d = c
  BY DEF Ownership, OneHolder
<1>4. SavepointsLive'
  BY <1>1, <1>2, <1>3 DEF SavepointsLive
<1>5. BooksFollowScope'
  BY <1>1 DEF Ownership, BooksFollowScope, Holds
<1>6. QED
  BY <1>2, <1>4, <1>5 DEF Ownership, OneHolder, DepthTellsTheTruth, ClosedIsQuiet

(* A scope inside its block whose books are finished, on a connection whose *)
(* transaction is over, has given the transaction up.                       *)
LEMMA EndRelease ==
  ASSUME TypeOK, Ownership, NEW c \in Ctx, Holds(c),
         NEW o \in {Committed, RolledBack},
         ctx' = [ctx EXCEPT ![c] = FinishedBooks(o)], scope' = scope, ~ db'.open
  PROVE  Ownership'
<1> DEFINE b == FinishedBooks(o)
<1>1. b.name = NoName /\ b.depth \in Finished /\ b.depth # Exited
  BY DEF FinishedBooks, Finished, Exited, Committed, RolledBack
<1>2. scope'[c] = "inside"
  BY DEF Holds
<1> HIDE DEF b
<1>3. ctx' = [ctx EXCEPT ![c] = b]
  BY DEF b
<1>4. QED
  BY <1>1, <1>2, <1>3, ReleaseStep

(* With the clients and the server of Disciplined, a statement is refused   *)
(* only if the server has a reason, or if it is a BEGIN or a write.         *)
LEMMA Answer ==
  ASSUME Disciplined, TypeOK, NEW s \in Stmt, Answered(s)
  PROVE  \/ Accepts(db, s) /\ db' = Apply(db, s)
         \/ /\ ~ Accepts(db, s) \/ s.op \in {"begin", "insert"}
            /\ db' = Refuse(db, s)
  BY DEF Disciplined, Answered, Accepted, Refused

(* A write inside a scope that holds the transaction changes rows only. *)
LEMMA WriteOwnership ==
  ASSUME Disciplined, TypeOK, Ownership, NEW c \in Ctx, Holds(c),
         NEW r \in Row, Answered(Insert(r)), ctx' = ctx, scope' = scope
  PROVE  Ownership'
<1>1. Insert(r) \in Stmt /\ Insert(r).op = "insert"
  BY DEF Insert, Stmt
<1>2. db.open \/ db.closed
  BY DEF Ownership, DepthTellsTheTruth
<1>3. \/ ~ db.closed /\ db' = Apply(db, Insert(r))
      \/ db' = Refuse(db, Insert(r))
  BY <1>1, Answer DEF Accepts
<1>4. db'.open = db.open /\ db'.closed = db.closed /\ db'.marks = db.marks
  BY <1>1, <1>2, <1>3 DEF Apply, Refuse, TypeOK, Session
<1>5. QED
  BY <1>4, QuietStep

(* The end of a scope: COMMIT of the last BEGIN, or a full rollback. *)
LEMMA EndOwnership ==
  ASSUME Disciplined, TypeOK, Ownership, NEW c \in Ctx, Holds(c),
         NEW s \in Stmt, s.op \in {"commit", "rollback"}, Sent(s),
         NEW o \in {Committed, RolledBack},
         ctx' = [ctx EXCEPT ![c] = FinishedBooks(o)], scope' = scope
  PROVE  Ownership'
<1>1. s \notin {Scrub, Raise}
  BY DEF Scrub, Raise
<1>2. Answered(s)
  BY <1>1 DEF Sent
<1>3. db.open \/ db.closed
  BY DEF Ownership, DepthTellsTheTruth
<1>4. CASE db.closed
  <2>1. db' = Refuse(db, s)
    BY <1>2, <1>4, Answer DEF Accepts
  <2>2. ~ db'.open
    BY <1>4, <2>1 DEF Refuse, Ownership, ClosedIsQuiet
  <2>3. QED
    BY <2>2, EndRelease
<1>5. CASE ~ db.closed
  <2>1. db' = Apply(db, s)
    BY <1>2, <1>3, <1>5, Answer DEF Accepts
  <2>2. ~ db'.open
    BY <2>1 DEF Apply, Settled, Discard, TypeOK, Session
  <2>3. QED
    BY <2>2, EndRelease
<1>6. QED
  BY <1>4, <1>5

(* SAVEPOINT puts the new name last on both lists.                          *)
LEMMA SavepointOwnership ==
  ASSUME Disciplined, TypeOK, Ownership, NEW c \in Ctx, Holds(c),
         NEW s \in Stmt, s.op = "savepoint", scope' = scope,
         ctx' = [ctx EXCEPT ![c] = OnSavepoint(ctx[c], s).books],
         Sent(OnSavepoint(ctx[c], s).stmt)
  PROVE  Ownership'
<1> DEFINE names == Append(ctx[c].savepoints, s.arg)
           m == [name |-> s.arg, rows |-> db.work]
<1>1. ctx' = [ctx EXCEPT ![c].savepoints = names] /\ Answered(s)
  BY DEF OnSavepoint, Sends, Sent, Scrub, Raise
<1>2. db.open \/ db.closed
  BY DEF Ownership, DepthTellsTheTruth
<1>3. CASE db.closed
  <2>1. db' = db
    BY <1>1, <1>3, Answer DEF Accepts, Refuse
  <2>2. QED
    BY <1>1, <1>3, <2>1, PointsStep
<1>4. CASE ~ db.closed
  <2>1. db' = [db EXCEPT !.open = TRUE, !.marks = Append(@, m)]
    BY <1>1, <1>4, Answer DEF Accepts, Apply
  <2>2. db'.open = db.open /\ db'.closed = db.closed /\ db'.marks = Append(db.marks, m)
    BY <1>2, <1>4, <2>1 DEF TypeOK, Session
  <2>3. /\ ctx[c].savepoints \in Seq(Name) /\ db.marks \in Seq(Mark)
        /\ m \in Mark /\ m.name = s.arg
    BY StmtParts DEF TypeOK, Bookkeeping, Session, Mark
  <2>4. Embedded(ctx[c].savepoints, db.marks)
    BY <1>4 DEF Ownership, SavepointsLive
  <2>5. Embedded(Append(ctx[c].savepoints, m.name), Append(db.marks, m))
    BY <2>3, <2>4, EmbedAppend
  <2>6. Embedded(names, db'.marks)
    BY <2>2, <2>3, <2>5
  <2> HIDE DEF names
  <2>7. QED
    BY <1>1, <2>2, <2>6, PointsStep
<1>5. QED
  BY <1>3, <1>4

(* ROLLBACK TO cuts both lists at the last place of the name.               *)
LEMMA ReturnOwnership ==
  ASSUME Disciplined, TypeOK, Ownership, NEW c \in Ctx, Holds(c),
         NEW s \in Stmt, s.op = "rollbackTo", scope' = scope,
         ctx' = [ctx EXCEPT ![c] = OnRollbackTo(ctx[c], s).books],
         Sent(OnRollbackTo(ctx[c], s).stmt)
  PROVE  Ownership'
<1> DEFINE held == ctx[c].savepoints
           names == PopThrough(held, s.arg)
           j == LastOf(MarkNames(db), s.arg)
<1>1. /\ held \in Seq(Name) /\ db.marks \in Seq(Mark) /\ db \in Session
      /\ s.arg \in Name /\ ctx[c].name = NoName
  BY StmtParts DEF TypeOK, Bookkeeping, Session, Ownership, BooksFollowScope
<1>2. CASE ~ Occurs(held, s.arg)
  <2>1. OnRollbackTo(ctx[c], s) = Sends(ctx[c], Raise)
    BY <1>1, <1>2, NoNameAssumption DEF OnRollbackTo, KnownName
  <2>2. ctx' = ctx /\ db' = db
    BY <2>1 DEF Sends, Sent, TypeOK
  <2>3. QED
    BY <2>2, QuietStep
<1>3. CASE Occurs(held, s.arg)
  <2>1. OnRollbackTo(ctx[c], s) = Sends([ctx[c] EXCEPT !.savepoints = names], s)
    BY <1>3 DEF OnRollbackTo, KnownName, Holds
  <2>2. ctx' = [ctx EXCEPT ![c].savepoints = names] /\ Answered(s)
    BY <2>1 DEF Sends, Sent, Scrub, Raise
  <2>3. CASE db.closed
    <3>1. db' = db
      BY <2>2, <2>3, Answer DEF Accepts, Refuse
    <3>2. QED
      BY <2>2, <2>3, <3>1, PointsStep
  <2>4. CASE ~ db.closed
    <3>1. Embedded(held, db.marks)
      BY <2>4 DEF Ownership, SavepointsLive
    <3>2. Occurs(MarkNames(db), s.arg)
      BY <1>1, <1>3, <3>1 DEF Embedded, Embeds, Occurs, MarkNames
    <3>3. /\ j \in 1..Len(db.marks)
          /\ \A i \in 1..Len(db.marks) : db.marks[i].name = s.arg => i <= j
      BY <1>1, <3>2, MarkNamesType, LastOfOccurs DEF MarkNames
    <3>4. db' = ReturnTo(db, j)
      BY <2>2, <2>4, <3>2, Answer DEF Accepts, Apply
    <3> HIDE DEF j
    <3>5. /\ db'.open = db.open /\ db'.closed = db.closed
          /\ db'.marks = SubSeq(db.marks, 1, j)
      BY <1>1, <3>4 DEF ReturnTo, Session
    <3>6. Embedded(names, SubSeq(db.marks, 1, j))
      BY <1>1, <1>3, <3>1, <3>3, EmbedReturn
    <3>7. Embedded(names, db'.marks)
      BY <3>5, <3>6
    <3> HIDE DEF names
    <3>8. QED
      BY <2>2, <3>5, <3>7, PointsStep
  <2>5. QED
    BY <2>3, <2>4
<1>4. QED
  BY <1>2, <1>3

(* execute() of any statement keeps the transaction in one hand.            *)
LEMMA ExecuteOwnership ==
  ASSUME Disciplined, TypeOK, Ownership, NEW c \in Ctx, NEW s \in Stmt, Execute(c, s)
  PROVE  Ownership'
<1> DEFINE x == ctx[c]
           p == Preprocess(x, s)
<1>1. /\ ctx' = [ctx EXCEPT ![c] = p.books] /\ Sent(p.stmt)
      /\ scope' = scope /\ scope[c] = "inside"
  BY DEF Execute, Inside, Disciplined
<1>2. x \in Bookkeeping /\ db \in Session /\ x.name = NoName
  BY DEF TypeOK, Ownership, BooksFollowScope
<1>3. CASE p = Sends(x, Raise) \/ p = Sends(x, Scrub)
  <2>1. ctx' = ctx /\ db' = db
    BY <1>1, <1>3 DEF Sends, Sent, TypeOK
  <2>2. QED
    BY <1>1, <2>1, QuietStep
<1>4. CASE x.depth \in Finished
  BY <1>3, <1>4 DEF Preprocess
<1>5. ASSUME x.depth \notin Finished PROVE Ownership'
  <2>1. x.depth > 0 /\ x.depth \in Nat /\ Holds(c)
    BY <1>1, <1>2, <1>5 DEF Ownership, BooksFollowScope, Holds, Finished, Bookkeeping
  <2>3. CASE s.op = "begin"
    <3>1. p = Sends([x EXCEPT !.depth = @ + 1], Scrub)
      BY <1>5, <2>1, <2>3 DEF Preprocess, OnBegin
    <3>2. ctx' = [ctx EXCEPT ![c].depth = x.depth + 1] /\ db' = db
      BY <1>1, <3>1 DEF Sends, Sent
    <3>3. QED
      BY <1>1, <1>2, <2>1, <3>2, QuietStep DEF TypeOK, Bookkeeping
  <2>4. CASE s.op = "savepoint"
    BY <1>1, <1>5, <2>1, <2>4, SavepointOwnership DEF Preprocess
  <2>5. CASE s.op = "commit"
    <3>1. p = OnCommit(x, s)
      BY <1>5, <2>5 DEF Preprocess
    <3>2. CASE x.depth > 1
      <4>1. p = Sends([x EXCEPT !.depth = @ - 1], Scrub)
        BY <2>1, <3>1, <3>2 DEF OnCommit
      <4>2. ctx' = [ctx EXCEPT ![c].depth = x.depth - 1] /\ db' = db
        BY <1>1, <4>1 DEF Sends, Sent
      <4>3. QED
        BY <1>1, <1>2, <2>1, <3>2, <4>2, QuietStep DEF TypeOK, Bookkeeping
    <3>3. CASE x.depth = 1
      <4>1. p = Sends(FinishedBooks(Committed), s)
        BY <3>1, <3>3 DEF OnCommit
      <4>2. ctx' = [ctx EXCEPT ![c] = FinishedBooks(Committed)] /\ Sent(s)
        BY <1>1, <4>1 DEF Sends
      <4>3. QED
        BY <1>1, <2>1, <2>5, <4>2, EndOwnership
    <3>4. QED
      BY <2>1, <3>2, <3>3
  <2>6. CASE s.op = "rollback"
    <3>1. p = OnRollback(x, s)
      BY <1>5, <2>6 DEF Preprocess
    <3>2. CASE p = Sends(FinishedBooks(RolledBack), Rollback(NoName))
      <4>1. Rollback(NoName) \in Stmt /\ Rollback(NoName).op = "rollback"
        BY DEF Stmt, Rollback
      <4>2. /\ ctx' = [ctx EXCEPT ![c] = FinishedBooks(RolledBack)]
            /\ Sent(Rollback(NoName))
        BY <1>1, <3>2 DEF Sends
      <4>3. QED
        BY <1>1, <2>1, <4>1, <4>2, EndOwnership
    <3>3. QED
      BY <1>3, <3>1, <3>2 DEF OnRollback
  <2>7. CASE s.op = "rollbackTo"
    <3>1. p = OnRollbackTo(x, s)
      BY <1>5, <2>7 DEF Preprocess
    <3>2. QED
      BY <1>1, <2>1, <2>7, <3>1, ReturnOwnership
  <2>8. CASE s.op = "insert"
    <3>1. p = Sends(x, s)
      BY <1>5, <2>8 DEF Preprocess
    <3>2. ctx' = ctx /\ Sent(s)
      BY <1>1, <3>1 DEF Sends, TypeOK
    <3>3. s = Insert(s.arg) /\ s.arg \in Row /\ s \notin {Scrub, Raise}
      BY <2>8 DEF Stmt, Insert, Scrub, Raise, Commit
    <3>4. Answered(Insert(s.arg))
      BY <3>2, <3>3 DEF Sent
    <3>5. QED
      BY <1>1, <2>1, <3>2, <3>3, <3>4, WriteOwnership
  <2>9. QED
    BY <2>3, <2>4, <2>5, <2>6, <2>7, <2>8, StmtParts
<1>6. QED
  BY <1>4, <1>5

(* __enter__ does: it gets into the block only with a BEGIN of its own.     *)
LEMMA EnterOwnership ==
  ASSUME Disciplined, TypeOK, Ownership, NEW c \in Ctx, Enter(c)
  PROVE  Ownership'
<1> DEFINE s == Begin(NoName)
           b == [FreshBooks EXCEPT !.depth = 1, !.name = NoName]
<1>1. scope[c] = "new" /\ ctx[c] = FreshBooks
  BY DEF Enter, Disciplined, Ownership, BooksFollowScope
<1>2. s \in Stmt /\ s.op = "begin" /\ s.arg = NoName
  BY DEF Begin, Stmt
<1>3. /\ FreshBooks.depth = 0 /\ FreshBooks.savepoints = <<>> /\ FreshBooks.name = NoName
      /\ b.depth = 1 /\ b.savepoints = <<>> /\ b.name = NoName
  BY DEF FreshBooks
<1>4. Preprocess(FreshBooks, s) = Sends(b, s)
  <2>1. FreshBooks.depth \notin Finished
    BY <1>3 DEF Finished, Exited, Committed, RolledBack
  <2>2. Preprocess(FreshBooks, s) = OnBegin(FreshBooks, s)
    BY <1>2, <2>1 DEF Preprocess
  <2>3. OnBegin(FreshBooks, s) = Sends(b, s)
    BY <1>2, <1>3 DEF OnBegin
  <2>4. QED
    BY <2>2, <2>3
<1> HIDE DEF s, b
<1>5. /\ ctx' = [ctx EXCEPT ![c] = b]
      /\ \/ Accepted(s) /\ scope' = [scope EXCEPT ![c] = "inside"]
         \/ Refused(s) /\ scope' = [scope EXCEPT ![c] = "refused"]
  BY <1>1, <1>2, <1>4 DEF Enter, Sends, Scrub, Raise, s
<1>6. ctx'[c] = b /\ \A d \in Ctx \ {c} : ctx'[d] = ctx[d] /\ scope'[d] = scope[d]
  BY <1>5 DEF TypeOK
<1>7. scope'[c] \in {"inside", "refused"}
  BY <1>5 DEF TypeOK
<1>8. BooksFollowScope'
  BY <1>3, <1>6, <1>7 DEF Ownership, BooksFollowScope
<1>9. CASE Accepted(s) /\ scope'[c] = "inside"
  <2>1. ~ db.open /\ ~ db.closed /\ db' = [db EXCEPT !.open = TRUE]
    BY <1>2, <1>9 DEF Accepted, Accepts, Apply
  <2>2. \A d \in Ctx : ~ Holds(d)
    BY <2>1 DEF Ownership, DepthTellsTheTruth
  <2>3. \A d \in Ctx : Holds(d)' <=> d = c
    BY <1>3, <1>6, <1>9, <2>2 DEF Holds
  <2>4. OneHolder' /\ db'.open /\ ~ db'.closed
    BY <2>1, <2>3 DEF OneHolder, TypeOK, Session
  <2>5. SavepointsLive'
    BY <1>3, <1>6, <2>3, EmbedNone DEF SavepointsLive
  <2>6. QED
    BY <1>8, <2>3, <2>4, <2>5 DEF Ownership, DepthTellsTheTruth, ClosedIsQuiet
<1>10. CASE Refused(s) /\ scope'[c] = "refused"
  <2>1. db' = db
    BY <1>2, <1>10 DEF Refused, Refuse
  <2>2. \A d \in Ctx : Holds(d)' <=> Holds(d)
    BY <1>1, <1>6, <1>10 DEF Holds
  <2>3. \A d \in Ctx : Holds(d) => ctx'[d] = ctx[d]
    BY <1>1, <1>6 DEF Holds
  <2>4. QED
    BY <1>8, <2>1, <2>2, <2>3
       DEF Ownership, OneHolder, DepthTellsTheTruth, SavepointsLive, ClosedIsQuiet
<1>11. QED
  BY <1>5, <1>9, <1>10 DEF TypeOK

(* close() of the connection ends its transaction, whoever holds it. *)
LEMMA CloseOwnership ==
  ASSUME TypeOK, Ownership, ctx' = ctx, scope' = scope, db' = Shut(db)
  PROVE  Ownership'
<1>1. db'.closed /\ ~ db'.open
  BY DEF Shut, Discard, Settled, TypeOK, Session
<1>2. \A d \in Ctx : Holds(d)' <=> Holds(d)
  BY DEF Holds
<1>3. QED
  BY <1>1, <1>2
     DEF Ownership, OneHolder, DepthTellsTheTruth, SavepointsLive, BooksFollowScope, ClosedIsQuiet

(* __exit__ does: it gives up what the scope held.                          *)
LEMMA ExitOwnership ==
  ASSUME TypeOK, Ownership, NEW c \in Ctx, Exit(c)
  PROVE  Ownership'
<1>1. scope[c] = "inside" /\ scope' = [scope EXCEPT ![c] = "left"]
  BY DEF Exit
<1>2. scope'[c] = "left" /\ \A d \in Ctx \ {c} : scope'[d] = scope[d]
  BY <1>1 DEF TypeOK
<1>3. CASE ctx[c].depth > 0
  <2> DEFINE b == FinishedBooks(Exited)
  <2>1. Holds(c) /\ ctx' = [ctx EXCEPT ![c] = b]
    BY <1>1, <1>3 DEF Exit, Holds
  <2>2. b.name = NoName /\ b.depth \in Finished
    BY DEF FinishedBooks, Finished
  <2>3. ~ db'.open
    BY <1>3, <2>1 DEF Exit, CloseOwned, Shut, Discard, Settled, Accepts, Rollback,
                      TypeOK, Session, Ownership, DepthTellsTheTruth, ClosedIsQuiet
  <2> HIDE DEF b
  <2>4. QED
    BY <1>2, <2>1, <2>2, <2>3, ReleaseStep
<1>4. CASE ~ (ctx[c].depth > 0)
  <2>1. /\ ctx' = [ctx EXCEPT ![c].depth = Exited]
        /\ db' = db \/ db' = Shut(db)
    BY <1>4 DEF Exit, CloseOwned
  <2>2. /\ ctx'[c].depth = Exited /\ ctx'[c].name = ctx[c].name
        /\ \A d \in Ctx \ {c} : ctx'[d] = ctx[d]
    BY <2>1 DEF TypeOK, Bookkeeping
  <2>3. \A d \in Ctx : Holds(d) => d # c
    BY <1>4 DEF Holds
  <2>4. \A d \in Ctx : Holds(d)' <=> Holds(d)
    BY <1>2, <2>2, <2>3 DEF Holds
  <2>5. BooksFollowScope'
    BY <1>2, <2>2 DEF Ownership, BooksFollowScope
  <2>6. db' = db \/ (db'.closed /\ ~ db'.open)
    BY <2>1 DEF Shut, Discard, Settled, TypeOK, Session
  <2>7. QED
    BY <2>2, <2>3, <2>4, <2>5, <2>6
       DEF Ownership, OneHolder, DepthTellsTheTruth, SavepointsLive, ClosedIsQuiet
<1>5. QED
  BY <1>3, <1>4

(* Every step keeps Ownership, for disciplined clients.                     *)
LEMMA OwnershipInductive ==
  ASSUME Disciplined
  PROVE  TypeOK /\ Ownership /\ [Next]_vars => Ownership'
<1> SUFFICES ASSUME TypeOK, Ownership, [Next]_vars PROVE Ownership'
  OBVIOUS
<1>1. ASSUME NEW c \in Ctx, Call(c) PROVE Ownership'
  <2>1. CASE Enter(c)
    BY <2>1, EnterOwnership
  <2>2. CASE Exit(c)
    BY <2>2, ExitOwnership
  <2>3. CASE Close(c)
    BY <2>3, CloseOwnership DEF Close
  <2>4. CASE \E s \in Stmt : Execute(c, s)
    BY <2>4, ExecuteOwnership
  <2>5. ASSUME NEW r \in Row, CursorInsert(c, r) PROVE Ownership'
    <3>1. Holds(c)
      BY <2>5 DEF CursorInsert, Inside, Disciplined, Holds, Ownership, BooksFollowScope, Finished
    <3>2. QED
      BY <2>5, <3>1, WriteOwnership DEF CursorInsert
  <2>6. ~ \E s \in Stmt : ExecuteRaw(c, s)
    BY DEF ExecuteRaw, Disciplined
  <2>7. ~ \E s \in Stmt, t \in Stmt : ExecuteScript(c, s, t)
    BY DEF ExecuteScript, Disciplined
  <2>8. QED
    BY <1>1, <2>1, <2>2, <2>3, <2>4, <2>5, <2>6, <2>7, CallIsOne
<1>2. ~ ConnectionCommit /\ ~ ConnectionRollback
  BY DEF ConnectionCommit, ConnectionRollback, Disciplined
<1>3. CASE UNCHANGED vars
  BY <1>3, QuietStep DEF vars
<1>4. QED
  BY <1>1, <1>2, <1>3 DEF Next

(* With disciplined clients, and for any number of contexts on the          *)
(* connection, at most one scope holds a transaction, the connection has    *)
(* one open exactly when some scope is going to finish it, and every        *)
(* savepoint that scope lists is there to go back to.                       *)
THEOREM OwnershipHolds ==
  ASSUME Disciplined
  PROVE  Spec => [](OneHolder /\ DepthTellsTheTruth /\ SavepointsLive)
<1>1. Init => Ownership
  BY DEF Init, FreshBooks, FreshSession, Ownership, OneHolder, DepthTellsTheTruth,
         SavepointsLive, BooksFollowScope, ClosedIsQuiet, Holds
<1>2. TypeOK /\ Ownership /\ [Next]_vars => Ownership'
  BY OwnershipInductive
<1>3. Ownership => OneHolder /\ DepthTellsTheTruth /\ SavepointsLive
  BY DEF Ownership
<1>4. QED
  BY <1>1, <1>2, <1>3, TypeCorrect, PTL DEF Spec

(* The first half of DepthTellsTheTruth is what __exit__ relies on, the     *)
(* second what the next user of the connection does.                        *)
THEOREM DepthIsTrue == ASSUME Disciplined PROVE Spec => []DepthTellsTheTruth
  BY OwnershipHolds, PTL

(* rollback_savepoint() of a name in the list finds it on the server.       *)
THEOREM SavepointsAreLive == ASSUME Disciplined PROVE Spec => []SavepointsLive
  BY OwnershipHolds, PTL

-----------------------------------------------------------------------------
(* Leaving a scope, whatever clients and the server did inside it. *)

(* The server never has unsettled work without a transaction.               *)
LEMMA AnsweredUnsettled ==
  ASSUME TypeOK, NothingUnsettled, NEW s \in Stmt, Answered(s)
  PROVE  NothingUnsettled'
<1>1. db \in Session
  BY DEF TypeOK
<1>2. CASE db' = Discard(db)
  BY <1>1, <1>2 DEF Discard, Settled, Session, NothingUnsettled
<1>3. CASE db' = Refuse(db, s)
  BY <1>1, <1>3 DEF Refuse, Session, NothingUnsettled
<1>4. CASE Accepted(s)
  <2>1. ~ db.closed /\ db' = Apply(db, s)
    BY <1>4 DEF Accepted, Accepts
  <2>2. CASE s.op \in {"begin", "savepoint", "insert"}
    BY <1>1, <2>1, <2>2 DEF Apply, Session, NothingUnsettled
  <2>3. CASE s.op = "rollbackTo"
    <3>1. Occurs(MarkNames(db), s.arg)
      BY <1>4, <2>3 DEF Accepted, Accepts
    <3>2. db.marks # <<>>
      BY <3>1 DEF Occurs, MarkNames
    <3>3. db' = ReturnTo(db, LastOf(MarkNames(db), s.arg))
      BY <2>1, <2>3 DEF Apply
    <3>4. db'.open = db.open /\ db'.closed = db.closed
      BY <1>1, <3>3 DEF ReturnTo, Session
    <3>5. QED
      BY <3>2, <3>4 DEF NothingUnsettled
  <2>4. CASE s.op \in {"commit", "rollback"}
    BY <1>1, <2>1, <2>4 DEF Apply, Discard, Settled, Session, NothingUnsettled
  <2>5. QED
    BY <2>2, <2>3, <2>4, StmtParts
<1>5. QED
  BY <1>2, <1>3, <1>4 DEF Answered, Refused

(* Leaving a scope with a BEGIN to finish discards its work.                *)
LEMMA ExitSettles ==
  ASSUME TypeOK, NothingUnsettled, NEW c \in Ctx, Exit(c)
  PROVE  /\ NothingUnsettled'
         /\ ctx[c].depth > 0 =>
              db'.durable = db.durable /\ db'.work = db.durable /\ ~ db'.open
<1>1. db \in Session
  BY DEF TypeOK
<1> DEFINE d == IF Accepts(db, Rollback(NoName)) THEN Discard(db) ELSE db
<1>2. /\ d \in Session /\ d.durable = db.durable /\ d.work = db.durable
      /\ ~ d.open /\ d.marks = <<>>
  <2>1. CASE db.open
    <3>1. Accepts(db, Rollback(NoName))
      BY <2>1 DEF Accepts, Rollback, NothingUnsettled
    <3>2. d = Discard(db)
      BY <3>1
    <3>3. QED
      BY <1>1, <3>2, DiscardShutType DEF Discard, Settled, Session
  <2>2. CASE ~ db.open
    <3>1. ~ Accepts(db, Rollback(NoName))
      BY <2>2 DEF Accepts, Rollback
    <3>2. QED
      BY <1>1, <2>2, <3>1 DEF NothingUnsettled
  <2>3. QED
    BY <1>1, <2>1, <2>2
<1>3. \A e \in Session :
        /\ Shut(e).durable = e.durable /\ Shut(e).work = e.durable
        /\ ~ Shut(e).open /\ Shut(e).marks = <<>>
  BY DEF Shut, Discard, Settled, Session
<1> HIDE DEF d
<1>4. CASE ctx[c].depth > 0
  <2>1. db' = CloseOwned(c, d)
    BY <1>4 DEF Exit, d
  <2>2. QED
    BY <1>2, <1>3, <2>1 DEF CloseOwned, NothingUnsettled
<1>5. CASE ~ (ctx[c].depth > 0)
  <2>1. db' = CloseOwned(c, db)
    BY <1>5 DEF Exit
  <2>2. QED
    BY <1>1, <1>3, <1>5, <2>1 DEF CloseOwned, NothingUnsettled
<1>6. QED
  BY <1>4, <1>5

(* NothingUnsettled is inductive for every client and every fault.          *)
LEMMA UnsettledInductive ==
  TypeOK /\ NothingUnsettled /\ [Next]_vars => NothingUnsettled'
<1> SUFFICES ASSUME TypeOK, NothingUnsettled, [Next]_vars PROVE NothingUnsettled'
  OBVIOUS
<1>1. db \in Session
  BY DEF TypeOK
<1>2. CASE db' = db
  BY <1>2 DEF NothingUnsettled
<1>3. CASE db' = Shut(db)
  BY <1>1, <1>3 DEF Shut, Discard, Settled, Session, NothingUnsettled
<1>4. ASSUME NEW c \in Ctx, Call(c) PROVE NothingUnsettled'
  <2>1. CASE Enter(c)
    <3> DEFINE p == Preprocess(ctx[c], Begin(NoName))
    <3>1. Begin(NoName) \in Stmt
      BY DEF Begin, Stmt
    <3>2. p.stmt \in Stmt \cup {Scrub, Raise}
      BY <3>1, PreprocessType DEF TypeOK
    <3>3. db' = db \/ (p.stmt.op = "begin" /\ Answered(p.stmt))
      BY <2>1 DEF Enter, Answered
    <3> HIDE DEF p
    <3>4. QED
      BY <1>2, <3>2, <3>3, AnsweredUnsettled DEF Scrub, Raise
  <2>2. CASE Exit(c)
    BY <2>2, ExitSettles
  <2>3. CASE Close(c)
    BY <1>3, <2>3 DEF Close
  <2>4. ASSUME NEW s \in Stmt, Execute(c, s) PROVE NothingUnsettled'
    <3> DEFINE p == Preprocess(ctx[c], s)
    <3>1. p.stmt \in Stmt \cup {Scrub, Raise}
      BY PreprocessType DEF TypeOK
    <3>2. Sent(p.stmt)
      BY <2>4 DEF Execute
    <3> HIDE DEF p
    <3>3. QED
      BY <1>2, <3>1, <3>2, AnsweredUnsettled DEF Sent
  <2>5. ASSUME NEW r \in Row, CursorInsert(c, r) PROVE NothingUnsettled'
    BY <2>5, AnsweredUnsettled DEF CursorInsert, Insert, Stmt
  <2>6. CASE \E s \in Stmt : ExecuteRaw(c, s)
    BY <2>6, AnsweredUnsettled DEF ExecuteRaw
  <2>7. ASSUME NEW s \in Stmt, NEW t \in Stmt, ExecuteScript(c, s, t)
        PROVE  NothingUnsettled'
    <3>1. db' = db \/ Answered(s) \/ Answered(t)
      BY <2>7 DEF ExecuteScript
    <3>2. QED
      BY <1>2, <3>1, AnsweredUnsettled
  <2>8. QED
    BY <1>4, <2>1, <2>2, <2>3, <2>4, <2>5, <2>6, <2>7, CallIsOne
<1>5. CASE ConnectionCommit \/ ConnectionRollback
  BY <1>1, <1>5
     DEF ConnectionCommit, ConnectionRollback, Discard, Settled, Session, NothingUnsettled
<1>6. QED
  BY <1>2, <1>4, <1>5 DEF Next, vars

(* Whatever clients do inside a scope, through the context, its cursors or  *)
(* the connection itself, and whatever the server refuses: __exit__ with a  *)
(* BEGIN to finish keeps none of it and leaves no transaction behind.       *)
THEOREM ExitAlwaysRollsBack == Spec => ExitRollsBack
<1>1. Init => NothingUnsettled
  BY DEF Init, FreshSession, NothingUnsettled
<1>2. TypeOK /\ NothingUnsettled /\ [Next]_vars => NothingUnsettled'
  BY UnsettledInductive
<1>3. TypeOK /\ NothingUnsettled /\ [Next]_vars =>
        [\A c \in Ctx : Exit(c) /\ ctx[c].depth > 0 =>
           db'.durable = db.durable /\ db'.work = db.durable /\ ~ db'.open]_vars
  BY ExitSettles
<1>4. QED
  BY <1>1, <1>2, <1>3, TypeCorrect, PTL DEF Spec, ExitRollsBack

-----------------------------------------------------------------------------
(* Only the last COMMIT of a scope makes anything durable. *)

(* Of all answers only that to COMMIT makes work durable.                   *)
LEMMA AnsweredDurable ==
  ASSUME TypeOK, NEW s \in Stmt, Answered(s), s.op # "commit"
  PROVE  db'.durable = db.durable
<1>1. db \in Session
  BY DEF TypeOK
<1>2. CASE db' = Discard(db)
  BY <1>1, <1>2 DEF Discard, Settled, Session
<1>3. CASE db' = Refuse(db, s)
  BY <1>1, <1>3 DEF Refuse, Session
<1>4. CASE db' = Apply(db, s)
  <2>1. CASE s.op \in {"begin", "savepoint", "insert"}
    BY <1>1, <1>4, <2>1 DEF Apply, Session
  <2>2. CASE s.op = "rollbackTo"
    BY <1>1, <1>4, <2>2 DEF Apply, ReturnTo, Session
  <2>3. CASE s.op = "rollback"
    BY <1>1, <1>4, <2>3 DEF Apply, Discard, Settled, Session
  <2>4. QED
    BY <2>1, <2>2, <2>3, StmtParts
<1>5. QED
  BY <1>2, <1>3, <1>4 DEF Answered, Accepted, Refused

(* The books let a COMMIT through only for the first BEGIN.                 *)
LEMMA SendsCommit ==
  ASSUME NEW x \in Bookkeeping, NEW s \in Stmt,
         Preprocess(x, s).stmt.op = "commit"
  PROVE  x.depth > 0 /\ Preprocess(x, s).books.depth = Committed
<1>1. x.depth \notin Finished
  BY DEF Preprocess, Sends, Raise
<1>2. s.op = "commit"
  <2>1. CASE s.op = "begin"
    BY <1>1, <2>1 DEF Preprocess, OnBegin, Sends, Scrub
  <2>2. CASE s.op = "savepoint"
    BY <1>1, <2>2 DEF Preprocess, OnSavepoint, Sends
  <2>3. CASE s.op = "rollback"
    BY <1>1, <2>3 DEF Preprocess, OnRollback, Sends, Raise, Rollback
  <2>4. CASE s.op = "rollbackTo"
    BY <1>1, <2>4 DEF Preprocess, OnRollbackTo, Sends, Raise
  <2>5. CASE s.op = "insert"
    BY <1>1, <2>5 DEF Preprocess, Sends
  <2>6. QED
    BY <2>1, <2>2, <2>3, <2>4, <2>5, StmtParts
<1>3. Preprocess(x, s) = OnCommit(x, s) /\ x.depth \in Nat
  BY <1>1, <1>2 DEF Preprocess, Bookkeeping
<1>4. x.depth = 1
  BY <1>3 DEF OnCommit, Sends, Raise, Scrub
<1>5. QED
  BY <1>3, <1>4 DEF OnCommit, Sends, FinishedBooks

(* A COMMIT that is neither scrubbed nor refused by the books is sent as it *)
(* is, and finishes the context.                                            *)
LEMMA CommitGoesThrough ==
  ASSUME NEW x \in Bookkeeping, NEW s \in Stmt, s.op = "commit",
         Preprocess(x, s).stmt \notin {Scrub, Raise}
  PROVE  /\ Preprocess(x, s).stmt = s
         /\ Preprocess(x, s).books = FinishedBooks(Committed)
<1>1. x.depth \notin Finished
  BY DEF Preprocess, Sends
<1>2. Preprocess(x, s) = OnCommit(x, s) /\ x.depth \in Nat
  BY <1>1 DEF Preprocess, Bookkeeping
<1>3. x.depth = 1
  BY <1>2 DEF OnCommit, Sends
<1>4. QED
  BY <1>2, <1>3 DEF OnCommit, Sends

(* A statement is scrubbed only inside a transaction.                       *)
LEMMA ScrubInside ==
  ASSUME NEW x \in Bookkeeping, NEW s \in Stmt, Preprocess(x, s).stmt = Scrub
  PROVE  x.depth > 0
<1>1. x.depth \in Nat
  BY DEF Preprocess, Sends, Raise, Scrub, Bookkeeping
<1>2. s.op \in {"begin", "commit"}
  <2>1. CASE s.op = "savepoint"
    BY <1>1, <2>1 DEF Preprocess, OnSavepoint, Sends, Scrub, Finished, Exited, Committed, RolledBack
  <2>2. CASE s.op = "rollback"
    BY <1>1, <2>2 DEF Preprocess, OnRollback, Sends, Raise, Rollback, Scrub,
                      Finished, Exited, Committed, RolledBack
  <2>3. CASE s.op = "rollbackTo"
    BY <1>1, <2>3 DEF Preprocess, OnRollbackTo, Sends, Raise, Scrub,
                      Finished, Exited, Committed, RolledBack
  <2>4. CASE s.op = "insert"
    BY <1>1, <2>4 DEF Preprocess, Sends, Scrub, Finished, Exited, Committed, RolledBack
  <2>5. QED
    BY <2>1, <2>2, <2>3, <2>4, StmtParts
<1>3. CASE s.op = "begin"
  BY <1>1, <1>3 DEF Preprocess, OnBegin, Sends, Scrub, Finished, Exited, Committed, RolledBack
<1>4. CASE s.op = "commit"
  BY <1>1, <1>4 DEF Preprocess, OnCommit, Sends, Scrub, Raise, Finished, Exited, Committed, RolledBack
<1>5. QED
  BY <1>2, <1>3, <1>4

(* A script changes what is durable only when one of its lines is the       *)
(* COMMIT that matches the first BEGIN.                                     *)
LEMMA ScriptDurable ==
  ASSUME TypeOK, NEW c \in Ctx, NEW s \in Stmt, NEW t \in Stmt,
         ExecuteScript(c, s, t), db'.durable # db.durable
  PROVE  ctx[c].depth > 0 /\ ctx'[c].depth = Committed
<1> DEFINE p == Preprocess(ctx[c], s)
           q == Preprocess(p.books, t)
<1>1. ctx[c] \in Bookkeeping /\ p.books \in Bookkeeping
  BY PreprocessType DEF TypeOK
<1>2. ctx' = [ctx EXCEPT ![c] = q.books]
      /\ \/ q.stmt = Scrub /\ p.stmt \notin {Scrub, Raise} /\ Answered(s)
         \/ q.stmt \notin {Scrub, Raise} /\ p.stmt = Scrub /\ Answered(t)
  BY DEF ExecuteScript
<1>3. CASE q.stmt = Scrub /\ p.stmt \notin {Scrub, Raise} /\ Answered(s)
  <2>1. s.op = "commit"
    BY <1>3, AnsweredDurable
  <2>2. p.books.depth \in Finished
    BY <1>1, <1>3, <2>1, CommitGoesThrough DEF FinishedBooks, Finished
  <2>3. q.stmt = Raise
    BY <2>2 DEF Preprocess, Sends
  <2>4. QED
    BY <1>3, <2>3 DEF Scrub, Raise
<1>4. CASE q.stmt \notin {Scrub, Raise} /\ p.stmt = Scrub /\ Answered(t)
  <2>1. t.op = "commit"
    BY <1>4, AnsweredDurable
  <2>2. q.stmt = t
    BY <1>1, <1>4, <2>1, CommitGoesThrough
  <2>3. q.books.depth = Committed
    BY <1>1, <2>1, <2>2, SendsCommit
  <2>4. ctx[c].depth > 0
    BY <1>1, <1>4, ScrubInside
  <2>5. QED
    BY <1>2, <2>3, <2>4 DEF TypeOK
<1>5. QED
  BY <1>2, <1>3, <1>4

(* Whatever clients do and the server refuses, and however many contexts    *)
(* share the connection: nothing becomes durable except by the COMMIT that  *)
(* matches the first BEGIN of some context, or by a commit that goes past   *)
(* the contexts.                                                            *)
THEOREM LastCommitOnly == Spec => DurableOnlyByLastCommit
<1> DEFINE Kept == db'.durable # db.durable =>
                     \/ \E c \in Ctx : ctx[c].depth > 0 /\ ctx'[c].depth = Committed
                     \/ \E c \in Ctx : ExecuteRaw(c, Commit)
                     \/ ConnectionCommit
<1>1. ASSUME TypeOK, NEW c \in Ctx, Call(c) PROVE Kept
  <2>1. db \in Session /\ ctx[c] \in Bookkeeping
    BY <1>1 DEF TypeOK
  <2>2. \A d \in Session : Shut(d).durable = d.durable /\ Discard(d).durable = d.durable
    BY DEF Shut, Discard, Settled, Session
  <2>3. CASE Enter(c)
    <3> DEFINE p == Preprocess(ctx[c], Begin(NoName))
    <3>1. Begin(NoName) \in Stmt
      BY DEF Begin, Stmt
    <3>2. p.stmt \in Stmt \cup {Scrub, Raise}
      BY <2>1, <3>1, PreprocessType
    <3>3. db' = db \/ (p.stmt.op = "begin" /\ Answered(p.stmt))
      BY <2>3 DEF Enter, Answered
    <3> HIDE DEF p
    <3>4. QED
      BY <1>1, <3>2, <3>3, AnsweredDurable DEF Scrub, Raise
  <2>4. CASE Exit(c)
    <3>1. db' \in {CloseOwned(c, db), CloseOwned(c, Discard(db))}
      BY <2>4 DEF Exit
    <3>2. QED
      BY <2>1, <2>2, <3>1, DiscardShutType DEF CloseOwned
  <2>5. CASE Close(c)
    BY <2>1, <2>2, <2>5 DEF Close
  <2>6. ASSUME NEW s \in Stmt, Execute(c, s) PROVE Kept
    <3> DEFINE p == Preprocess(ctx[c], s)
    <3>1. ctx' = [ctx EXCEPT ![c] = p.books] /\ Sent(p.stmt)
      BY <2>6 DEF Execute
    <3>2. p.stmt \in Stmt \cup {Scrub, Raise}
      BY <2>1, PreprocessType
    <3>3. p.stmt.op = "commit" => ctx[c].depth > 0 /\ p.books.depth = Committed
      BY <2>1, SendsCommit
    <3> HIDE DEF p
    <3>4. CASE p.stmt.op = "commit"
      BY <1>1, <3>1, <3>3, <3>4 DEF TypeOK
    <3>5. CASE p.stmt.op # "commit"
      BY <1>1, <3>1, <3>2, <3>5, AnsweredDurable DEF Sent
    <3>6. QED
      BY <3>4, <3>5
  <2>7. ASSUME NEW r \in Row, CursorInsert(c, r) PROVE Kept
    <3>1. Insert(r) \in Stmt /\ Insert(r).op # "commit"
      BY DEF Insert, Stmt
    <3>2. QED
      BY <1>1, <2>7, <3>1, AnsweredDurable DEF CursorInsert
  <2>8. ASSUME NEW s \in Stmt, ExecuteRaw(c, s) PROVE Kept
    <3>1. Answered(s)
      BY <2>8 DEF ExecuteRaw
    <3>2. s.op = "commit" => s = Commit
      BY DEF Stmt, Commit
    <3>3. QED
      BY <1>1, <2>8, <3>1, <3>2, AnsweredDurable
  <2>9. ASSUME NEW s \in Stmt, NEW t \in Stmt, ExecuteScript(c, s, t) PROVE Kept
    BY <1>1, <2>9, ScriptDurable
  <2> HIDE DEF Kept
  <2>10. QED
    BY <1>1, <2>3, <2>4, <2>5, <2>6, <2>7, <2>8, <2>9, CallIsOne
<1>2. ASSUME TypeOK, ConnectionRollback PROVE Kept
  BY <1>2 DEF ConnectionRollback, Discard, Settled, TypeOK, Session
<1>3. TypeOK /\ [Next]_vars => [Kept]_vars
  BY <1>1, <1>2 DEF Next
<1>4. QED
  BY <1>3, TypeCorrect, PTL DEF Spec, DurableOnlyByLastCommit

-----------------------------------------------------------------------------
(* A finished context. *)

(* The books of a finished context refuse every statement and stay as they  *)
(* are.                                                                     *)
LEMMA FinishedRaises ==
  ASSUME NEW x, x.depth \in Finished, NEW s
  PROVE  Preprocess(x, s).books = x /\ Preprocess(x, s).stmt = Raise
  BY DEF Preprocess, Sends

(* However many contexts there are and whatever is called on them, in the   *)
(* block or outside of it: one that was committed, rolled back or left      *)
(* never gets another transaction.                                          *)
THEOREM FinishedStays == Spec => FinishedForGood
<1> DEFINE Stays(d) == ctx[d].depth \in Finished =>
                         ctx'[d] \in {ctx[d], [ctx[d] EXCEPT !.depth = Exited]}
<1>1. ASSUME TypeOK, NEW c \in Ctx, Call(c), NEW d \in Ctx PROVE Stays(d)
  <2>1. CASE Enter(c)
    <3>1. ctx' = [ctx EXCEPT ![c] = Preprocess(ctx[c], Begin(NoName)).books]
      BY <2>1 DEF Enter
    <3>2. QED
      BY <1>1, <3>1, FinishedRaises DEF TypeOK
  <2>2. CASE Exit(c)
    <3>1. ctx[c].depth \in Finished => ~ (ctx[c].depth > 0)
      BY DEF Finished, Exited, Committed, RolledBack
    <3>2. QED
      BY <1>1, <2>2, <3>1 DEF Exit, TypeOK
  <2>3. ASSUME NEW s \in Stmt, Execute(c, s) PROVE Stays(d)
    <3>1. ctx' = [ctx EXCEPT ![c] = Preprocess(ctx[c], s).books]
      BY <2>3 DEF Execute
    <3>2. QED
      BY <1>1, <3>1, FinishedRaises DEF TypeOK
  <2>4. ASSUME NEW s \in Stmt, NEW t \in Stmt, ExecuteScript(c, s, t) PROVE Stays(d)
    <3> DEFINE p == Preprocess(ctx[c], s)
               q == Preprocess(p.books, t)
    <3>1. \/ ctx' = [ctx EXCEPT ![c] = p.books]
          \/ p.stmt # Raise /\ ctx' = [ctx EXCEPT ![c] = q.books]
      BY <2>4 DEF ExecuteScript
    <3>2. ctx[c].depth \in Finished => p.books = ctx[c] /\ p.stmt = Raise
      BY FinishedRaises
    <3> HIDE DEF p, q
    <3>3. QED
      BY <1>1, <3>1, <3>2 DEF TypeOK
  <2>5. CASE ctx' = ctx
    BY <2>5
  <2>6. QED
    BY <1>1, <2>1, <2>2, <2>3, <2>4, <2>5, CallIsOne DEF Close, CursorInsert, ExecuteRaw
<1>2. ASSUME NEW d \in Ctx, ctx' = ctx PROVE Stays(d)
  BY <1>2
<1>3. TypeOK /\ [Next]_vars =>
        [\A c \in Ctx : ctx[c].depth \in Finished =>
           ctx'[c] \in {ctx[c], [ctx[c] EXCEPT !.depth = Exited]}]_vars
  BY <1>1, <1>2 DEF Next, ConnectionCommit, ConnectionRollback, vars
<1>4. QED
  BY <1>3, TypeCorrect, PTL DEF Spec, FinishedForGood

-----------------------------------------------------------------------------
(* The promise of TxnScope, for disciplined clients that use a name once    *)
(* while it is live.                                                        *)

Strict == Disciplined /\ "reuse" \notin Uses

(* What the refinement needs beyond Ownership: the names a scope still      *)
(* lists stand for savepoints of the server, the later for the later, so    *)
(* that rolling back to one of them cannot touch what an earlier one means. *)
PointsInOrder ==
  \A c \in Ctx : Holds(c) /\ ~ db.closed => InOrder(ctx[c].savepoints, db)

PromiseInv == TypeOK /\ Ownership /\ NothingUnsettled /\ PointsInOrder

(* A step keeps PointsInOrder and is seen as one of TxnScope, or as none.   *)
Follows == PointsInOrder' /\ [Promise!Next]_(Promise!vars)

(* What TxnScope sees of a connection on which a scope holds a transaction, *)
(* and of one on which none does.                                           *)
LEMMA ViewActive ==
  ASSUME OneHolder, ~ db.closed, NEW c \in Ctx, Holds(c)
  PROVE  Phase = "active" /\ Points = MarkedAs(ctx[c].savepoints, db)
<1>1. Active
  BY DEF Active
<1>2. (CHOOSE d \in Ctx : Holds(d)) = c
  BY DEF OneHolder
<1>3. QED
  BY <1>1, <1>2 DEF Phase, Points

LEMMA ViewActiveNext ==
  ASSUME OneHolder', ~ db'.closed, NEW c \in Ctx, Holds(c)'
  PROVE  Phase' = "active" /\ Points' = MarkedAs(ctx'[c].savepoints, db')
<1>1. Active'
  BY DEF Active
<1>2. (CHOOSE d \in Ctx : Holds(d)') = c
  BY DEF OneHolder
<1>3. QED
  BY <1>1, <1>2 DEF Phase, Points

LEMMA ViewIdle == ~ Active => Phase = "idle" /\ Points = <<>>
  BY DEF Phase, Points

LEMMA ViewIdleNext == ~ Active' => Phase' = "idle" /\ Points' = <<>>
  BY DEF Phase, Points

(* A connection without a holder has nothing that is not durable.           *)
LEMMA IdleIsSettled ==
  ASSUME PromiseInv, ~ Active
  PROVE  db.work = db.durable
  BY DEF PromiseInv, Ownership, DepthTellsTheTruth, NothingUnsettled, Active

(* A step that changes nothing TxnScope can see.                            *)
LEMMA SameView ==
  ASSUME PromiseInv, OneHolder',
         \A c \in Ctx : Holds(c)' <=> Holds(c),
         \A c \in Ctx : Holds(c) => ctx'[c].savepoints = ctx[c].savepoints,
         db'.closed = db.closed, db'.durable = db.durable, db'.work = db.work,
         db'.marks = db.marks
  PROVE  Follows
<1>1. \A names : MarkedAs(names, db') = MarkedAs(names, db)
                 /\ (InOrder(names, db) <=> InOrder(names, db'))
  BY DEF MarkedAs, InOrder, At, MarkNames
<1>2. PointsInOrder'
  BY <1>1 DEF PromiseInv, PointsInOrder
<1>3. CASE Active
  <2>1. ~ db.closed /\ ~ db'.closed /\ \E c \in Ctx : Holds(c) /\ Holds(c)'
    BY <1>3 DEF Active
  <2>2. PICK c \in Ctx : Holds(c) /\ Holds(c)'
    BY <2>1
  <2>3. Phase = "active" /\ Points = MarkedAs(ctx[c].savepoints, db)
    BY <2>1, <2>2, ViewActive DEF PromiseInv, Ownership
  <2>4. Phase' = "active" /\ Points' = MarkedAs(ctx'[c].savepoints, db')
    BY <2>1, <2>2, ViewActiveNext
  <2>5. QED
    BY <1>1, <1>2, <2>2, <2>3, <2>4 DEF Follows, Promise!vars
<1>4. CASE ~ Active
  <2>1. ~ Active'
    BY <1>4 DEF Active
  <2>2. QED
    BY <1>2, <1>4, <2>1, ViewIdle, ViewIdleNext DEF Follows, Promise!vars
<1>5. QED
  BY <1>3, <1>4

(* A step after which no scope holds a transaction, and which makes durable *)
(* all the work or none of it.                                              *)
LEMMA ToIdle ==
  ASSUME PromiseInv, ~ Active', db'.work = db'.durable,
         db'.durable = db.durable \/ db'.durable = db.work
  PROVE  Follows
<1>1. PointsInOrder'
  BY DEF PointsInOrder, Active
<1>2. Phase' = "idle" /\ Points' = <<>>
  BY ViewIdleNext
<1>3. CASE Active
  <2>1. Phase = "active"
    BY <1>3 DEF Phase
  <2>2. Promise!Keep \/ Promise!Drop
    BY <1>2, <2>1 DEF Promise!Keep, Promise!Drop
  <2>3. QED
    BY <1>1, <2>2 DEF Follows, Promise!Next
<1>4. CASE ~ Active
  <2>1. Phase = "idle" /\ Points = <<>> /\ db.work = db.durable
    BY <1>4, ViewIdle, IdleIsSettled
  <2>2. QED
    BY <1>1, <1>2, <2>1 DEF Follows, Promise!vars
<1>5. QED
  BY <1>3, <1>4

(* The end of the holder's transaction is the end of all.                   *)
LEMMA HolderLeaves ==
  ASSUME PromiseInv, NEW c \in Ctx, Holds(c),
         \A d \in Ctx \ {c} : scope'[d] = scope[d] /\ ctx'[d] = ctx[d],
         ~ Holds(c)'
  PROVE  ~ Active'
  BY DEF PromiseInv, Ownership, OneHolder, Holds, Active
(* An insert inside the scope: Write, if the server takes it.               *)
LEMMA WriteFollows ==
  ASSUME Disciplined, PromiseInv, Ownership', NEW c \in Ctx, Holds(c),
         NEW r \in Row, Answered(Insert(r)), ctx' = ctx, scope' = scope
  PROVE  Follows
<1>1. Insert(r) \in Stmt /\ Insert(r).op = "insert" /\ Insert(r).arg = r
  BY DEF Insert, Stmt
<1>2. /\ TypeOK /\ db \in Session /\ (db.open \/ db.closed)
      /\ OneHolder /\ OneHolder' /\ \A d \in Ctx : Holds(d)' <=> Holds(d)
  BY DEF PromiseInv, TypeOK, Ownership, DepthTellsTheTruth, Holds
<1>3. CASE db' = Refuse(db, Insert(r))
  <2>1. /\ db'.closed = db.closed /\ db'.durable = db.durable
        /\ db'.work = db.work /\ db'.marks = db.marks
    BY <1>2, <1>3 DEF Refuse, Session
  <2>2. QED
    BY <1>2, <2>1, SameView
<1>4. CASE Accepts(db, Insert(r)) /\ db' = Apply(db, Insert(r))
  <2>1. ~ db.closed /\ r \notin db.work
    BY <1>1, <1>4 DEF Accepts
  <2>2. /\ db'.durable = db.durable /\ db'.work = db.work \cup {r}
        /\ db'.marks = db.marks /\ ~ db'.closed
    BY <1>1, <1>2, <1>4, <2>1 DEF Apply, Session
  <2>3. \A names : /\ MarkedAs(names, db') = MarkedAs(names, db)
                   /\ InOrder(names, db) <=> InOrder(names, db')
    BY <2>2 DEF MarkedAs, InOrder, At, MarkNames
  <2>4. PointsInOrder'
    BY <1>2, <2>1, <2>3 DEF PromiseInv, PointsInOrder
  <2>5. Phase = "active" /\ Points = MarkedAs(ctx[c].savepoints, db)
    BY <1>2, <2>1, ViewActive
  <2>6. Phase' = "active" /\ Points' = MarkedAs(ctx'[c].savepoints, db')
    BY <1>2, <2>2, ViewActiveNext
  <2>7. Promise!Write(r)
    BY <2>1, <2>2, <2>3, <2>5, <2>6 DEF Promise!Write
  <2>8. QED
    BY <2>4, <2>7 DEF Follows, Promise!Next
<1>5. QED
  BY <1>1, <1>2, <1>3, <1>4, Answer

(* SAVEPOINT: Save, on a connection that is not closed.                     *)
LEMMA SaveFollows ==
  ASSUME Strict, PromiseInv, TypeOK', Ownership', NEW c \in Ctx, Holds(c),
         NEW s \in Stmt, s.op = "savepoint", NewName(c, s), scope' = scope,
         ctx' = [ctx EXCEPT ![c] = OnSavepoint(ctx[c], s).books],
         Sent(OnSavepoint(ctx[c], s).stmt)
  PROVE  Follows
<1> DEFINE held == ctx[c].savepoints
           m == [name |-> s.arg, rows |-> db.work]
<1>1. ctx' = [ctx EXCEPT ![c].savepoints = Append(held, s.arg)] /\ Answered(s)
  BY DEF OnSavepoint, Sends, Sent, Scrub, Raise
<1>2. /\ TypeOK /\ db \in Session /\ db' \in Session /\ (db.open \/ db.closed)
      /\ OneHolder /\ OneHolder' /\ Disciplined
  BY DEF PromiseInv, TypeOK, Ownership, DepthTellsTheTruth, Strict
<1>3. /\ ctx'[c].savepoints = Append(held, s.arg)
      /\ \A d \in Ctx : ctx'[d].depth = ctx[d].depth
      /\ \A d \in Ctx \ {c} : ctx'[d] = ctx[d]
  BY <1>1, <1>2 DEF TypeOK, Bookkeeping
<1>4. \A d \in Ctx : Holds(d)' <=> Holds(d)
  BY <1>3 DEF Holds
<1>5. CASE db.closed
  <2>1. db' = db
    BY <1>1, <1>2, <1>5, Answer DEF Accepts, Refuse
  <2>2. ~ Active /\ ~ Active' /\ db.work = db.durable
    BY <1>5, <2>1, IdleIsSettled DEF Active
  <2>3. QED
    BY <2>1, <2>2, ToIdle
<1>6. CASE ~ db.closed
  <2>1. db' = [db EXCEPT !.open = TRUE, !.marks = Append(@, m)]
    BY <1>1, <1>2, <1>6, Answer DEF Accepts, Apply
  <2>2. /\ db'.durable = db.durable /\ db'.work = db.work
        /\ db'.marks = Append(db.marks, m) /\ ~ db'.closed
    BY <1>2, <1>6, <2>1 DEF Session
  <2>3. /\ held \in Seq(Name) /\ m \in Mark /\ m.name = s.arg /\ s.arg \in Name
        /\ ~ Occurs(held, s.arg)
    BY <1>2, StmtParts DEF TypeOK, Bookkeeping, Session, Mark, Strict, NewName
  <2>4. InOrder(held, db)
    BY <1>6 DEF PromiseInv, PointsInOrder
  <2>5. /\ InOrder(Append(held, s.arg), db')
        /\ MarkedAs(Append(held, s.arg), db') = Append(MarkedAs(held, db), m)
    <3> HIDE DEF held, m
    <3>1. /\ InOrder(Append(held, m.name), db')
          /\ MarkedAs(Append(held, m.name), db') = Append(MarkedAs(held, db), m)
      BY <1>2, <2>2, <2>3, <2>4, PointSaved
    <3>2. QED
      BY <2>3, <3>1
  <2>6. PointsInOrder'
    <3>1. \A d \in Ctx : Holds(d) => d = c
      BY <1>2 DEF OneHolder
    <3>2. QED
      BY <1>3, <1>4, <2>5, <3>1 DEF PointsInOrder
  <2>7. Phase = "active" /\ Points = MarkedAs(held, db)
    BY <1>2, <1>6, ViewActive
  <2>8. Phase' = "active" /\ Points' = MarkedAs(ctx'[c].savepoints, db')
    BY <1>2, <1>4, <2>2, ViewActiveNext
  <2>9. Points' = Append(Points, m)
    BY <1>3, <2>5, <2>7, <2>8
  <2>10. Promise!Save(s.arg)
    BY <2>2, <2>7, <2>8, <2>9 DEF Promise!Save
  <2>11. QED
    BY <2>3, <2>6, <2>10 DEF Follows, Promise!Next
<1>7. QED
  BY <1>5, <1>6

(* ROLLBACK TO: Return to the savepoint the name stands for.                *)
LEMMA ReturnFollows ==
  ASSUME Disciplined, PromiseInv, TypeOK', Ownership', NEW c \in Ctx, Holds(c),
         NEW s \in Stmt, s.op = "rollbackTo", scope' = scope,
         ctx' = [ctx EXCEPT ![c] = OnRollbackTo(ctx[c], s).books],
         Sent(OnRollbackTo(ctx[c], s).stmt)
  PROVE  Follows
<1> DEFINE held == ctx[c].savepoints
           cut == PopThrough(held, s.arg)
           k == LastOf(held, s.arg)
<1>1. /\ held \in Seq(Name) /\ db \in Session /\ db' \in Session /\ TypeOK
      /\ s.arg \in Name /\ ctx[c].name = NoName /\ OneHolder /\ OneHolder'
  BY StmtParts DEF PromiseInv, TypeOK, Bookkeeping, Ownership, BooksFollowScope
<1>2. CASE ~ Occurs(held, s.arg)
  <2>1. OnRollbackTo(ctx[c], s) = Sends(ctx[c], Raise)
    BY <1>1, <1>2, NoNameAssumption DEF OnRollbackTo, KnownName
  <2>2. ctx' = ctx /\ db' = db
    BY <1>1, <2>1 DEF Sends, Sent, TypeOK
  <2>3. \A d \in Ctx : Holds(d)' <=> Holds(d)
    BY <2>2 DEF Holds
  <2>4. QED
    BY <1>1, <2>2, <2>3, SameView
<1>3. CASE Occurs(held, s.arg)
  <2>1. OnRollbackTo(ctx[c], s) = Sends([ctx[c] EXCEPT !.savepoints = cut], s)
    BY <1>3 DEF OnRollbackTo, KnownName, Holds
  <2>2. ctx' = [ctx EXCEPT ![c].savepoints = cut] /\ Answered(s)
    BY <2>1 DEF Sends, Sent, Scrub, Raise
  <2>3. /\ ctx'[c].savepoints = cut
        /\ \A d \in Ctx : ctx'[d].depth = ctx[d].depth
        /\ \A d \in Ctx \ {c} : ctx'[d] = ctx[d]
    BY <1>1, <2>2 DEF TypeOK, Bookkeeping
  <2>4. \A d \in Ctx : Holds(d)' <=> Holds(d)
    BY <2>3 DEF Holds
  <2>5. CASE db.closed
    <3>1. db' = db
      BY <1>1, <2>2, <2>5, Answer DEF Accepts, Refuse
    <3>2. ~ Active /\ ~ Active' /\ db.work = db.durable
      BY <2>5, <3>1, IdleIsSettled DEF Active
    <3>3. QED
      BY <3>1, <3>2, ToIdle
  <2>6. CASE ~ db.closed
    <3>1. InOrder(held, db)
      BY <2>6 DEF PromiseInv, PointsInOrder
    <3>2. Occurs(MarkNames(db), s.arg)
      BY <1>3, <3>1 DEF InOrder, Occurs
    <3>3. db' = ReturnTo(db, At(db, s.arg))
      BY <1>1, <2>2, <2>6, <3>2, Answer DEF Accepts, Apply, At
    <3>4. /\ k \in 1..Len(held)
          /\ MarkedAs(cut, db) = SubSeq(MarkedAs(held, db), 1, k - 1)
          /\ MarkedAs(held, db)[k].rows = db.marks[At(db, s.arg)].rows
      BY <1>1, <1>3, <3>1, PointsCut
    <3>5. InOrder(cut, db') /\ MarkedAs(cut, db') = MarkedAs(cut, db)
      <4> HIDE DEF held
      <4>1. QED
        BY <1>1, <1>3, <3>1, <3>3, PointsReturn
    <3>6. /\ db'.durable = db.durable /\ db'.work = db.marks[At(db, s.arg)].rows
          /\ ~ db'.closed
      BY <1>1, <2>6, <3>3 DEF ReturnTo, Session
    <3>7. PointsInOrder'
      <4>1. \A d \in Ctx : Holds(d) => d = c
        BY <1>1 DEF OneHolder
      <4>2. QED
        BY <2>3, <2>4, <3>5, <4>1 DEF PointsInOrder
    <3>8. Phase = "active" /\ Points = MarkedAs(held, db)
      BY <1>1, <2>6, ViewActive
    <3>9. Phase' = "active" /\ Points' = MarkedAs(ctx'[c].savepoints, db')
      BY <1>1, <2>4, <3>6, ViewActiveNext
    <3>10. Points' = SubSeq(Points, 1, k - 1) /\ db'.work = Points[k].rows
      BY <2>3, <3>4, <3>5, <3>6, <3>8, <3>9
    <3>11. k \in 1..Len(Points)
      BY <1>1, <3>1, <3>4, <3>8, MarkedAsType
    <3> HIDE DEF k
    <3>12. Promise!Return(k)
      BY <3>6, <3>8, <3>9, <3>10 DEF Promise!Return
    <3>13. QED
      BY <3>7, <3>11, <3>12 DEF Follows, Promise!Next
  <2>7. QED
    BY <2>5, <2>6
<1>4. QED
  BY <1>2, <1>3

(* COMMIT of the last BEGIN and a full rollback: Keep and Drop.             *)
LEMMA EndFollows ==
  ASSUME Disciplined, PromiseInv, NEW c \in Ctx, Holds(c),
         NEW s \in Stmt, s.op \in {"commit", "rollback"}, Sent(s),
         NEW o \in {Committed, RolledBack},
         ctx' = [ctx EXCEPT ![c] = FinishedBooks(o)], scope' = scope
  PROVE  Follows
<1>1. s \notin {Scrub, Raise}
  BY DEF Scrub, Raise
<1>2. Answered(s) /\ TypeOK /\ db \in Session /\ (db.open \/ db.closed)
  BY <1>1 DEF Sent, PromiseInv, TypeOK, Ownership, DepthTellsTheTruth
<1>3. ~ (ctx'[c].depth > 0) /\ \A d \in Ctx \ {c} : ctx'[d] = ctx[d]
  BY <1>2 DEF TypeOK, FinishedBooks, Committed, RolledBack
<1>4. ~ Active'
  BY <1>3, HolderLeaves DEF Holds
<1>5. CASE db.closed
  <2>1. db' = db
    BY <1>2, <1>5, Answer DEF Accepts, Refuse
  <2>2. db.work = db.durable
    BY <1>5, IdleIsSettled DEF Active
  <2>3. QED
    BY <1>4, <2>1, <2>2, ToIdle
<1>6. CASE ~ db.closed
  <2>1. db' = Apply(db, s)
    BY <1>2, <1>6, Answer DEF Accepts
  <2>2. db'.work = db'.durable /\ (db'.durable = db.durable \/ db'.durable = db.work)
    BY <1>2, <2>1 DEF Apply, Settled, Discard, Session
  <2>3. QED
    BY <1>4, <2>2, ToIdle
<1>7. QED
  BY <1>5, <1>6
(* Any statement given to execute().                                        *)
LEMMA ExecuteFollows ==
  ASSUME Strict, PromiseInv, TypeOK', Ownership', NEW c \in Ctx, NEW s \in Stmt,
         Execute(c, s), NewName(c, s)
  PROVE  Follows
<1> DEFINE x == ctx[c]
           p == Preprocess(x, s)
<1>1. /\ ctx' = [ctx EXCEPT ![c] = p.books] /\ Sent(p.stmt)
      /\ scope' = scope /\ scope[c] = "inside"
  BY DEF Execute, Inside, Disciplined, Strict
<1>2. /\ x \in Bookkeeping /\ TypeOK /\ Disciplined /\ OneHolder'
      /\ scope[c] = "inside" => x.depth \in Finished \/ x.depth > 0
  BY DEF TypeOK, PromiseInv, Ownership, BooksFollowScope, Strict, Finished
<1>3. ASSUME NEW n \in Nat, n > 0, x.depth > 0,
             p = Sends([x EXCEPT !.depth = n], Scrub)
      PROVE  Follows
  <2>1. ctx' = [ctx EXCEPT ![c].depth = n] /\ db' = db
    BY <1>1, <1>3 DEF Sends, Sent
  <2>2. /\ ctx'[c].depth > 0 /\ ctx'[c].savepoints = x.savepoints
        /\ \A d \in Ctx \ {c} : ctx'[d] = ctx[d]
    BY <1>2, <1>3, <2>1 DEF TypeOK, Bookkeeping
  <2>3. \A d \in Ctx : Holds(d)' <=> Holds(d)
    BY <1>1, <1>3, <2>2 DEF Holds
  <2>4. \A d \in Ctx : ctx'[d].savepoints = ctx[d].savepoints
    BY <2>2
  <2>5. QED
    BY <1>2, <2>1, <2>3, <2>4, SameView
<1>4. CASE p = Sends(x, Raise)
  <2>1. ctx' = ctx /\ db' = db
    BY <1>1, <1>2, <1>4 DEF Sends, Sent, TypeOK
  <2>2. \A d \in Ctx : Holds(d)' <=> Holds(d)
    BY <1>1, <2>1 DEF Holds
  <2>3. QED
    BY <1>2, <2>1, <2>2, SameView
<1>5. CASE x.depth \in Finished
  BY <1>4, <1>5 DEF Preprocess
<1>6. ASSUME x.depth \notin Finished PROVE Follows
  <2>1. x.depth > 0 /\ x.depth \in Nat /\ Holds(c)
    BY <1>1, <1>2, <1>6 DEF Holds, Bookkeeping
  <2>2. CASE s.op = "begin"
    <3>1. p = Sends([x EXCEPT !.depth = x.depth + 1], Scrub)
      BY <1>6, <2>1, <2>2 DEF Preprocess, OnBegin
    <3>2. QED
      BY <1>3, <2>1, <3>1
  <2>3. CASE s.op = "savepoint"
    BY <1>1, <1>6, <2>1, <2>3, SaveFollows DEF Preprocess
  <2>4. CASE s.op = "commit"
    <3>1. p = OnCommit(x, s)
      BY <1>6, <2>4 DEF Preprocess
    <3>2. CASE x.depth > 1
      <4>1. p = Sends([x EXCEPT !.depth = x.depth - 1], Scrub)
        BY <2>1, <3>1, <3>2 DEF OnCommit
      <4>2. x.depth - 1 \in Nat /\ x.depth - 1 > 0
        BY <2>1, <3>2
      <4>3. QED
        BY <1>3, <2>1, <4>1, <4>2
    <3>3. CASE x.depth = 1
      <4>1. p = Sends(FinishedBooks(Committed), s)
        BY <3>1, <3>3 DEF OnCommit
      <4>2. ctx' = [ctx EXCEPT ![c] = FinishedBooks(Committed)] /\ Sent(s)
        BY <1>1, <4>1 DEF Sends
      <4>3. QED
        BY <1>1, <1>2, <2>1, <2>4, <4>2, EndFollows
    <3>4. QED
      BY <2>1, <3>2, <3>3
  <2>5. CASE s.op = "rollback"
    <3>1. p = OnRollback(x, s)
      BY <1>6, <2>5 DEF Preprocess
    <3>2. CASE p = Sends(FinishedBooks(RolledBack), Rollback(NoName))
      <4>1. Rollback(NoName) \in Stmt /\ Rollback(NoName).op = "rollback"
        BY DEF Stmt, Rollback
      <4>2. /\ ctx' = [ctx EXCEPT ![c] = FinishedBooks(RolledBack)]
            /\ Sent(Rollback(NoName))
        BY <1>1, <3>2 DEF Sends
      <4>3. QED
        BY <1>1, <1>2, <2>1, <4>1, <4>2, EndFollows
    <3>3. QED
      BY <1>4, <3>1, <3>2 DEF OnRollback
  <2>6. CASE s.op = "rollbackTo"
    <3>1. p = OnRollbackTo(x, s)
      BY <1>6, <2>6 DEF Preprocess
    <3>2. QED
      BY <1>1, <1>2, <2>1, <2>6, <3>1, ReturnFollows
  <2>7. CASE s.op = "insert"
    <3>1. p = Sends(x, s)
      BY <1>6, <2>7 DEF Preprocess
    <3>2. ctx' = ctx /\ Sent(s)
      BY <1>1, <1>2, <3>1 DEF Sends, TypeOK
    <3>3. s = Insert(s.arg) /\ s.arg \in Row /\ s \notin {Scrub, Raise}
      BY <2>7 DEF Stmt, Insert, Scrub, Raise, Commit
    <3>4. Answered(Insert(s.arg))
      BY <3>2, <3>3 DEF Sent
    <3>5. QED
      BY <1>1, <1>2, <2>1, <3>2, <3>3, <3>4, WriteFollows
  <2>8. QED
    BY <2>2, <2>3, <2>4, <2>5, <2>6, <2>7, StmtParts
<1>7. QED
  BY <1>5, <1>6

(* __enter__: Open, when BEGIN is accepted.                                 *)
LEMMA EnterFollows ==
  ASSUME Disciplined, PromiseInv, TypeOK', Ownership', NEW c \in Ctx, Enter(c)
  PROVE  Follows
<1> DEFINE s == Begin(NoName)
           b == [FreshBooks EXCEPT !.depth = 1, !.name = NoName]
<1>1. /\ scope[c] = "new" /\ ctx[c] = FreshBooks
      /\ TypeOK /\ db \in Session /\ db' \in Session /\ OneHolder'
  BY DEF Enter, Disciplined, PromiseInv, TypeOK, Ownership, BooksFollowScope
<1>2. s \in Stmt /\ s.op = "begin" /\ s.arg = NoName
  BY DEF Begin, Stmt
<1>3. b.depth = 1 /\ b.savepoints = <<>>
  BY DEF FreshBooks
<1>4. Preprocess(FreshBooks, s) = Sends(b, s)
  BY <1>2 DEF Preprocess, OnBegin, FreshBooks, Finished, Exited, Committed, RolledBack
<1> HIDE DEF s, b
<1>5. /\ ctx' = [ctx EXCEPT ![c] = b]
      /\ \/ Accepted(s) /\ scope' = [scope EXCEPT ![c] = "inside"]
         \/ Refused(s) /\ scope' = [scope EXCEPT ![c] = "refused"]
  BY <1>1, <1>2, <1>4 DEF Enter, Sends, Scrub, Raise, s
<1>6. ctx'[c] = b /\ \A d \in Ctx \ {c} : ctx'[d] = ctx[d] /\ scope'[d] = scope[d]
  BY <1>1, <1>5 DEF TypeOK
<1>7. CASE Accepted(s) /\ scope' = [scope EXCEPT ![c] = "inside"]
  <2>1. ~ db.open /\ ~ db.closed /\ db' = [db EXCEPT !.open = TRUE]
    BY <1>2, <1>7 DEF Accepted, Accepts, Apply
  <2>2. ~ db'.closed /\ db'.durable = db.durable /\ db'.work = db.work
    BY <1>1, <2>1 DEF Session
  <2>3. ~ Active
    BY <2>1 DEF PromiseInv, Ownership, DepthTellsTheTruth, Active
  <2>4. Holds(c)'
    BY <1>1, <1>3, <1>6, <1>7 DEF Holds, TypeOK
  <2>5. Phase' = "active" /\ Points' = <<>>
    BY <1>1, <1>3, <1>6, <2>2, <2>4, ViewActiveNext, NoPoints
  <2>6. PointsInOrder'
    <3>1. \A d \in Ctx : Holds(d)' => d = c
      BY <1>1, <2>4 DEF OneHolder
    <3>2. QED
      BY <1>3, <1>6, <3>1, NoPoints DEF PointsInOrder
  <2>7. Promise!Open
    BY <2>2, <2>3, <2>5, ViewIdle DEF Promise!Open
  <2>8. QED
    BY <2>6, <2>7 DEF Follows, Promise!Next
<1>8. CASE Refused(s) /\ scope' = [scope EXCEPT ![c] = "refused"]
  <2>1. db' = db
    BY <1>2, <1>8 DEF Refused, Refuse
  <2>2. scope'[c] = "refused"
    BY <1>1, <1>8 DEF TypeOK
  <2>3. \A d \in Ctx : /\ Holds(d)' <=> Holds(d)
                       /\ Holds(d) => ctx'[d] = ctx[d]
    BY <1>1, <1>6, <2>2 DEF Holds
  <2>4. QED
    BY <1>1, <2>1, <2>3, SameView
<1>9. QED
  BY <1>5, <1>7, <1>8

(* close(): Drop, if a scope held the connection's transaction.             *)
LEMMA CloseFollows ==
  ASSUME PromiseInv, db' = Shut(db)
  PROVE  Follows
<1>1. db'.closed /\ db'.durable = db.durable /\ db'.work = db.durable
  BY DEF PromiseInv, TypeOK, Session, Shut, Discard, Settled
<1>2. ~ Active'
  BY <1>1 DEF Active
<1>3. QED
  BY <1>1, <1>2, ToIdle

(* __exit__: Drop, unless commit() or rollback() came before.               *)
LEMMA ExitFollows ==
  ASSUME PromiseInv, Ownership', NEW c \in Ctx, Exit(c)
  PROVE  Follows
<1>1. /\ TypeOK /\ OneHolder' /\ scope[c] = "inside"
      /\ scope' = [scope EXCEPT ![c] = "left"]
  BY DEF Exit, PromiseInv, Ownership
<1>2. scope'[c] = "left" /\ \A d \in Ctx \ {c} : scope'[d] = scope[d]
  BY <1>1 DEF TypeOK
<1>3. ~ Holds(c)'
  BY <1>2 DEF Holds
<1>4. CASE ctx[c].depth > 0
  <2>1. Holds(c) /\ \A d \in Ctx \ {c} : ctx'[d] = ctx[d]
    BY <1>1, <1>4 DEF Exit, Holds, TypeOK
  <2>2. ~ Active'
    BY <1>2, <1>3, <2>1, HolderLeaves
  <2>3. db'.durable = db.durable /\ db'.work = db.durable
    BY <1>4, ExitSettles DEF PromiseInv
  <2>4. QED
    BY <2>2, <2>3, ToIdle
<1>5. CASE ~ (ctx[c].depth > 0)
  <2>1. db' = db \/ db' = Shut(db)
    BY <1>5 DEF Exit, CloseOwned
  <2>2. \A d \in Ctx \ {c} : ctx'[d] = ctx[d]
    BY <1>1, <1>5 DEF Exit, TypeOK
  <2>3. \A d \in Ctx : /\ Holds(d)' <=> Holds(d)
                       /\ Holds(d) => ctx'[d] = ctx[d]
    BY <1>2, <1>3, <1>5, <2>2 DEF Holds
  <2>4. CASE db' = db
    BY <1>1, <2>3, <2>4, SameView
  <2>5. QED
    BY <2>1, <2>4, CloseFollows
<1>6. QED
  BY <1>4, <1>5

(* Every step of the contexts is seen as a step of TxnScope, or as none.    *)
LEMMA EveryStepFollows ==
  ASSUME Strict
  PROVE  PromiseInv /\ TypeOK' /\ Ownership' /\ [Next]_vars => Follows
<1> SUFFICES ASSUME PromiseInv, TypeOK', Ownership', [Next]_vars PROVE Follows
  OBVIOUS
<1>1. Disciplined /\ TypeOK /\ Ownership /\ OneHolder'
  BY DEF Strict, PromiseInv, Ownership
<1>2. ASSUME NEW c \in Ctx, Call(c) PROVE Follows
  <2>1. CASE Enter(c)
    BY <1>1, <2>1, EnterFollows
  <2>2. CASE Exit(c)
    BY <2>2, ExitFollows
  <2>3. CASE Close(c)
    BY <2>3, CloseFollows DEF Close
  <2>4. CASE \E s \in Stmt : Execute(c, s) /\ NewName(c, s)
    BY <2>4, ExecuteFollows
  <2>5. ASSUME NEW r \in Row, CursorInsert(c, r) PROVE Follows
    <3>1. Holds(c)
      BY <1>1, <2>5 DEF CursorInsert, Inside, Disciplined, Holds, Ownership,
                        BooksFollowScope, Finished
    <3>2. QED
      BY <1>1, <2>5, <3>1, WriteFollows DEF CursorInsert
  <2>6. ~ \E s \in Stmt : ExecuteRaw(c, s)
    BY <1>1 DEF ExecuteRaw, Disciplined
  <2>7. ~ \E s \in Stmt, t \in Stmt : ExecuteScript(c, s, t)
    BY <1>1 DEF ExecuteScript, Disciplined
  <2>8. QED
    BY <1>1, <1>2, <2>1, <2>2, <2>3, <2>4, <2>5, <2>6, <2>7, CallIsOne
<1>3. ~ ConnectionCommit /\ ~ ConnectionRollback
  BY <1>1 DEF ConnectionCommit, ConnectionRollback, Disciplined
<1>4. ASSUME UNCHANGED vars PROVE Follows
  <2>1. \A d \in Ctx : Holds(d)' <=> Holds(d)
    BY <1>4 DEF Holds, vars
  <2>2. QED
    BY <1>1, <1>4, <2>1, SameView DEF vars
<1>5. QED
  BY <1>2, <1>3, <1>4 DEF Next

(* The contexts keep the promise of TxnScope: for any number of them on one *)
(* connection and any sequence of calls, what the users of the connection   *)
(* see is one scope after the other, each kept whole by its last commit or  *)
(* not at all, with savepoints that bring back exactly the work there was.  *)
THEOREM PromiseKept == ASSUME Strict PROVE Spec => ScopePromise
<1>1. Init => Promise!Init /\ Ownership /\ NothingUnsettled /\ PointsInOrder
  <2> SUFFICES ASSUME Init
               PROVE  Promise!Init /\ Ownership /\ NothingUnsettled /\ PointsInOrder
    OBVIOUS
  <2>1. /\ \A c \in Ctx : ~ Holds(c) /\ ctx[c] = FreshBooks /\ scope[c] = "new"
        /\ db = FreshSession
    BY DEF Init, Holds
  <2>2. ~ Active /\ FreshBooks.name = NoName
    BY <2>1 DEF Active, FreshBooks
  <2>3. QED
    BY <2>1, <2>2, ViewIdle
       DEF FreshSession, Promise!Init, Ownership, OneHolder, DepthTellsTheTruth, SavepointsLive,
           BooksFollowScope, ClosedIsQuiet, NothingUnsettled, PointsInOrder
<1>2. TypeOK /\ Ownership /\ [Next]_vars => Ownership'
  BY OwnershipInductive DEF Strict
<1>3. TypeOK /\ NothingUnsettled /\ [Next]_vars => NothingUnsettled'
  BY UnsettledInductive
<1>4. /\ TypeOK /\ Ownership /\ NothingUnsettled /\ PointsInOrder
      /\ TypeOK' /\ Ownership' /\ [Next]_vars
      => PointsInOrder' /\ [Promise!Next]_(Promise!vars)
  BY EveryStepFollows DEF PromiseInv, Follows
<1>5. QED
  BY <1>1, <1>2, <1>3, <1>4, TypeCorrect, PTL DEF Spec, ScopePromise, Promise!Spec
=============================================================================
