--------------------------- MODULE MysqlTxnProofs ---------------------------
(***************************************************************************)
(* What is proved of MysqlTxn and MysqlScope.                              *)
(*                                                                         *)
(* The first four theorems are for any number of contexts on one           *)
(* connection, any client and any fault; the others for one context on a   *)
(* connection of its own.                                                  *)
(***************************************************************************)
EXTENDS MysqlScope, TxnLemmas

(* What can be handed to execute(): MySQL's DDL takes part in transactions. *)
AnyStmt == Stmt \cup {Ddl}

(* What a statement of each kind carries. *)
LEMMA AnyParts ==
  ASSUME NEW s \in AnyStmt
  PROVE  /\ s.op \in {"begin", "savepoint", "commit", "rollback", "rollbackTo", "insert", "ddl"}
         /\ s.op \in {"begin", "rollback"} => s.arg \in Name \cup {NoName}
         /\ s.op \in {"savepoint", "rollbackTo"} => s.arg \in Name
         /\ s.op = "insert" => s.arg \in Row
         /\ s.op = "ddl" => s = Ddl
  BY StmtParts DEF AnyStmt, Ddl

LEMMA MadeStmts ==
  /\ Commit \in Stmt
  /\ \A n \in Name \cup {NoName} : Begin(n) \in Stmt /\ Rollback(n) \in Stmt
  /\ \A n \in Name : Savepoint(n) \in Stmt /\ RollbackTo(n) \in Stmt
  /\ \A r \in Row : Insert(r) \in Stmt
  /\ Stmt \subseteq AnyStmt /\ Ddl \in AnyStmt
  BY DEF AnyStmt, Stmt, Begin, Rollback, Savepoint, RollbackTo, Insert

(* Preprocessing keeps the books well formed, and sends a statement, or     *)
(* nothing.                                                                 *)
LEMMA PreprocessType ==
  ASSUME NEW x \in Bookkeeping, NEW s \in AnyStmt
  PROVE  /\ Preprocess(x, s).books \in Bookkeeping
         /\ Preprocess(x, s).stmt \in AnyStmt \cup {Scrub, Raise}
<1> USE DEF Bookkeeping, Sends
<1>1. ASSUME NEW o \in {Committed, RolledBack, Exited} PROVE FinishedBooks(o) \in Bookkeeping
  BY DEF FinishedBooks, Finished
<1>2. CASE x.depth \in Finished
  BY <1>2 DEF Preprocess
<1>3. CASE x.depth \notin Finished
  <2>1. x.depth \in Nat
    BY <1>3
  <2>2. CASE s.op = "begin"
    <3>1. Preprocess(x, s) = OnBegin(x, s)
      BY <1>3, <2>2 DEF Preprocess
    <3>2. s.arg \in Name \cup {NoName} /\ Begin(NoName) \in AnyStmt
      BY <2>2, AnyParts, MadeStmts
    <3>3. [x EXCEPT !.depth = 1] \in Bookkeeping
      OBVIOUS
    <3>4. [[x EXCEPT !.depth = 1] EXCEPT !.name = s.arg] \in Bookkeeping
      BY <3>2, <3>3
    <3>5. QED
      BY <3>1, <3>2, <3>4 DEF OnBegin
  <2>3. CASE s.op = "savepoint"
    <3>1. s.arg \in Name
      BY <2>3, AnyParts
    <3>2. Append(x.savepoints, s.arg) \in Seq(Name)
      BY <3>1
    <3>3. QED
      BY <1>3, <2>3, <3>2 DEF Preprocess, OnSavepoint
  <2>4. CASE s.op = "commit"
    <3>1. Preprocess(x, s) = OnCommit(x, s)
      BY <1>3, <2>4 DEF Preprocess
    <3>2. CASE x.depth = 0
      BY <3>1, <3>2 DEF OnCommit
    <3>3. CASE x.depth = 1
      BY <1>1, <3>1, <3>3 DEF OnCommit
    <3>4. CASE x.depth > 1
      BY <2>1, <3>1, <3>4 DEF OnCommit
    <3>5. QED
      BY <2>1, <3>2, <3>3, <3>4
  <2>5. CASE s.op \in {"rollback", "rollbackTo"}
    <3>1. Preprocess(x, s) = OnRollback(x, s)
      BY <1>3, <2>5 DEF Preprocess
    <3>2. CASE x.depth = 0
      BY <3>1, <3>2 DEF OnRollback
    <3>3. CASE x.depth > 0 /\ Occurs(x.savepoints, s.arg)
      <4>1. PopThrough(x.savepoints, s.arg) \in Seq(Name) /\ s.arg \in Name
        BY <3>3, PopThroughPrefix DEF Occurs
      <4>2. RollbackTo(s.arg) \in AnyStmt
        BY <4>1, MadeStmts
      <4>3. QED
        BY <2>1, <3>1, <3>3, <4>1, <4>2 DEF OnRollback
    <3>4. CASE x.depth > 0 /\ ~ Occurs(x.savepoints, s.arg)
      <4>1. Rollback(NoName) \in AnyStmt
        BY MadeStmts
      <4>2. QED
        BY <1>1, <2>1, <3>1, <3>4, <4>1 DEF OnRollback
    <3>5. QED
      BY <2>1, <3>2, <3>3, <3>4
  <2>6. CASE s.op \in {"insert", "ddl"}
    BY <1>3, <2>6 DEF Preprocess
  <2>7. QED
    BY <2>2, <2>3, <2>4, <2>5, <2>6, AnyParts
<1>4. QED
  BY <1>2, <1>3

-----------------------------------------------------------------------------
(* The marks that are left when one is replaced are a list of marks.        *)
LEMMA WithoutType ==
  ASSUME NEW marks \in Seq(Mark), NEW n
  PROVE  Without(marks, n) \in Seq(Mark)
<1>1. CASE \A i \in 1..Len(marks) : marks[i].name # n
  BY <1>1 DEF Without
<1>2. CASE ~ \A i \in 1..Len(marks) : marks[i].name # n
  <2> DEFINE at == CHOOSE i \in 1..Len(marks) : marks[i].name = n
             l == Len(marks)
  <2>1. l \in Nat /\ l - 1 \in Nat
    BY <1>2
  <2>2. \A i \in 1..(l - 1) : marks[IF i < at THEN i ELSE i + 1] \in Mark
    BY <2>1
  <2>3. Without(marks, n) = [i \in 1..(l - 1) |-> marks[IF i < at THEN i ELSE i + 1]]
    BY <1>2 DEF Without
  <2> HIDE DEF at, l
  <2>4. [i \in 1..(l - 1) |-> marks[IF i < at THEN i ELSE i + 1]] \in Seq(Mark)
    BY <2>1, <2>2, IsASeq
  <2>5. QED
    BY <2>3, <2>4
<1>3. QED
  BY <1>1, <1>2

(* Every statement the server accepts leaves a well-formed connection.      *)
LEMMA ApplyType ==
  ASSUME NEW d \in Session, NEW s \in AnyStmt, Accepts(d, s)
  PROVE  Apply(d, s) \in Session
<1>1. d.marks \in Seq(Mark) /\ d.work \in SUBSET Row
  BY DEF Session
<1>2. Settled(d, d.work) \in Session
  BY <1>1, SettledType
<1>3. CASE s.op = "begin"
  <2>1. \A e \in Session : [e EXCEPT !.open = TRUE] \in Session
    BY DEF Session
  <2>2. QED
    BY <1>2, <1>3, <2>1 DEF Apply
<1>4. CASE s.op = "savepoint"
  <2> DEFINE m == [name |-> s.arg, rows |-> d.work]
             marks == Replaced(d.marks, m)
  <2>1. m \in Mark
    BY <1>1, <1>4, AnyParts DEF Mark
  <2>2. marks \in Seq(Mark)
    <3> HIDE DEF m
    <3>1. Without(d.marks, m.name) \in Seq(Mark)
      BY <1>1, WithoutType
    <3>2. QED
      BY <2>1, <3>1 DEF Replaced
  <2>3. Apply(d, s) = [d EXCEPT !.open = TRUE, !.marks = marks]
    BY <1>4 DEF Apply
  <2> HIDE DEF marks
  <2>4. [d EXCEPT !.open = TRUE, !.marks = marks] \in Session
    BY <2>2 DEF Session
  <2>5. QED
    BY <2>3, <2>4
<1>5. CASE s.op = "insert"
  <2>1. s.arg \in Row
    BY <1>5, AnyParts
  <2>2. [d EXCEPT !.open = TRUE, !.work = @ \cup {s.arg}] \in Session
    BY <2>1 DEF Session
  <2>3. QED
    BY <1>5, <2>2 DEF Apply
<1>6. CASE s.op = "rollbackTo"
  <2>1. Occurs(MarkNames(d), s.arg)
    BY <1>6 DEF Accepts
  <2>2. LastOf(MarkNames(d), s.arg) \in 1..Len(d.marks)
    BY <2>1, MarkNamesType, LastOfOccurs
  <2>3. QED
    BY <1>6, <2>2, ReturnToType DEF Apply
<1>7. CASE s.op \in {"commit", "ddl"}
  BY <1>2, <1>7 DEF Apply
<1>8. CASE s.op = "rollback"
  BY <1>8, DiscardShutType DEF Apply
<1>9. QED
  BY <1>3, <1>4, <1>5, <1>6, <1>7, <1>8, AnyParts

(* What an answer can be: a statement that was done, one that was not, or   *)
(* a transaction the server gave up.                                        *)
LEMMA AnswerIs ==
  ASSUME NEW s, Answered(s)
  PROVE  \/ Accepts(db, s) /\ db' = Apply(db, s)
         \/ db' = Refuse(db, s)
         \/ db' = Discard(db)
  BY DEF Answered, Accepted, Refused

(* Every answer leaves a well-formed connection, that to two statements in  *)
(* one call included.                                                       *)
LEMMA AnsweredType ==
  ASSUME db \in Session, NEW s \in AnyStmt, Answered(s)
  PROVE  db' \in Session
<1>1. Refuse(db, s) \in Session
  BY DEF Refuse, Session
<1>2. QED
  BY <1>1, AnswerIs, ApplyType, DiscardShutType

LEMMA TogetherType ==
  ASSUME db \in Session, NEW s \in AnyStmt, NEW t \in AnyStmt, AnsweredTogether(s, t)
  PROVE  db' \in Session
<1>1. CASE db' = db
  BY <1>1
<1>2. CASE Accepts(db, s) /\ Accepts(Apply(db, s), t) /\ db' = Apply(Apply(db, s), t)
  <2>1. Apply(db, s) \in Session
    BY <1>2, ApplyType
  <2>2. QED
    BY <1>2, <2>1, ApplyType
<1>3. QED
  BY <1>1, <1>2 DEF AnsweredTogether

-----------------------------------------------------------------------------
(* The API gives a live savepoint's name to no other, unless the client     *)
(* does.                                                                    *)
NewName(c, s) ==
  s.op = "savepoint" /\ Occurs(ctx[c].savepoints, s.arg) => "reuse" \in Uses

(* The operations of the class that take one statement are execute() of it. *)
LEMMA CallIsOne ==
  ASSUME TypeOK, NEW c \in Ctx, Call(c)
  PROVE  \/ Enter(c) \/ Exit(c) \/ Close(c) \/ ExecuteDdl(c)
         \/ \E s \in Stmt : Execute(c, s) /\ NewName(c, s)
         \/ \E r \in Row : CursorInsert(c, r)
         \/ \E s \in AnyStmt : ExecuteRaw(c, s)
         \/ \E s \in Stmt, t \in Stmt : ExecuteScript(c, s, t)
<1> USE DEF NewName, Begin, Rollback, RollbackTo, Commit, Insert
<1>1. CASE CommitScope(c)
  BY <1>1, MadeStmts DEF CommitScope
<1>2. CASE \E n \in Name : CreateSavepoint(c, n) \/ RollbackSavepoint(c, n)
  BY <1>2, MadeStmts DEF CreateSavepoint, RollbackSavepoint, Savepoint
<1>3. CASE \E n \in Name \cup {NoName} : BeginTransaction(c, n) \/ RollbackScope(c, n)
  BY <1>3, MadeStmts DEF BeginTransaction, RollbackScope
<1>4. CASE \E r \in Row : ExecuteInsert(c, r)
  BY <1>4, MadeStmts DEF ExecuteInsert
<1>5. CASE RollbackLastSavepoint(c)
  <2> DEFINE held == ctx[c].savepoints
  <2>1. held \in Seq(Name)
    BY DEF TypeOK, Bookkeeping
  <2>2. held # <<>> => held[Len(held)] \in Name
    BY <2>1
  <2>3. QED
    BY <1>5, <2>2, MadeStmts DEF RollbackLastSavepoint
<1>6. QED
  BY <1>1, <1>2, <1>3, <1>4, <1>5 DEF Call, AnyStmt

(* What a call does to the connection: nothing, one answer, the answer to   *)
(* two statements at once, or the end of its transaction.                   *)
LEMMA CallAnswers ==
  ASSUME TypeOK, NEW c \in Ctx, Call(c)
  PROVE  \/ db' = db \/ db' = Shut(db)
         \/ \E s \in AnyStmt : Answered(s)
         \/ \E s, t \in AnyStmt : AnsweredTogether(s, t)
         \/ Exit(c)
<1>1. ctx[c] \in Bookkeeping
  BY DEF TypeOK
<1>2. ASSUME NEW s \in AnyStmt, Execute(c, s)
      PROVE  db' = db \/ \E t \in AnyStmt : Answered(t)
  <2> DEFINE p == Preprocess(ctx[c], s)
  <2>1. p.stmt \in AnyStmt \cup {Scrub, Raise} /\ Sent(p.stmt)
    BY <1>1, <1>2, PreprocessType DEF Execute
  <2> HIDE DEF p
  <2>2. QED
    BY <2>1 DEF Sent
<1>3. CASE Enter(c)
  <2> DEFINE p == Preprocess(ctx[c], Begin(NoName))
  <2>1. p.stmt \in AnyStmt \cup {Scrub, Raise}
    BY <1>1, MadeStmts, PreprocessType
  <2>2. db' = db \/ (p.stmt.op = "begin" /\ Answered(p.stmt))
    BY <1>3 DEF Enter, Answered
  <2> HIDE DEF p
  <2>3. QED
    BY <2>1, <2>2 DEF Scrub, Raise
<1>4. ASSUME NEW r \in Row, CursorInsert(c, r) PROVE \E s \in AnyStmt : Answered(s)
  BY <1>4, MadeStmts DEF CursorInsert
<1>5. ASSUME NEW s \in AnyStmt, ExecuteRaw(c, s) PROVE \E t \in AnyStmt : Answered(t)
  BY <1>5 DEF ExecuteRaw
<1>6. ASSUME NEW s \in Stmt, NEW t \in Stmt, ExecuteScript(c, s, t)
      PROVE  db' = db \/ Answered(s) \/ Answered(t) \/ AnsweredTogether(s, t)
  BY <1>6 DEF ExecuteScript
<1>7. ExecuteDdl(c) => Execute(c, Ddl)
  BY DEF ExecuteDdl
<1>8. QED
  BY <1>2, <1>3, <1>4, <1>5, <1>6, <1>7, CallIsOne, MadeStmts DEF Close

(* What a call does to the books: it keeps them, or Preprocess or __exit__  *)
(* writes them.                                                             *)
LEMMA CallBooks ==
  ASSUME TypeOK, NEW c \in Ctx, Call(c)
  PROVE  \/ ctx' = ctx
         \/ \E s \in AnyStmt : ctx' = [ctx EXCEPT ![c] = Preprocess(ctx[c], s).books]
         \/ \E s, t \in AnyStmt :
              /\ Preprocess(ctx[c], s).stmt # Raise
              /\ ctx' = [ctx EXCEPT ![c] = Preprocess(Preprocess(ctx[c], s).books, t).books]
         \/ ctx[c].depth > 0 /\ ctx' = [ctx EXCEPT ![c] = FinishedBooks(Exited)]
         \/ ~ (ctx[c].depth > 0) /\ ctx' = [ctx EXCEPT ![c].depth = Exited]
<1>1. CASE Enter(c)
  BY <1>1, MadeStmts DEF Enter
<1>2. CASE Exit(c)
  BY <1>2 DEF Exit
<1>3. ASSUME NEW s \in Stmt, NEW t \in Stmt, ExecuteScript(c, s, t)
      PROVE  \/ ctx' = [ctx EXCEPT ![c] = Preprocess(ctx[c], s).books]
             \/ /\ Preprocess(ctx[c], s).stmt # Raise
                /\ ctx' = [ctx EXCEPT ![c] = Preprocess(Preprocess(ctx[c], s).books, t).books]
  BY <1>3 DEF ExecuteScript
<1>4. \A s : Execute(c, s) => ctx' = [ctx EXCEPT ![c] = Preprocess(ctx[c], s).books]
  BY DEF Execute
<1>5. QED
  BY <1>1, <1>2, <1>3, <1>4, CallIsOne, MadeStmts DEF Close, ExecuteDdl, CursorInsert, ExecuteRaw

(* __exit__ rolls back, then closes what it owns.                           *)
LEMMA ExitType ==
  ASSUME db \in Session, NEW c \in Ctx, Exit(c)
  PROVE  db' \in Session
<1>1. \A d \in Session : CloseOwned(c, d) \in Session
  BY DiscardShutType DEF CloseOwned
<1>2. \E d \in {db, Discard(db)} : db' = CloseOwned(c, d)
  BY DEF Exit
<1>3. QED
  BY <1>1, <1>2, DiscardShutType

(* Whatever clients do and whatever the server answers, the books and the   *)
(* connection keep their shape: depth is a count or one of the sentinels.   *)
THEOREM TypeCorrect == Spec => []TypeOK
<1>1. Init => TypeOK
  <2>1. FreshBooks \in Bookkeeping
    BY DEF FreshBooks, Bookkeeping
  <2>2. FreshSession \in Session
    BY DEF FreshSession, Session
  <2>3. QED
    BY <2>1, <2>2 DEF Init, TypeOK
<1>2. TypeOK /\ [Next]_vars => TypeOK'
  <2> SUFFICES ASSUME TypeOK, [Next]_vars PROVE TypeOK'
    OBVIOUS
  <2>1. ASSUME NEW c \in Ctx, Call(c) PROVE TypeOK'
    <3>1. ctx[c] \in Bookkeeping /\ db \in Session
      BY DEF TypeOK
    <3>2. db' \in Session
      BY <2>1, <3>1, CallAnswers, AnsweredType, TogetherType, ExitType, DiscardShutType
    <3>3. \E b \in Bookkeeping : ctx' = [ctx EXCEPT ![c] = b]
      <4>1. ctx = [ctx EXCEPT ![c] = ctx[c]]
        BY DEF TypeOK
      <4>2. FinishedBooks(Exited) \in Bookkeeping /\ [ctx[c] EXCEPT !.depth = Exited] \in Bookkeeping
        BY <3>1 DEF FinishedBooks, Bookkeeping, Finished
      <4>3. \A s, t \in AnyStmt :
              /\ Preprocess(ctx[c], s).books \in Bookkeeping
              /\ Preprocess(Preprocess(ctx[c], s).books, t).books \in Bookkeeping
        BY <3>1, PreprocessType
      <4>4. QED
        BY <2>1, <3>1, <4>1, <4>2, <4>3, CallBooks
    <3>4. \E o \in {"inside", "refused", "left", scope[c]} : scope' = [scope EXCEPT ![c] = o]
      <4>1. scope = [scope EXCEPT ![c] = scope[c]]
        BY DEF TypeOK
      <4>2. QED
        BY <2>1, <4>1, CallIsOne
           DEF Enter, Exit, Close, Execute, ExecuteDdl, CursorInsert, ExecuteRaw, ExecuteScript
    <3>5. QED
      BY <3>2, <3>3, <3>4 DEF TypeOK
  <2>2. CASE ConnectionCommit
    BY <2>2, SettledType DEF ConnectionCommit, TypeOK, Session
  <2>3. CASE ConnectionRollback
    BY <2>3, DiscardShutType DEF ConnectionRollback, TypeOK
  <2>4. CASE UNCHANGED vars
    BY <2>4 DEF vars, TypeOK
  <2>5. QED
    BY <2>1, <2>2, <2>3, <2>4 DEF Next
<1>3. QED
  BY <1>1, <1>2, PTL DEF Spec

-----------------------------------------------------------------------------
(* A finished context. *)

(* The books of a finished context refuse every statement and stay as they  *)
(* are.                                                                     *)
LEMMA FinishedRaises ==
  ASSUME NEW x, x.depth \in Finished, NEW s
  PROVE  Preprocess(x, s).books = x /\ Preprocess(x, s).stmt = Raise
  BY DEF Preprocess, Sends

(* However many contexts there are and whatever is called on them, in the   *)
(* block or outside of it: one that was committed, rolled back or left      *)
(* never gets another transaction.                                          *)
THEOREM FinishedStays == Spec => FinishedForGood
<1> DEFINE Stays(d) == ctx[d].depth \in Finished =>
                         ctx'[d] \in {ctx[d], [ctx[d] EXCEPT !.depth = Exited]}
<1>1. ASSUME TypeOK, NEW c \in Ctx, Call(c), NEW d \in Ctx PROVE Stays(d)
  <2>1. ctx[c].depth \in Finished => ~ (ctx[c].depth > 0)
    BY DEF Finished, Exited, Committed, RolledBack
  <2>2. ASSUME NEW s \in AnyStmt, ctx' = [ctx EXCEPT ![c] = Preprocess(ctx[c], s).books]
        PROVE  Stays(d)
    BY <1>1, <2>2, FinishedRaises DEF TypeOK
  <2>3. QED
    BY <1>1, <2>1, <2>2, CallBooks, FinishedRaises DEF TypeOK
<1>2. ASSUME NEW d \in Ctx, ctx' = ctx PROVE Stays(d)
  BY <1>2
<1>3. TypeOK /\ [Next]_vars =>
        [\A c \in Ctx : ctx[c].depth \in Finished =>
           ctx'[c] \in {ctx[c], [ctx[c] EXCEPT !.depth = Exited]}]_vars
  BY <1>1, <1>2 DEF Next, ConnectionCommit, ConnectionRollback, vars
<1>4. QED
  BY <1>3, TypeCorrect, PTL DEF Spec, FinishedForGood

-----------------------------------------------------------------------------
(* Leaving a scope, whatever clients and the server did inside it. *)

(* A connection without a transaction has nothing that is not durable, and  *)
(* a closed one has no transaction.                                         *)
Sound(d) ==
  /\ ~ d.open => d.work = d.durable /\ d.marks = <<>>
  /\ d.closed => ~ d.open

NothingUnsettled == Sound(db)

(* No statement that is accepted leaves unsettled work without a transaction.*)
LEMMA ApplySound ==
  ASSUME NEW d \in Session, Sound(d), NEW s \in AnyStmt, Accepts(d, s)
  PROVE  Sound(Apply(d, s))
<1>1. ~ d.closed
  BY DEF Accepts
<1>2. CASE s.op = "begin"
  BY <1>1, <1>2 DEF Apply, Settled, Session, Sound
<1>3. CASE s.op \in {"savepoint", "insert"}
  BY <1>1, <1>3 DEF Apply, Session, Sound
<1>4. CASE s.op = "rollbackTo"
  <2>1. Occurs(MarkNames(d), s.arg)
    BY <1>4 DEF Accepts
  <2>2. d.marks # <<>>
    BY <2>1 DEF Occurs, MarkNames
  <2> DEFINE e == Apply(d, s)
  <2>3. e = ReturnTo(d, LastOf(MarkNames(d), s.arg))
    BY <1>4 DEF Apply
  <2>4. e.open = d.open /\ e.closed = d.closed
    BY <2>3 DEF ReturnTo, Session
  <2>5. QED
    BY <1>1, <2>2, <2>4 DEF Sound
<1>5. CASE s.op \in {"commit", "ddl", "rollback"}
  BY <1>1, <1>5 DEF Apply, Discard, Settled, Session, Sound
<1>6. QED
  BY <1>2, <1>3, <1>4, <1>5, AnyParts

(* Nor does an answer, or the answer to two statements.                     *)
LEMMA AnsweredSound ==
  ASSUME db \in Session, NothingUnsettled, NEW s \in AnyStmt, Answered(s)
  PROVE  NothingUnsettled'
<1>1. CASE db' = Discard(db)
  BY <1>1 DEF Discard, Settled, Session, NothingUnsettled, Sound
<1>2. CASE db' = Refuse(db, s)
  BY <1>2 DEF Refuse, Session, NothingUnsettled, Sound
<1>3. CASE Accepts(db, s) /\ db' = Apply(db, s)
  BY <1>3, ApplySound DEF NothingUnsettled
<1>4. QED
  BY <1>1, <1>2, <1>3, AnswerIs

LEMMA TogetherSound ==
  ASSUME db \in Session, NothingUnsettled, NEW s \in AnyStmt, NEW t \in AnyStmt,
         AnsweredTogether(s, t)
  PROVE  NothingUnsettled'
<1>1. CASE db' = db
  BY <1>1 DEF NothingUnsettled
<1>2. CASE Accepts(db, s) /\ Accepts(Apply(db, s), t) /\ db' = Apply(Apply(db, s), t)
  <2>1. Apply(db, s) \in Session /\ Sound(Apply(db, s))
    BY <1>2, ApplyType, ApplySound DEF NothingUnsettled
  <2>2. Sound(Apply(Apply(db, s), t))
    BY <1>2, <2>1, ApplySound
  <2>3. QED
    BY <1>2, <2>2 DEF NothingUnsettled
<1>3. QED
  BY <1>1, <1>2 DEF AnsweredTogether

(* Leaving a scope with a BEGIN to finish discards its work.                *)
LEMMA ExitSettles ==
  ASSUME db \in Session, NothingUnsettled, NEW c \in Ctx, Exit(c)
  PROVE  /\ NothingUnsettled'
         /\ ctx[c].depth > 0 =>
              db'.durable = db.durable /\ db'.work = db.durable /\ ~ db'.open
<1> DEFINE d == IF Accepts(db, Rollback(NoName)) THEN Discard(db) ELSE db
<1>1. /\ d \in Session /\ d.durable = db.durable /\ d.work = db.durable
      /\ ~ d.open /\ d.marks = <<>>
  <2>1. Accepts(db, Rollback(NoName)) <=> ~ db.closed
    BY DEF Accepts, Rollback
  <2>2. CASE ~ db.closed
    <3>1. d = Discard(db)
      BY <2>1, <2>2
    <3>2. QED
      BY <3>1, DiscardShutType DEF Discard, Settled, Session
  <2>3. CASE db.closed
    BY <2>1, <2>3 DEF NothingUnsettled, Sound
  <2>4. QED
    BY <2>2, <2>3
<1>2. \A e \in Session :
        /\ Shut(e).durable = e.durable /\ Shut(e).work = e.durable
        /\ ~ Shut(e).open /\ Shut(e).marks = <<>>
  BY DEF Shut, Discard, Settled, Session
<1> HIDE DEF d
<1>3. CASE ctx[c].depth > 0
  <2>1. db' = CloseOwned(c, d)
    BY <1>3 DEF Exit, d
  <2>2. QED
    BY <1>1, <1>2, <2>1 DEF CloseOwned, NothingUnsettled, Sound
<1>4. CASE ~ (ctx[c].depth > 0)
  <2>1. db' = CloseOwned(c, db)
    BY <1>4 DEF Exit
  <2>2. QED
    BY <1>2, <1>4, <2>1 DEF CloseOwned, NothingUnsettled, Sound
<1>5. QED
  BY <1>3, <1>4

(* NothingUnsettled is inductive for every client and every fault.          *)
LEMMA UnsettledInductive ==
  TypeOK /\ NothingUnsettled /\ [Next]_vars => NothingUnsettled'
<1> SUFFICES ASSUME TypeOK, NothingUnsettled, [Next]_vars PROVE NothingUnsettled'
  OBVIOUS
<1>1. db \in Session
  BY DEF TypeOK
<1>2. CASE db' = db
  BY <1>2 DEF NothingUnsettled
<1>3. CASE db' = Shut(db)
  BY <1>1, <1>3 DEF Shut, Discard, Settled, Session, NothingUnsettled, Sound
<1>4. ASSUME NEW c \in Ctx, Call(c) PROVE NothingUnsettled'
  BY <1>1, <1>2, <1>3, <1>4, CallAnswers, AnsweredSound, TogetherSound, ExitSettles
<1>5. CASE ConnectionCommit \/ ConnectionRollback
  BY <1>1, <1>5
     DEF ConnectionCommit, ConnectionRollback, Discard, Settled, Session, NothingUnsettled, Sound
<1>6. QED
  BY <1>2, <1>4, <1>5 DEF Next, vars

(* Whatever clients do inside a scope, through the context, its cursors or  *)
(* the connection itself, and whatever the server refuses: __exit__ with a  *)
(* BEGIN to finish keeps none of it and leaves no transaction behind.       *)
THEOREM ExitAlwaysRollsBack == Spec => ExitRollsBack
<1>1. Init => NothingUnsettled
  BY DEF Init, FreshSession, NothingUnsettled, Sound
<1>2. TypeOK /\ NothingUnsettled /\ [Next]_vars => NothingUnsettled'
  BY UnsettledInductive
<1>3. TypeOK /\ NothingUnsettled /\ [Next]_vars =>
        [\A c \in Ctx : Exit(c) /\ ctx[c].depth > 0 =>
           db'.durable = db.durable /\ db'.work = db.durable /\ ~ db'.open]_vars
  BY ExitSettles DEF TypeOK
<1>4. QED
  BY <1>1, <1>2, <1>3, TypeCorrect, PTL DEF Spec, ExitRollsBack

-----------------------------------------------------------------------------
(* What makes work durable. *)

(* The statements that commit what was done before them.                    *)
Commits(s) == s.op \in {"commit", "begin", "ddl"}

(* No other statement makes anything durable.                               *)
LEMMA ApplyDurable ==
  ASSUME NEW d \in Session, NEW s \in AnyStmt, ~ Commits(s)
  PROVE  Apply(d, s).durable = d.durable
<1>1. CASE s.op \in {"savepoint", "insert"}
  BY <1>1 DEF Apply, Session
<1>2. CASE s.op = "rollbackTo"
  BY <1>2 DEF Apply, ReturnTo, Session
<1>3. CASE s.op = "rollback"
  BY <1>3 DEF Apply, Discard, Settled, Session
<1>4. QED
  BY <1>1, <1>2, <1>3, AnyParts DEF Commits

LEMMA AnsweredDurable ==
  ASSUME db \in Session, NEW s \in AnyStmt, Answered(s), db'.durable # db.durable
  PROVE  Commits(s) /\ Accepts(db, s)
<1>1. CASE db' = Discard(db)
  BY <1>1 DEF Discard, Settled, Session
<1>2. CASE db' = Refuse(db, s)
  BY <1>2 DEF Refuse, Session
<1>3. QED
  BY <1>1, <1>2, AnswerIs, ApplyDurable

LEMMA TogetherDurable ==
  ASSUME db \in Session, NEW s \in AnyStmt, NEW t \in AnyStmt,
         AnsweredTogether(s, t), db'.durable # db.durable
  PROVE  Commits(s) \/ Commits(t)
<1>1. Accepts(db, s) /\ db' = Apply(Apply(db, s), t)
  BY DEF AnsweredTogether
<1>2. Apply(db, s) \in Session
  BY <1>1, ApplyType
<1>3. QED
  BY <1>1, <1>2, ApplyDurable

(* A BEGIN or COMMIT that is neither scrubbed nor refused by the books is   *)
(* the first, or ends the context.                                          *)
LEMMA GoesThrough ==
  ASSUME NEW x \in Bookkeeping, NEW s \in Stmt, Commits(s),
         Preprocess(x, s).stmt \notin {Scrub, Raise}
  PROVE  \/ x.depth = 1 /\ Preprocess(x, s).books = FinishedBooks(Committed)
         \/ x.depth = 0 /\ Preprocess(x, s).books.depth = 1
<1>1. x.depth \notin Finished
  BY DEF Preprocess, Sends
<1>2. x.depth \in Nat /\ s.op \in {"begin", "commit"}
  BY <1>1, StmtParts DEF Bookkeeping, Commits
<1>3. CASE s.op = "commit"
  <2>1. Preprocess(x, s) = OnCommit(x, s)
    BY <1>1, <1>3 DEF Preprocess
  <2>2. x.depth = 1
    BY <1>2, <2>1 DEF OnCommit, Sends
  <2>3. QED
    BY <2>1, <2>2 DEF OnCommit, Sends
<1>4. CASE s.op = "begin"
  <2>1. Preprocess(x, s) = OnBegin(x, s)
    BY <1>1, <1>4 DEF Preprocess
  <2>2. ~ (x.depth > 0)
    BY <2>1 DEF OnBegin, Sends
  <2>3. QED
    BY <1>2, <2>1, <2>2 DEF OnBegin, Sends, Bookkeeping
<1>5. QED
  BY <1>2, <1>3, <1>4

(* No statement takes a context back to where it has not begun.             *)
LEMMA NeverUnbegun ==
  ASSUME NEW x \in Bookkeeping, NEW s \in Stmt, x.depth # 0
  PROVE  Preprocess(x, s).books.depth # 0
<1> USE DEF Sends, FinishedBooks, Committed, RolledBack, Exited, Finished, Bookkeeping
<1>1. CASE x.depth \in Finished
  BY <1>1 DEF Preprocess
<1>2. CASE x.depth \notin Finished
  <2>1. x.depth \in Nat /\ x.depth > 0
    BY <1>2
  <2>2. CASE s.op = "begin"
    BY <1>2, <2>1, <2>2 DEF Preprocess, OnBegin
  <2>3. CASE s.op = "savepoint"
    BY <1>2, <2>3 DEF Preprocess, OnSavepoint
  <2>4. CASE s.op = "commit"
    BY <1>2, <2>1, <2>4 DEF Preprocess, OnCommit
  <2>5. CASE s.op \in {"rollback", "rollbackTo"}
    BY <1>2, <2>1, <2>5 DEF Preprocess, OnRollback
  <2>6. CASE s.op = "insert"
    BY <1>2, <2>6 DEF Preprocess
  <2>7. QED
    BY <2>2, <2>3, <2>4, <2>5, <2>6, StmtParts
<1>3. QED
  BY <1>1, <1>2

(* A script makes work durable only when it begins or ends its context.     *)
LEMMA ScriptDurable ==
  ASSUME TypeOK, NEW c \in Ctx, NEW s \in Stmt, NEW t \in Stmt,
         ExecuteScript(c, s, t), db'.durable # db.durable
  PROVE  \/ ctx[c].depth > 0 /\ ctx'[c].depth = Committed
         \/ ctx[c].depth = 0 /\ ctx'[c].depth # 0
<1> DEFINE x == ctx[c]
           p == Preprocess(x, s)
           q == Preprocess(p.books, t)
<1>1. /\ x \in Bookkeeping /\ p.books \in Bookkeeping /\ db \in Session
      /\ s \in AnyStmt /\ t \in AnyStmt
  BY MadeStmts, PreprocessType DEF TypeOK
<1>2. /\ p.stmt # Raise /\ q.stmt # Raise /\ ctx' = [ctx EXCEPT ![c] = q.books]
      /\ \/ q.stmt = Scrub /\ p.stmt \notin {Scrub, Raise} /\ Answered(s)
         \/ q.stmt \notin {Scrub, Raise} /\ p.stmt = Scrub /\ Answered(t)
         \/ /\ q.stmt \notin {Scrub, Raise} /\ p.stmt \notin {Scrub, Raise}
            /\ AnsweredTogether(s, t)
  <2>1. /\ p.stmt # Raise /\ ctx' = [ctx EXCEPT ![c] = q.books]
        /\ CASE q.stmt = Raise -> UNCHANGED db
             [] q.stmt = Scrub /\ p.stmt = Scrub -> UNCHANGED db
             [] q.stmt = Scrub /\ p.stmt # Scrub -> Answered(s)
             [] q.stmt \notin {Raise, Scrub} /\ p.stmt = Scrub -> Answered(t)
             [] q.stmt \notin {Raise, Scrub} /\ p.stmt # Scrub -> AnsweredTogether(s, t)
    BY DEF ExecuteScript
  <2>2. Scrub # Raise
    BY DEF Scrub, Raise
  <2> HIDE DEF p, q
  <2>3. QED
    BY <2>1, <2>2
<1>3. ctx'[c] = q.books
  BY <1>2 DEF TypeOK
<1>4. x.depth \in Nat
  BY <1>1, <1>2 DEF Preprocess, Sends, Bookkeeping
<1>5. x.depth # 0 => p.books.depth # 0
  BY <1>1, NeverUnbegun
<1>6. p.books.depth # 0 => q.books.depth # 0
  BY <1>1, NeverUnbegun
<1>7. CASE Commits(s) /\ p.stmt # Scrub
  <2>1. \/ x.depth = 1 /\ p.books = FinishedBooks(Committed)
        \/ x.depth = 0 /\ p.books.depth = 1
    BY <1>1, <1>2, <1>7, GoesThrough
  <2>2. p.books = FinishedBooks(Committed) => q.stmt = Raise
    <3>1. FinishedBooks(Committed).depth \in Finished
      BY DEF FinishedBooks, Finished
    <3>2. QED
      BY <3>1, FinishedRaises
  <2>3. QED
    BY <1>2, <1>3, <1>6, <2>1, <2>2
<1>8. CASE Commits(t) /\ q.stmt # Scrub
  <2>1. \/ p.books.depth = 1 /\ q.books = FinishedBooks(Committed)
        \/ p.books.depth = 0 /\ q.books.depth = 1
    BY <1>1, <1>2, <1>8, GoesThrough
  <2>2. q.books.depth # 0
    BY <1>6, <2>1
  <2>3. x.depth > 0 => q.books.depth = Committed
    BY <1>5, <2>1 DEF FinishedBooks
  <2>4. QED
    BY <1>3, <1>4, <2>2, <2>3
<1>9. QED
  BY <1>1, <1>2, <1>7, <1>8, AnsweredDurable, TogetherDurable

(* Whatever clients do and the server refuses, and however many contexts    *)
(* share the connection: nothing becomes durable except when a context      *)
(* begins or commits, by DDL, or by a commit that goes past the contexts.   *)
THEOREM CommitOrDdlOnly == Spec => DurableOnlyByCommitOrDdl
<1> DEFINE Kept == db'.durable # db.durable =>
                     \/ \E c \in Ctx : ctx[c].depth > 0 /\ ctx'[c].depth = Committed
                     \/ \E c \in Ctx : ctx[c].depth = 0 /\ ctx'[c].depth # 0
                     \/ \E c \in Ctx : ExecuteDdl(c)
                     \/ \E c \in Ctx, s \in {Commit, Begin(NoName), Ddl} : ExecuteRaw(c, s)
                     \/ ConnectionCommit
<1>1. ASSUME TypeOK, NEW c \in Ctx, Call(c) PROVE Kept
  <2> SUFFICES ASSUME db'.durable # db.durable
               PROVE  \/ ctx[c].depth > 0 /\ ctx'[c].depth = Committed
                      \/ ctx[c].depth = 0 /\ ctx'[c].depth # 0
                      \/ ExecuteDdl(c)
                      \/ \E s \in {Commit, Begin(NoName), Ddl} : ExecuteRaw(c, s)
    OBVIOUS
  <2>1. db \in Session /\ ctx[c] \in Bookkeeping
    BY <1>1 DEF TypeOK
  <2>2. \A d \in Session : Shut(d).durable = d.durable /\ Discard(d).durable = d.durable
    BY DEF Shut, Discard, Settled, Session
  <2>3. ASSUME NEW s \in Stmt, Preprocess(ctx[c], s).stmt \notin {Scrub, Raise},
               Answered(Preprocess(ctx[c], s).stmt),
               ctx' = [ctx EXCEPT ![c] = Preprocess(ctx[c], s).books]
        PROVE  \/ ctx[c].depth > 0 /\ ctx'[c].depth = Committed
               \/ ctx[c].depth = 0 /\ ctx'[c].depth # 0
    <3> DEFINE p == Preprocess(ctx[c], s)
    <3>1. p.stmt \in AnyStmt /\ Commits(p.stmt)
      BY <2>1, <2>3, MadeStmts, PreprocessType, AnsweredDurable
    <3>2. Commits(s)
      <4>1. ctx[c].depth \notin Finished
        BY <2>3 DEF Preprocess, Sends
      <4>2. ctx[c].depth \in Nat
        BY <2>1, <4>1 DEF Bookkeeping
      <4>3. CASE s.op = "savepoint"
        BY <3>1, <4>1, <4>3 DEF Preprocess, OnSavepoint, Sends, Commits
      <4>4. CASE s.op \in {"rollback", "rollbackTo"}
        BY <2>3, <3>1, <4>1, <4>2, <4>4
           DEF Preprocess, OnRollback, Sends, Commits, Rollback, RollbackTo, Raise
      <4>5. CASE s.op = "insert"
        BY <3>1, <4>1, <4>5 DEF Preprocess, Sends, Commits
      <4>6. QED
        BY <4>3, <4>4, <4>5, StmtParts DEF Commits
    <3>3. \/ ctx[c].depth = 1 /\ p.books = FinishedBooks(Committed)
          \/ ctx[c].depth = 0 /\ p.books.depth = 1
      BY <2>1, <2>3, <3>2, GoesThrough
    <3>4. ctx'[c] = p.books
      BY <1>1, <2>3 DEF TypeOK
    <3> HIDE DEF p
    <3>5. QED
      BY <3>3, <3>4 DEF FinishedBooks
  <2>4. CASE Enter(c)
    <3>1. Begin(NoName) \in Stmt
      BY MadeStmts
    <3>2. Preprocess(ctx[c], Begin(NoName)).stmt.op = "begin"
          /\ Answered(Preprocess(ctx[c], Begin(NoName)).stmt)
      BY <2>4 DEF Enter, Answered
    <3>3. Preprocess(ctx[c], Begin(NoName)).stmt \notin {Scrub, Raise}
      BY <3>2 DEF Scrub, Raise
    <3>4. QED
      BY <2>3, <2>4, <3>1, <3>2, <3>3 DEF Enter
  <2>5. CASE Exit(c)
    <3>1. db' \in {CloseOwned(c, db), CloseOwned(c, Discard(db))}
      BY <2>5 DEF Exit
    <3>2. QED
      BY <2>1, <2>2, <3>1, DiscardShutType DEF CloseOwned
  <2>6. CASE Close(c)
    BY <2>1, <2>2, <2>6 DEF Close
  <2>7. ASSUME NEW s \in Stmt, Execute(c, s)
        PROVE  \/ ctx[c].depth > 0 /\ ctx'[c].depth = Committed
               \/ ctx[c].depth = 0 /\ ctx'[c].depth # 0
    <3>1. /\ ctx' = [ctx EXCEPT ![c] = Preprocess(ctx[c], s).books]
          /\ Sent(Preprocess(ctx[c], s).stmt)
      BY <2>7 DEF Execute
    <3>2. QED
      BY <2>3, <3>1 DEF Sent
  <2>8. ~ \E r \in Row : CursorInsert(c, r)
    BY <2>1, MadeStmts, AnsweredDurable DEF CursorInsert, Insert, Commits
  <2>9. ASSUME NEW s \in AnyStmt, ExecuteRaw(c, s)
        PROVE  s \in {Commit, Begin(NoName), Ddl}
    <3>1. Commits(s) /\ Accepts(db, s)
      BY <2>1, <2>9, AnsweredDurable DEF ExecuteRaw
    <3>2. QED
      BY <3>1 DEF Commits, Accepts, AnyStmt, Stmt, Commit, Begin, Ddl
  <2>10. QED
    BY <1>1, <2>4, <2>5, <2>6, <2>7, <2>8, <2>9, CallIsOne, ScriptDurable
<1>2. ASSUME TypeOK, ConnectionRollback PROVE Kept
  BY <1>2 DEF ConnectionRollback, Discard, Settled, TypeOK, Session
<1>3. TypeOK /\ [Next]_vars => [Kept]_vars
  BY <1>1, <1>2 DEF Next
<1>4. QED
  BY <1>3, TypeCorrect, PTL DEF Spec, DurableOnlyByCommitOrDdl

-----------------------------------------------------------------------------
(* One context on a connection of its own. *)

(* Another context's __enter__ would commit this one's work.                *)
Alone == \A c, d \in Ctx : c = d

(* Clients that use `with`, the API and the table adapters inside the       *)
(* block, without DDL, and a server that refuses only what it can refuse    *)
(* before it has done anything.                                             *)
Disciplined == Uses \subseteq {"reuse"} /\ Faults \subseteq {"begin", "insert"}

(* A context that was not entered is as __init__ left it, one inside its    *)
(* block is past its BEGIN, and a BEGIN of `with` has no name.              *)
BooksFollowScope ==
  \A c \in Ctx :
    /\ scope[c] = "new" => ctx[c] = FreshBooks
    /\ scope[c] = "inside" => ctx[c].depth \in {Committed, RolledBack} \/ ctx[c].depth > 0
    /\ ctx[c].name = NoName

Truth == TypeOK /\ NothingUnsettled /\ DepthTellsTheTruth /\ BooksFollowScope

(* What calls come to, for disciplined clients: nothing but a count;        *)
Looks(c) ==
  /\ UNCHANGED <<scope, db>>
  /\ \/ ctx' = ctx
     \/ Holds(c) /\ \E n \in Nat : n > 0 /\ ctx' = [ctx EXCEPT ![c].depth = n]

(* a row more;                                                              *)
Writes(c, r) ==
  /\ Holds(c) /\ ~ db.closed /\ r \notin db.work
  /\ db' = [db EXCEPT !.open = TRUE, !.work = @ \cup {r}]
  /\ UNCHANGED <<ctx, scope>>

(* a savepoint more;                                                        *)
Saves(c, n) ==
  /\ Holds(c)
  /\ Occurs(ctx[c].savepoints, n) => "reuse" \in Uses
  /\ ctx' = [ctx EXCEPT ![c].savepoints = Append(@, n)]
  /\ db' = IF db.closed THEN db
           ELSE [db EXCEPT !.open = TRUE,
                           !.marks = Replaced(@, [name |-> n, rows |-> db.work])]
  /\ UNCHANGED scope

(* a return to one;                                                         *)
Returns(c, n) ==
  /\ Holds(c) /\ Occurs(ctx[c].savepoints, n)
  /\ ctx' = [ctx EXCEPT ![c].savepoints = PopThrough(@, n)]
  /\ db' = IF db.closed \/ ~ Occurs(MarkNames(db), n) THEN db ELSE ReturnTo(db, At(db, n))
  /\ UNCHANGED scope

(* the end of the transaction, with its work or without;                    *)
Ends(c) ==
  /\ Holds(c)
  /\ \E o \in {Committed, RolledBack} : ctx' = [ctx EXCEPT ![c] = FinishedBooks(o)]
  /\ \/ db.closed /\ db' = db
     \/ ~ db.closed /\ \E rows \in {db.work, db.durable} : db' = Settled(db, rows)
  /\ UNCHANGED scope

(* or its beginning, which the server may refuse.                           *)
Begun == [FreshBooks EXCEPT !.depth = 1, !.name = NoName]

Enters(c) ==
  /\ scope[c] = "new" /\ ~ db.closed
  /\ ctx' = [ctx EXCEPT ![c] = Begun] /\ scope' = [scope EXCEPT ![c] = "inside"]
  /\ db' = [Settled(db, db.work) EXCEPT !.open = TRUE]

StaysOut(c) ==
  /\ scope[c] = "new" /\ db' = db
  /\ ctx' = [ctx EXCEPT ![c] = Begun] /\ scope' = [scope EXCEPT ![c] = "refused"]

LEMMA BegunParts ==
  /\ Begun.depth = 1 /\ Begun.savepoints = <<>> /\ Begun.name = NoName
  BY DEF Begun, FreshBooks

(* With the clients and the server of Disciplined, a statement is refused   *)
(* only if the server has a reason, or if it is a BEGIN or a write.         *)
LEMMA Answer ==
  ASSUME Disciplined, TypeOK, NEW s, Answered(s)
  PROVE  \/ Accepts(db, s) /\ db' = Apply(db, s)
         \/ /\ ~ Accepts(db, s) \/ s.op \in {"begin", "insert"}
            /\ db' = Refuse(db, s)
  BY DEF Disciplined, Answered, Accepted, Refused

(* A write inside a scope that holds the transaction.                       *)
LEMMA InsertComesTo ==
  ASSUME Disciplined, Truth, NEW c \in Ctx, Holds(c), NEW r \in Row,
         Answered(Insert(r)), ctx' = ctx, scope' = scope
  PROVE  Looks(c) \/ Writes(c, r)
<1>1. db \in Session /\ TypeOK /\ (db.open \/ db.closed)
  BY DEF Truth, TypeOK, DepthTellsTheTruth
<1>2. Insert(r).op = "insert" /\ Insert(r).arg = r
  BY DEF Insert
<1>3. CASE db' = Refuse(db, Insert(r))
  <2>1. db' = db
    BY <1>1, <1>2, <1>3 DEF Refuse, Session
  <2>2. QED
    BY <2>1 DEF Looks
<1>4. CASE Accepts(db, Insert(r)) /\ db' = Apply(db, Insert(r))
  BY <1>2, <1>4 DEF Accepts, Apply, Writes
<1>5. QED
  BY <1>1, <1>3, <1>4, Answer

(* Any statement given to execute().                                        *)
LEMMA ExecuteComesTo ==
  ASSUME Disciplined, Truth, NEW c \in Ctx, NEW s \in Stmt, Execute(c, s), NewName(c, s)
  PROVE  \/ Looks(c) \/ Ends(c)
         \/ \E r \in Row : Writes(c, r)
         \/ \E n \in Name : Saves(c, n) \/ Returns(c, n)
<1> DEFINE x == ctx[c]
           p == Preprocess(x, s)
<1>1. /\ ctx' = [ctx EXCEPT ![c] = p.books] /\ Sent(p.stmt)
      /\ scope' = scope /\ scope[c] = "inside"
  BY DEF Execute, Inside, Disciplined
<1>2. /\ x \in Bookkeeping /\ TypeOK /\ db \in Session /\ x.name = NoName
      /\ x.depth \in Finished \/ x.depth > 0
  BY <1>1 DEF Truth, TypeOK, BooksFollowScope, Finished
<1>3. CASE p = Sends(x, Raise) \/ p = Sends(x, Scrub)
  <2>1. ctx' = ctx /\ db' = db
    BY <1>1, <1>2, <1>3 DEF Sends, Sent, TypeOK
  <2>2. QED
    BY <1>1, <2>1 DEF Looks
<1>4. CASE x.depth \in Finished
  BY <1>3, <1>4, FinishedRaises DEF Preprocess
<1>5. ASSUME x.depth \notin Finished
      PROVE  \/ Looks(c) \/ Ends(c)
             \/ \E r \in Row : Writes(c, r)
             \/ \E n \in Name : Saves(c, n) \/ Returns(c, n)
  <2>1. x.depth > 0 /\ x.depth \in Nat /\ Holds(c)
    BY <1>1, <1>2, <1>5 DEF Holds, Bookkeeping
  <2>2. CASE s.op = "begin"
    BY <1>3, <1>5, <2>1, <2>2 DEF Preprocess, OnBegin
  <2>3. CASE s.op = "savepoint"
    <3>1. p = Sends([x EXCEPT !.savepoints = Append(@, s.arg)], s)
      BY <1>5, <2>3 DEF Preprocess, OnSavepoint
    <3>2. ctx' = [ctx EXCEPT ![c].savepoints = Append(@, s.arg)] /\ Answered(s)
      BY <1>1, <2>3, <3>1 DEF Sends, Sent, Scrub, Raise
    <3>3. db' = IF db.closed THEN db ELSE Apply(db, s)
      BY <1>2, <2>3, <3>2, Answer DEF Accepts, Refuse
    <3>4. Saves(c, s.arg)
      BY <1>1, <2>1, <2>3, <3>2, <3>3 DEF Saves, NewName, Apply
    <3>5. QED
      BY <2>3, <3>4, StmtParts
  <2>4. CASE s.op = "commit"
    <3>1. p = OnCommit(x, s)
      BY <1>5, <2>4 DEF Preprocess
    <3>2. CASE x.depth > 1
      <4>1. p = Sends([x EXCEPT !.depth = x.depth - 1], Scrub)
        BY <2>1, <3>1, <3>2 DEF OnCommit
      <4>2. ctx' = [ctx EXCEPT ![c].depth = x.depth - 1] /\ db' = db
        BY <1>1, <4>1 DEF Sends, Sent
      <4>3. x.depth - 1 \in Nat /\ x.depth - 1 > 0
        BY <2>1, <3>2
      <4>4. QED
        BY <1>1, <2>1, <4>2, <4>3 DEF Looks
    <3>3. CASE x.depth = 1
      <4>1. p = Sends(FinishedBooks(Committed), s)
        BY <3>1, <3>3 DEF OnCommit
      <4>2. ctx' = [ctx EXCEPT ![c] = FinishedBooks(Committed)] /\ Answered(s)
        BY <1>1, <2>4, <4>1 DEF Sends, Sent, Scrub, Raise
      <4>3. \/ db.closed /\ db' = db
            \/ ~ db.closed /\ db' = Settled(db, db.work)
        BY <1>2, <2>4, <4>2, Answer DEF Accepts, Refuse, Apply
      <4>4. QED
        BY <1>1, <2>1, <4>2, <4>3 DEF Ends
    <3>4. QED
      BY <2>1, <3>2, <3>3
  <2>5. CASE s.op \in {"rollback", "rollbackTo"}
    <3>1. p = OnRollback(x, s)
      BY <1>5, <2>5 DEF Preprocess
    <3>2. CASE Occurs(x.savepoints, s.arg)
      <4> DEFINE t == RollbackTo(s.arg)
      <4>1. p = Sends([x EXCEPT !.savepoints = PopThrough(@, s.arg)], t)
        BY <2>1, <3>1, <3>2 DEF OnRollback
      <4>2. t.op = "rollbackTo" /\ t.arg = s.arg
        BY DEF RollbackTo
      <4>3. ctx' = [ctx EXCEPT ![c].savepoints = PopThrough(@, s.arg)] /\ Answered(t)
        BY <1>1, <4>1 DEF Sends, Sent, Scrub, Raise, RollbackTo
      <4> HIDE DEF t
      <4>4. db' = IF db.closed \/ ~ Occurs(MarkNames(db), s.arg) THEN db
                  ELSE ReturnTo(db, At(db, s.arg))
        BY <1>2, <4>2, <4>3, Answer DEF Accepts, Refuse, Apply, At
      <4>5. Returns(c, s.arg)
        BY <1>1, <2>1, <3>2, <4>3, <4>4 DEF Returns
      <4>6. s.arg \in Name
        BY <1>2, <3>2 DEF Occurs, Bookkeeping
      <4>7. QED
        BY <4>5, <4>6
    <3>3. CASE ~ Occurs(x.savepoints, s.arg) /\ s.arg \notin {NoName, x.name}
      BY <1>3, <2>1, <3>1, <3>3 DEF OnRollback
    <3>4. CASE ~ Occurs(x.savepoints, s.arg) /\ s.arg \in {NoName, x.name}
      <4> DEFINE t == Rollback(NoName)
      <4>1. p = Sends(FinishedBooks(RolledBack), t)
        BY <2>1, <3>1, <3>4 DEF OnRollback
      <4>2. t.op = "rollback" /\ t.arg = NoName
        BY DEF Rollback
      <4>3. ctx' = [ctx EXCEPT ![c] = FinishedBooks(RolledBack)] /\ Answered(t)
        BY <1>1, <4>1 DEF Sends, Sent, Scrub, Raise, Rollback
      <4> HIDE DEF t
      <4>4. \/ db.closed /\ db' = db
            \/ ~ db.closed /\ db' = Settled(db, db.durable)
        BY <1>2, <4>2, <4>3, Answer DEF Accepts, Refuse, Apply, Discard
      <4>5. QED
        BY <1>1, <2>1, <4>3, <4>4 DEF Ends
    <3>5. QED
      BY <3>2, <3>3, <3>4
  <2>6. CASE s.op = "insert"
    <3>1. p = Sends(x, s)
      BY <1>5, <2>6 DEF Preprocess
    <3>2. s = Insert(s.arg) /\ s.arg \in Row /\ s \notin {Scrub, Raise}
      BY <2>6 DEF Stmt, Insert, Scrub, Raise, Commit
    <3>3. ctx' = ctx /\ Answered(Insert(s.arg))
      BY <1>1, <1>2, <3>1, <3>2 DEF Sends, Sent, TypeOK
    <3>4. QED
      BY <1>1, <2>1, <3>2, <3>3, InsertComesTo
  <2>7. QED
    BY <2>2, <2>3, <2>4, <2>5, <2>6, StmtParts
<1>6. QED
  BY <1>2, <1>4, <1>5

(* __enter__ of a context that was not entered before.                      *)
LEMMA EnterComesTo ==
  ASSUME Disciplined, Truth, NEW c \in Ctx, Enter(c)
  PROVE  Enters(c) \/ StaysOut(c)
<1> DEFINE s == Begin(NoName)
<1>1. scope[c] = "new" /\ ctx[c] = FreshBooks /\ TypeOK
  BY DEF Enter, Disciplined, Truth, BooksFollowScope
<1>2. s.op = "begin" /\ s.arg = NoName
  BY DEF Begin
<1>3. Preprocess(FreshBooks, s) = Sends(Begun, s)
  <2>1. FreshBooks.depth = 0 /\ 0 \notin Finished
    BY DEF FreshBooks, Finished, Exited, Committed, RolledBack
  <2>2. Preprocess(FreshBooks, s) = OnBegin(FreshBooks, s)
    BY <1>2, <2>1 DEF Preprocess
  <2>3. OnBegin(FreshBooks, s) = Sends(Begun, s)
    BY <1>2, <2>1 DEF OnBegin, Begun, Begin
  <2>4. QED
    BY <2>2, <2>3
<1> HIDE DEF s
<1>4. /\ ctx' = [ctx EXCEPT ![c] = Begun]
      /\ \/ Accepted(s) /\ scope' = [scope EXCEPT ![c] = "inside"]
         \/ Refused(s) /\ scope' = [scope EXCEPT ![c] = "refused"]
  BY <1>1, <1>2, <1>3 DEF Enter, Sends, Scrub, Raise, s
<1>5. Accepted(s) => ~ db.closed /\ db' = [Settled(db, db.work) EXCEPT !.open = TRUE]
  BY <1>2 DEF Accepted, Accepts, Apply
<1>6. Refused(s) => db' = db
  BY <1>2 DEF Refused, Refuse
<1>7. QED
  BY <1>1, <1>4, <1>5, <1>6 DEF Enters, StaysOut

(* So a call of a disciplined client comes to one of these.                 *)
LEMMA CallComesTo ==
  ASSUME Disciplined, Truth, NEW c \in Ctx, Call(c)
  PROVE  \/ Looks(c) \/ Ends(c) \/ Enters(c) \/ StaysOut(c)
         \/ \E r \in Row : Writes(c, r)
         \/ \E n \in Name : Saves(c, n) \/ Returns(c, n)
         \/ Exit(c)
         \/ db' = Shut(db) /\ UNCHANGED <<ctx, scope>>
<1>1. TypeOK
  BY DEF Truth
<1>2. ASSUME NEW r \in Row, CursorInsert(c, r) PROVE Looks(c) \/ Writes(c, r)
  <2>1. Holds(c)
    BY <1>2 DEF CursorInsert, Inside, Disciplined, Holds, Truth, BooksFollowScope, Finished
  <2>2. QED
    BY <1>2, <2>1, InsertComesTo DEF CursorInsert
<1>3. ~ ExecuteDdl(c) /\ ~ \E s \in AnyStmt : ExecuteRaw(c, s)
  BY DEF ExecuteDdl, ExecuteRaw, Disciplined
<1>4. ~ \E s \in Stmt, t \in Stmt : ExecuteScript(c, s, t)
  BY DEF ExecuteScript, Disciplined
<1>5. QED
  BY <1>1, <1>2, <1>3, <1>4, CallIsOne, ExecuteComesTo, EnterComesTo DEF Close

(* A scope that goes on, over a transaction that does.                      *)
LEMMA GoesOn ==
  ASSUME Alone, Truth, NEW c \in Ctx, scope' = scope, ctx'[c].name = NoName,
         scope[c] # "inside" => ctx'[c] = ctx[c],
         Holds(c) <=> ctx'[c].depth > 0 /\ scope[c] = "inside",
         ctx'[c].depth = ctx[c].depth \/ Holds(c),
         db'.open = db.open, db'.closed = db.closed
  PROVE  DepthTellsTheTruth' /\ BooksFollowScope'
<1>1. \A d \in Ctx : d = c
  BY DEF Alone
<1>2. Holds(c)' <=> Holds(c)
  BY DEF Holds
<1>3. DepthTellsTheTruth'
  BY <1>1, <1>2 DEF Truth, DepthTellsTheTruth
<1>4. BooksFollowScope'
  BY <1>1 DEF Truth, BooksFollowScope, Holds
<1>5. QED
  BY <1>3, <1>4

(* The end of the only scope, on a connection left without a transaction.   *)
LEMMA NobodyLeft ==
  ASSUME Alone, Truth, NEW c \in Ctx, ~ Holds(c)', ~ db'.open
  PROVE  DepthTellsTheTruth'
<1>1. \A d \in Ctx : d = c
  BY DEF Alone
<1>2. QED
  BY <1>1 DEF DepthTellsTheTruth

(* Truth is inductive for disciplined clients.                              *)
LEMMA TruthInductive ==
  ASSUME Disciplined, Alone
  PROVE  Truth /\ TypeOK' /\ NothingUnsettled' /\ [Next]_vars => Truth'
<1> SUFFICES ASSUME Truth, TypeOK', NothingUnsettled', [Next]_vars
             PROVE  DepthTellsTheTruth' /\ BooksFollowScope'
  BY DEF Truth
<1>1. TypeOK /\ db \in Session /\ \A c \in Ctx : ctx[c] \in Bookkeeping /\ ctx[c].name = NoName
  BY DEF Truth, TypeOK, BooksFollowScope
<1>2. ASSUME NEW c \in Ctx, Call(c) PROVE DepthTellsTheTruth' /\ BooksFollowScope'
  <2>1. \A d \in Ctx : d = c
    BY DEF Alone
  <2>2. Holds(c) => db.open \/ db.closed
    BY DEF Truth, DepthTellsTheTruth
  <2>3. CASE Looks(c)
    <3>1. /\ ctx'[c].name = NoName /\ (scope[c] # "inside" => ctx'[c] = ctx[c])
          /\ Holds(c) <=> ctx'[c].depth > 0 /\ scope[c] = "inside"
          /\ ctx'[c].depth = ctx[c].depth \/ Holds(c)
      BY <1>1, <2>3 DEF Looks, Holds, TypeOK, Bookkeeping
    <3>2. QED
      BY <2>3, <3>1, GoesOn DEF Looks
  <2>4. ASSUME NEW r \in Row, Writes(c, r) PROVE DepthTellsTheTruth' /\ BooksFollowScope'
    <3>1. db'.open = db.open /\ db'.closed = db.closed
      BY <1>1, <2>2, <2>4 DEF Writes, Session
    <3>2. QED
      BY <1>1, <2>4, <3>1, GoesOn DEF Writes, Holds
  <2>5. ASSUME NEW n \in Name, Saves(c, n) \/ Returns(c, n)
        PROVE  DepthTellsTheTruth' /\ BooksFollowScope'
    <3>1. db'.open = db.open /\ db'.closed = db.closed
      BY <1>1, <2>2, <2>5 DEF Saves, Returns, ReturnTo, Session
    <3>2. \E names : ctx' = [ctx EXCEPT ![c].savepoints = names]
      BY <1>1, <2>5 DEF Saves, Returns, TypeOK
    <3>3. ctx'[c].depth = ctx[c].depth /\ ctx'[c].name = ctx[c].name
      BY <1>1, <3>2 DEF TypeOK, Bookkeeping
    <3>4. Holds(c) /\ scope' = scope
      BY <2>5 DEF Saves, Returns
    <3>5. QED
      BY <1>1, <3>1, <3>3, <3>4, GoesOn DEF Holds
  <2>6. CASE Ends(c)
    <3>1. PICK o \in {Committed, RolledBack} : ctx' = [ctx EXCEPT ![c] = FinishedBooks(o)]
      BY <2>6 DEF Ends
    <3>2. ctx'[c].depth = o /\ ctx'[c].name = NoName /\ ~ (o > 0)
      BY <1>1, <3>1 DEF TypeOK, FinishedBooks, Committed, RolledBack
    <3>3. ~ Holds(c)' /\ BooksFollowScope'
      BY <2>1, <2>6, <3>2 DEF Ends, Holds, BooksFollowScope
    <3>4. ~ db'.open
      BY <1>1, <2>6 DEF Ends, Settled, Session, Truth, NothingUnsettled, Sound
    <3>5. QED
      BY <3>3, <3>4, NobodyLeft
  <2>7. CASE Enters(c)
    <3>1. ctx'[c] = Begun /\ scope'[c] = "inside" /\ db'.open
      BY <1>1, <2>7 DEF Enters, TypeOK, Settled, Session
    <3>2. QED
      BY <2>1, <3>1, BegunParts DEF DepthTellsTheTruth, BooksFollowScope, Holds
  <2>8. CASE StaysOut(c)
    <3>1. ctx'[c] = Begun /\ scope'[c] = "refused" /\ ~ Holds(c) /\ ~ Holds(c)' /\ db' = db
      BY <1>1, <2>8 DEF StaysOut, TypeOK, Holds
    <3>2. ~ db.open
      BY <2>1, <3>1 DEF Truth, DepthTellsTheTruth
    <3>3. QED
      BY <2>1, <3>1, <3>2, BegunParts, NobodyLeft DEF BooksFollowScope
  <2>9. CASE Exit(c)
    <3>1. /\ scope'[c] = "left" /\ ctx'[c].name = NoName
          /\ db' = CloseOwned(c, db) \/ ctx[c].depth > 0
      BY <1>1, <2>9 DEF Exit, TypeOK, FinishedBooks, Bookkeeping
    <3>2. ~ Holds(c)' /\ BooksFollowScope'
      BY <2>1, <3>1 DEF Holds, BooksFollowScope
    <3>3. ~ db'.open
      <4>1. CASE ctx[c].depth > 0
        BY <1>1, <2>9, <4>1, ExitSettles DEF Truth
      <4>2. CASE ~ (ctx[c].depth > 0)
        <5>1. ~ db.open
          BY <2>1, <4>2 DEF Truth, DepthTellsTheTruth, Holds
        <5>2. QED
          BY <1>1, <3>1, <4>2, <5>1 DEF CloseOwned, Shut, Discard, Settled, Session
      <4>3. QED
        BY <4>1, <4>2
    <3>4. QED
      BY <3>2, <3>3, NobodyLeft
  <2>10. CASE db' = Shut(db) /\ UNCHANGED <<ctx, scope>>
    <3>1. db'.closed /\ ~ db'.open
      BY <1>1, <2>10 DEF Shut, Discard, Settled, Session
    <3>2. QED
      BY <2>10, <3>1 DEF Truth, DepthTellsTheTruth, BooksFollowScope
  <2>11. QED
    BY <1>2, <2>3, <2>4, <2>5, <2>6, <2>7, <2>8, <2>9, <2>10, CallComesTo
<1>3. ~ ConnectionCommit /\ ~ ConnectionRollback
  BY DEF ConnectionCommit, ConnectionRollback, Disciplined
<1>4. CASE UNCHANGED vars
  BY <1>4 DEF vars, Truth, DepthTellsTheTruth, BooksFollowScope, Holds
<1>5. QED
  BY <1>2, <1>3, <1>4 DEF Next

(* With a disciplined client and a connection of its own, the connection    *)
(* has an open transaction exactly while the context is going to finish it. *)
THEOREM DepthIsTrue == ASSUME Disciplined, Alone PROVE Spec => []DepthTellsTheTruth
<1>1. Init => DepthTellsTheTruth /\ BooksFollowScope /\ NothingUnsettled
  BY DEF Init, FreshBooks, FreshSession, DepthTellsTheTruth, BooksFollowScope, Holds,
         NothingUnsettled, Sound
<1>2. TypeOK /\ NothingUnsettled /\ [Next]_vars => NothingUnsettled'
  BY UnsettledInductive
<1>3. /\ TypeOK /\ NothingUnsettled /\ DepthTellsTheTruth /\ BooksFollowScope
      /\ TypeOK' /\ NothingUnsettled' /\ [Next]_vars
      => DepthTellsTheTruth' /\ BooksFollowScope'
  BY TruthInductive DEF Truth
<1>4. QED
  BY <1>1, <1>2, <1>3, TypeCorrect, PTL DEF Spec

-----------------------------------------------------------------------------
(* Savepoints, when names are used once while they are live. *)

Strict == Disciplined /\ "reuse" \notin Uses

(* MySQL has one savepoint of a name.                                       *)
UniqueNames(marks) ==
  \A i, j \in 1..Len(marks) : marks[i].name = marks[j].name => i = j

(* kept maps the marks of another name to where they are when the mark of   *)
(* name n is out: all that are left, in the order they had.                 *)
LeavesOthers(kept, marks, n) ==
  /\ \A p \in 1..Len(marks) : marks[p].name # n =>
       kept[p] \in 1..Len(Without(marks, n)) /\ Without(marks, n)[kept[p]] = marks[p]
  /\ \A p, q \in 1..Len(marks) :
       marks[p].name # n /\ marks[q].name # n /\ p < q => kept[p] < kept[q]
  /\ \A i \in 1..Len(Without(marks, n)) : \E p \in 1..Len(marks) :
       marks[p].name # n /\ kept[p] = i

(* Taking a mark out leaves the others, in their order.                     *)
LEMMA WithoutOthers ==
  ASSUME NEW marks \in Seq(Mark), UniqueNames(marks), NEW n
  PROVE  \E kept \in [1..Len(marks) -> Int] : LeavesOthers(kept, marks, n)
<1> DEFINE l == Len(marks)
<1>1. l \in Nat
  OBVIOUS
<1>2. CASE \A i \in 1..l : marks[i].name # n
  <2> DEFINE kept == [p \in 1..l |-> p]
  <2>1. Without(marks, n) = marks
    BY <1>2 DEF Without
  <2>2. kept \in [1..l -> Int] /\ \A p \in 1..l : kept[p] = p
    BY <1>1
  <2> HIDE DEF kept
  <2>3. QED
    BY <1>2, <2>1, <2>2 DEF LeavesOthers
<1>3. CASE ~ \A i \in 1..l : marks[i].name # n
  <2> DEFINE at == CHOOSE i \in 1..l : marks[i].name = n
             rest == [i \in 1..(l - 1) |-> marks[IF i < at THEN i ELSE i + 1]]
             kept == [p \in 1..l |-> IF p < at THEN p ELSE p - 1]
  <2>1. at \in 1..l /\ marks[at].name = n
    BY <1>3
  <2>2. \A p \in 1..l : marks[p].name # n <=> p # at
    BY <2>1 DEF UniqueNames
  <2>3. Without(marks, n) = rest
    BY <1>3 DEF Without
  <2> HIDE DEF at
  <2>4. l - 1 \in Nat /\ Len(rest) = l - 1
    BY <1>1, <2>1
  <2>5. \A i \in 1..(l - 1) : rest[i] = marks[IF i < at THEN i ELSE i + 1]
    OBVIOUS
  <2>6. kept \in [1..l -> Int] /\ \A p \in 1..l : kept[p] = IF p < at THEN p ELSE p - 1
    BY <1>1
  <2> HIDE DEF rest, kept, l
  <2>7. \A p \in 1..l : p # at => kept[p] \in 1..(l - 1) /\ rest[kept[p]] = marks[p]
    BY <1>1, <2>1, <2>5, <2>6
  <2>8. \A p, q \in 1..l : p # at /\ q # at /\ p < q => kept[p] < kept[q]
    BY <1>1, <2>1, <2>6
  <2>9. \A i \in 1..(l - 1) : \E p \in 1..l : p # at /\ kept[p] = i
    <3>1. TAKE i \in 1..(l - 1)
    <3>2. CASE i < at
      <4>1. i \in 1..l /\ i # at /\ kept[i] = i
        BY <1>1, <2>1, <2>6, <3>1, <3>2
      <4>2. QED
        BY <4>1
    <3>3. CASE ~ (i < at)
      <4>1. i + 1 \in 1..l /\ i + 1 # at /\ kept[i + 1] = i
        BY <1>1, <2>1, <2>6, <3>1, <3>3
      <4>2. QED
        BY <4>1
    <3>4. QED
      BY <3>2, <3>3
  <2>10. QED
    <3>1. LeavesOthers(kept, marks, n)
      BY <2>2, <2>3, <2>4, <2>7, <2>8, <2>9 DEF l, LeavesOthers
    <3>2. QED
      BY <2>6, <3>1 DEF l
<1>4. QED
  BY <1>2, <1>3

(* SAVEPOINT n, where n is new to the list: an older savepoint of that name *)
(* goes, and every name of the list stands for what it stood for.           *)
LEMMA PointReplaced ==
  ASSUME NEW d \in Session, NEW e \in Session, NEW names \in Seq(Name), InOrder(names, d),
         UniqueNames(d.marks), NEW m \in Mark, ~ Occurs(names, m.name),
         e.marks = Replaced(d.marks, m)
  PROVE  /\ UniqueNames(e.marks)
         /\ InOrder(Append(names, m.name), e)
         /\ MarkedAs(Append(names, m.name), e) = Append(MarkedAs(names, d), m)
<1> DEFINE rest == Without(d.marks, m.name)
           k == Len(rest)
<1>1. d.marks \in Seq(Mark) /\ rest \in Seq(Mark)
  BY WithoutType DEF Session
<1>2. PICK kept \in [1..Len(d.marks) -> Int] : LeavesOthers(kept, d.marks, m.name)
  BY <1>1, WithoutOthers
<1>0. /\ \A p \in 1..Len(d.marks) : d.marks[p].name # m.name =>
           kept[p] \in 1..k /\ rest[kept[p]] = d.marks[p]
      /\ \A p, q \in 1..Len(d.marks) :
           d.marks[p].name # m.name /\ d.marks[q].name # m.name /\ p < q => kept[p] < kept[q]
      /\ \A i \in 1..k : \E p \in 1..Len(d.marks) : d.marks[p].name # m.name /\ kept[p] = i
  BY <1>2, Zenon DEF LeavesOthers
<1>3. e.marks = Append(rest, m)
  BY DEF Replaced
<1> HIDE DEF rest
<1>4. /\ k \in Nat /\ Len(e.marks) = k + 1 /\ e.marks[k + 1] = m
      /\ \A i \in 1..k : e.marks[i] = rest[i]
  BY <1>1, <1>3
<1> HIDE DEF k
<1>5. \A i \in 1..k : \E p \in 1..Len(d.marks) :
        kept[p] = i /\ e.marks[i] = d.marks[p] /\ d.marks[p].name # m.name
  <2>1. TAKE i \in 1..k
  <2>2. PICK p \in 1..Len(d.marks) : d.marks[p].name # m.name /\ kept[p] = i
    BY <1>0, <2>1
  <2>3. rest[i] = d.marks[p]
    BY <1>0, <2>2
  <2>4. QED
    BY <1>4, <2>1, <2>2, <2>3
<1>6. UniqueNames(e.marks)
  <2>1. \A i, j \in 1..k : e.marks[i].name = e.marks[j].name => i = j
    BY <1>5 DEF UniqueNames
  <2>2. \A i \in 1..k : e.marks[i].name # m.name
    BY <1>5
  <2>3. \A i \in 1..(k + 1) : i \in 1..k \/ i = k + 1
    BY <1>4
  <2>4. QED
    BY <1>4, <2>1, <2>2, <2>3 DEF UniqueNames
<1>7. \A i \in 1..Len(names) :
        /\ At(d, names[i]) \in 1..Len(d.marks)
        /\ d.marks[At(d, names[i])].name = names[i] /\ names[i] # m.name
  BY AtPosition DEF InOrder, Occurs
<1>8. \A i \in 1..Len(names) : LET p == At(d, names[i]) IN
        /\ kept[p] \in 1..Len(e.marks) /\ e.marks[kept[p]] = d.marks[p]
        /\ \A j \in 1..Len(e.marks) : e.marks[j].name = names[i] => j <= kept[p]
  <2>1. TAKE i \in 1..Len(names)
  <2> DEFINE p == At(d, names[i])
  <2>2. kept[p] \in 1..k /\ e.marks[kept[p]] = d.marks[p] /\ d.marks[p].name = names[i]
    BY <1>0, <1>4, <1>7
  <2>3. kept[p] \in 1..Len(e.marks)
    BY <1>4, <2>2
  <2>4. \A j \in 1..Len(e.marks) : e.marks[j].name = names[i] => j = kept[p]
    BY <1>6, <2>2, <2>3 DEF UniqueNames
  <2>5. QED
    BY <2>2, <2>3, <2>4
<1>9. \A i, j \in 1..Len(names) : LET p == At(d, names[i])
                                      q == At(d, names[j])
                                  IN  p < q => kept[p] < kept[q]
  BY <1>0, <1>7
<1>10. InOrder(names, e) /\ MarkedAs(names, e) = MarkedAs(names, d)
  BY <1>8, <1>9, Carried
<1>11. e.marks # <<>> /\ e.marks[Len(e.marks)] = m
  <2>1. Len(<<>>) = 0 /\ Len(e.marks) # 0
    BY <1>4
  <2>2. QED
    BY <1>4, <2>1
<1>12. m.name \in Name
  BY DEF Mark
<1>13. QED
  BY <1>6, <1>10, <1>11, <1>12, PointAdded

-----------------------------------------------------------------------------
(* What the refinement needs beyond Truth: the names the scope still lists  *)
(* stand for savepoints of the server, the later for the later, so that     *)
(* rolling back to one of them cannot touch what an earlier one means; and  *)
(* the server has one savepoint of a name, so that SAVEPOINT drops no other.*)
PointsInOrder ==
  \A c \in Ctx : Holds(c) /\ ~ db.closed => InOrder(ctx[c].savepoints, db)

PromiseInv == Truth /\ PointsInOrder /\ UniqueNames(db.marks)

(* A step keeps them and is seen as a step of TxnScope, or as none.         *)
Follows == PointsInOrder' /\ UniqueNames(db'.marks) /\ [Promise!Next]_(Promise!vars)

(* What TxnScope sees of a connection on which the scope holds a            *)
(* transaction, and of one on which it does not.                            *)
LEMMA ViewActive ==
  ASSUME Alone, ~ db.closed, NEW c \in Ctx, Holds(c)
  PROVE  Phase = "active" /\ Points = MarkedAs(ctx[c].savepoints, db)
<1>1. Active
  BY DEF Active
<1>2. (CHOOSE d \in Ctx : Holds(d)) = c
  BY DEF Alone
<1>3. QED
  BY <1>1, <1>2 DEF Phase, Points

LEMMA ViewActiveNext ==
  ASSUME Alone, ~ db'.closed, NEW c \in Ctx, Holds(c)'
  PROVE  Phase' = "active" /\ Points' = MarkedAs(ctx'[c].savepoints, db')
<1>1. Active'
  BY DEF Active
<1>2. (CHOOSE d \in Ctx : Holds(d)') = c
  BY DEF Alone
<1>3. QED
  BY <1>1, <1>2 DEF Phase, Points

LEMMA ViewIdle == ~ Active => Phase = "idle" /\ Points = <<>>
  BY DEF Phase, Points

LEMMA ViewIdleNext == ~ Active' => Phase' = "idle" /\ Points' = <<>>
  BY DEF Phase, Points

(* A connection without a holder has nothing that is not durable.           *)
LEMMA IdleIsSettled ==
  ASSUME Truth, ~ Active
  PROVE  db.work = db.durable
  BY DEF Truth, DepthTellsTheTruth, NothingUnsettled, Sound, Active

(* Without a transaction, or without savepoints, there is no order to keep. *)
LEMMA NoMarks ==
  UniqueNames(<<>>)
  BY DEF UniqueNames

(* A step that changes nothing TxnScope can see.                            *)
LEMMA SameView ==
  ASSUME Alone, PromiseInv, db' = db, NEW c \in Ctx,
         Holds(c)' <=> Holds(c),
         Holds(c) => ctx'[c].savepoints = ctx[c].savepoints
  PROVE  Follows
<1>1. PointsInOrder' /\ UniqueNames(db'.marks)
  BY DEF PromiseInv, PointsInOrder, Alone
<1>2. CASE Active
  <2>1. ~ db.closed /\ Holds(c) /\ Holds(c)'
    BY <1>2 DEF Active, Alone
  <2>2. Phase = "active" /\ Points = MarkedAs(ctx[c].savepoints, db)
    BY <2>1, ViewActive
  <2>3. Phase' = "active" /\ Points' = MarkedAs(ctx'[c].savepoints, db')
    BY <2>1, ViewActiveNext
  <2>4. QED
    BY <1>1, <2>1, <2>2, <2>3 DEF Follows, Promise!vars
<1>3. CASE ~ Active
  <2>1. ~ Active'
    BY <1>3 DEF Active, Alone
  <2>2. QED
    BY <1>1, <1>3, <2>1, ViewIdle, ViewIdleNext DEF Follows, Promise!vars
<1>4. QED
  BY <1>2, <1>3

(* A step after which no scope holds a transaction, and which makes durable *)
(* all the work or none of it.                                              *)
LEMMA ToIdle ==
  ASSUME PromiseInv, ~ Active', db'.work = db'.durable,
         db'.durable = db.durable \/ db'.durable = db.work,
         UniqueNames(db'.marks)
  PROVE  Follows
<1>1. PointsInOrder'
  BY DEF PointsInOrder, Active
<1>2. Phase' = "idle" /\ Points' = <<>>
  BY ViewIdleNext
<1>3. CASE Active
  <2>1. Phase = "active"
    BY <1>3 DEF Phase
  <2>2. Promise!Keep \/ Promise!Drop
    BY <1>2, <2>1 DEF Promise!Keep, Promise!Drop
  <2>3. QED
    BY <1>1, <2>2 DEF Follows, Promise!Next
<1>4. CASE ~ Active
  <2>1. Phase = "idle" /\ Points = <<>> /\ db.work = db.durable
    BY <1>4, ViewIdle, IdleIsSettled DEF PromiseInv
  <2>2. QED
    BY <1>1, <1>2, <2>1 DEF Follows, Promise!vars
<1>5. QED
  BY <1>3, <1>4

(* The end of the only holder's transaction is the end of all.              *)
LEMMA HolderLeaves ==
  ASSUME Alone, NEW c \in Ctx, ~ Holds(c)'
  PROVE  ~ Active'
  BY DEF Alone, Active

(* On a closed connection no step of a statement shows.                     *)
LEMMA ClosedShowsNothing ==
  ASSUME PromiseInv, db.closed, db' = db
  PROVE  Follows
<1>1. ~ Active /\ ~ Active'
  BY DEF Active
<1>2. db.work = db.durable
  BY <1>1, IdleIsSettled DEF PromiseInv
<1>3. QED
  BY <1>1, <1>2, ToIdle DEF PromiseInv

(* A count that moves, or nothing.                                          *)
LEMMA LooksFollows ==
  ASSUME Alone, PromiseInv, NEW c \in Ctx, Looks(c)
  PROVE  Follows
<1>1. TypeOK /\ scope' = scope /\ db' = db
  BY DEF PromiseInv, Truth, Looks
<1>2. (Holds(c)' <=> Holds(c)) /\ (Holds(c) => ctx'[c].savepoints = ctx[c].savepoints)
  <2>1. CASE ctx' = ctx
    BY <1>1, <2>1 DEF Holds
  <2>2. ASSUME NEW n \in Nat, n > 0, Holds(c), ctx' = [ctx EXCEPT ![c].depth = n]
        PROVE  Holds(c)' /\ ctx'[c].savepoints = ctx[c].savepoints
    BY <1>1, <2>2 DEF Holds, TypeOK, Bookkeeping
  <2>3. QED
    BY <2>1, <2>2 DEF Looks
<1>3. QED
  BY <1>1, <1>2, SameView

(* A row that is written: Write.                                            *)
LEMMA WriteFollows ==
  ASSUME Alone, PromiseInv, NEW c \in Ctx, NEW r \in Row, Writes(c, r)
  PROVE  Follows
<1>1. db \in Session /\ ~ db.closed /\ Holds(c) /\ Holds(c)' /\ r \notin db.work
  BY DEF PromiseInv, Truth, TypeOK, Writes, Holds
<1>2. /\ db'.durable = db.durable /\ db'.work = db.work \cup {r}
      /\ db'.marks = db.marks /\ ~ db'.closed
  BY <1>1 DEF Writes, Session
<1>3. \A names : /\ MarkedAs(names, db') = MarkedAs(names, db)
                 /\ InOrder(names, db) <=> InOrder(names, db')
  BY <1>2 DEF MarkedAs, InOrder, At, MarkNames
<1>4. PointsInOrder' /\ UniqueNames(db'.marks)
  BY <1>1, <1>2, <1>3 DEF PromiseInv, PointsInOrder, Alone, Writes
<1>5. Phase = "active" /\ Points = MarkedAs(ctx[c].savepoints, db)
  BY <1>1, ViewActive
<1>6. Phase' = "active" /\ Points' = MarkedAs(ctx'[c].savepoints, db')
  BY <1>1, <1>2, ViewActiveNext
<1>7. Promise!Write(r)
  BY <1>1, <1>2, <1>3, <1>5, <1>6 DEF Promise!Write, Writes
<1>8. QED
  BY <1>4, <1>7 DEF Follows, Promise!Next

(* SAVEPOINT: Save, on a connection that is not closed.                     *)
LEMMA SaveFollows ==
  ASSUME Strict, Alone, PromiseInv, TypeOK', NEW c \in Ctx, NEW n \in Name, Saves(c, n)
  PROVE  Follows
<1> DEFINE held == ctx[c].savepoints
           m == [name |-> n, rows |-> db.work]
<1>1. TypeOK /\ db \in Session /\ db' \in Session /\ Holds(c)
  BY DEF PromiseInv, Truth, TypeOK, Saves
<1>2. ctx'[c].savepoints = Append(held, n) /\ Holds(c)'
  BY <1>1 DEF Saves, TypeOK, Bookkeeping, Holds
<1>3. CASE db.closed
  BY <1>3, ClosedShowsNothing DEF Saves
<1>4. CASE ~ db.closed
  <2>1. db' = [db EXCEPT !.open = TRUE, !.marks = Replaced(@, m)]
    BY <1>4 DEF Saves
  <2>2. /\ db'.durable = db.durable /\ db'.work = db.work
        /\ db'.marks = Replaced(db.marks, m) /\ ~ db'.closed
    BY <1>1, <1>4, <2>1 DEF Session
  <2>3. /\ held \in Seq(Name) /\ m \in Mark /\ m.name = n /\ ~ Occurs(held, n)
    BY <1>1 DEF TypeOK, Bookkeeping, Session, Mark, Strict, Saves
  <2>4. InOrder(held, db) /\ UniqueNames(db.marks)
    BY <1>1, <1>4 DEF PromiseInv, PointsInOrder
  <2>5. /\ UniqueNames(db'.marks) /\ InOrder(Append(held, n), db')
        /\ MarkedAs(Append(held, n), db') = Append(MarkedAs(held, db), m)
    <3> HIDE DEF held, m
    <3>1. /\ UniqueNames(db'.marks) /\ InOrder(Append(held, m.name), db')
          /\ MarkedAs(Append(held, m.name), db') = Append(MarkedAs(held, db), m)
      BY <1>1, <2>2, <2>3, <2>4, PointReplaced
    <3>2. QED
      BY <2>3, <3>1
  <2>6. PointsInOrder'
    BY <1>2, <2>5 DEF PointsInOrder, Alone
  <2>7. Phase = "active" /\ Points = MarkedAs(held, db)
    BY <1>1, <1>4, ViewActive
  <2>8. Phase' = "active" /\ Points' = MarkedAs(ctx'[c].savepoints, db')
    BY <1>2, <2>2, ViewActiveNext
  <2>9. Points' = Append(Points, m)
    BY <1>2, <2>5, <2>7, <2>8
  <2>10. Promise!Save(n)
    BY <2>2, <2>7, <2>8, <2>9 DEF Promise!Save
  <2>11. QED
    BY <2>5, <2>6, <2>10 DEF Follows, Promise!Next
<1>5. QED
  BY <1>3, <1>4

(* ROLLBACK TO: Return to the savepoint the name stands for.                *)
LEMMA ReturnFollows ==
  ASSUME Alone, PromiseInv, NEW c \in Ctx, NEW n \in Name, Returns(c, n)
  PROVE  Follows
<1> DEFINE held == ctx[c].savepoints
           cut == PopThrough(held, n)
           k == LastOf(held, n)
           at == At(db, n)
<1>1. /\ TypeOK /\ db \in Session /\ held \in Seq(Name)
      /\ Holds(c) /\ Occurs(held, n)
  BY DEF PromiseInv, Truth, TypeOK, Bookkeeping, Returns
<1>2. ctx'[c].savepoints = cut /\ Holds(c)'
  BY <1>1 DEF Returns, TypeOK, Bookkeeping, Holds
<1>3. CASE db.closed
  BY <1>3, ClosedShowsNothing DEF Returns
<1>4. CASE ~ db.closed
  <2>1. InOrder(held, db) /\ UniqueNames(db.marks)
    BY <1>1, <1>4 DEF PromiseInv, PointsInOrder
  <2>2. Occurs(MarkNames(db), n)
    BY <1>1, <2>1 DEF InOrder, Occurs
  <2>3. db' = ReturnTo(db, at) /\ at \in 1..Len(db.marks)
    BY <1>1, <1>4, <2>2, AtPosition DEF Returns
  <2>4. /\ k \in 1..Len(held)
        /\ MarkedAs(cut, db) = SubSeq(MarkedAs(held, db), 1, k - 1)
        /\ MarkedAs(held, db)[k].rows = db.marks[at].rows
    BY <1>1, <2>1, PointsCut
  <2>5. InOrder(cut, db') /\ MarkedAs(cut, db') = MarkedAs(cut, db)
    <3> HIDE DEF held
    <3>1. QED
      BY <1>1, <2>1, <2>3, PointsReturn
  <2> HIDE DEF at
  <2>6. /\ db'.durable = db.durable /\ db'.work = db.marks[at].rows
        /\ db'.marks = SubSeq(db.marks, 1, at) /\ ~ db'.closed
    BY <1>1, <1>4, <2>3 DEF ReturnTo, Session
  <2>7. UniqueNames(db'.marks)
    <3>1. db.marks \in Seq(Mark) /\ at \in 1..Len(db.marks)
      BY <1>1, <2>3 DEF Session
    <3>2. Len(db'.marks) = at /\ \A i \in 1..at : db'.marks[i] = db.marks[i]
      BY <2>6, <3>1
    <3>3. \A i \in 1..at : i \in 1..Len(db.marks)
      BY <3>1
    <3>4. QED
      BY <2>1, <3>2, <3>3 DEF UniqueNames
  <2>8. PointsInOrder'
    BY <1>2, <2>5 DEF PointsInOrder, Alone
  <2>9. Phase = "active" /\ Points = MarkedAs(held, db)
    BY <1>1, <1>4, ViewActive
  <2>10. Phase' = "active" /\ Points' = MarkedAs(ctx'[c].savepoints, db')
    BY <1>2, <2>6, ViewActiveNext
  <2>11. Points' = SubSeq(Points, 1, k - 1) /\ db'.work = Points[k].rows
    BY <1>2, <2>4, <2>5, <2>6, <2>9, <2>10
  <2>12. k \in 1..Len(Points)
    BY <1>1, <2>1, <2>4, <2>9, MarkedAsType
  <2> HIDE DEF k
  <2>13. Promise!Return(k)
    BY <2>6, <2>9, <2>10, <2>11 DEF Promise!Return
  <2>14. QED
    BY <2>7, <2>8, <2>12, <2>13 DEF Follows, Promise!Next
<1>5. QED
  BY <1>3, <1>4

(* COMMIT of the BEGIN, a full rollback and __enter__: Keep, Drop and Open. *)
LEMMA EndFollows ==
  ASSUME Alone, PromiseInv, NEW c \in Ctx, Ends(c)
  PROVE  Follows
<1>1. TypeOK /\ db \in Session
  BY DEF PromiseInv, Truth, TypeOK
<1>2. CASE db.closed
  BY <1>2, ClosedShowsNothing DEF Ends
<1>3. CASE ~ db.closed
  <2>1. ~ (ctx'[c].depth > 0)
    BY <1>1 DEF Ends, TypeOK, FinishedBooks, Committed, RolledBack
  <2>2. ~ Active'
    BY <2>1, HolderLeaves DEF Holds
  <2>3. /\ db'.work = db'.durable /\ db'.marks = <<>>
        /\ db'.durable = db.durable \/ db'.durable = db.work
    BY <1>1, <1>3 DEF Ends, Settled, Session
  <2>4. QED
    BY <2>2, <2>3, ToIdle, NoMarks
<1>4. QED
  BY <1>2, <1>3

LEMMA EnterFollows ==
  ASSUME Alone, PromiseInv, NEW c \in Ctx, Enters(c)
  PROVE  Follows
<1>1. TypeOK /\ db \in Session /\ ~ db.closed /\ ~ Holds(c)
  BY DEF PromiseInv, Truth, TypeOK, Enters, Holds
<1>2. ~ Active
  BY <1>1 DEF Active, Alone
<1>3. db.work = db.durable
  BY <1>2, IdleIsSettled DEF PromiseInv
<1>4. /\ ~ db'.closed /\ db'.durable = db.durable /\ db'.work = db.work
      /\ db'.marks = <<>>
  BY <1>1, <1>3 DEF Enters, Settled, Session
<1>5. ctx'[c].savepoints = <<>> /\ Holds(c)'
  BY <1>1, BegunParts DEF Enters, TypeOK, Holds
<1>6. Phase' = "active" /\ Points' = <<>>
  BY <1>4, <1>5, ViewActiveNext, NoPoints
<1>7. PointsInOrder'
  BY <1>5, NoPoints DEF PointsInOrder, Alone
<1>8. Promise!Open
  BY <1>2, <1>4, <1>6, ViewIdle DEF Promise!Open
<1>9. QED
  BY <1>4, <1>7, <1>8, NoMarks DEF Follows, Promise!Next

(* __exit__ and close(): Drop, unless commit() or rollback() came before.   *)
LEMMA CloseFollows ==
  ASSUME PromiseInv, db' = Shut(db)
  PROVE  Follows
<1>1. /\ db'.closed /\ db'.durable = db.durable /\ db'.work = db.durable
      /\ db'.marks = <<>>
  BY DEF PromiseInv, Truth, TypeOK, Session, Shut, Discard, Settled
<1>2. ~ Active'
  BY <1>1 DEF Active
<1>3. QED
  BY <1>1, <1>2, ToIdle, NoMarks

LEMMA ExitFollows ==
  ASSUME Alone, PromiseInv, NEW c \in Ctx, Exit(c)
  PROVE  Follows
<1>1. TypeOK /\ db \in Session /\ scope' = [scope EXCEPT ![c] = "left"]
  BY DEF Exit, PromiseInv, Truth, TypeOK
<1>2. ~ Holds(c)' /\ ~ Active'
  BY <1>1, HolderLeaves DEF TypeOK, Holds
<1>3. CASE ctx[c].depth > 0
  <2>1. db'.durable = db.durable /\ db'.work = db.durable /\ ~ db'.open
    BY <1>1, <1>3, ExitSettles DEF PromiseInv, Truth
  <2>2. NothingUnsettled'
    BY <1>1, ExitSettles DEF PromiseInv, Truth
  <2>3. QED
    BY <1>2, <2>1, <2>2, ToIdle, NoMarks DEF NothingUnsettled, Sound
<1>4. CASE ~ (ctx[c].depth > 0)
  <2>1. db' = db \/ db' = Shut(db)
    BY <1>4 DEF Exit, CloseOwned
  <2>2. CASE db' = db
    BY <1>2, <1>4, <2>2, SameView DEF Holds
  <2>3. QED
    BY <2>1, <2>2, CloseFollows
<1>5. QED
  BY <1>3, <1>4

(* Every step of the context is seen as a step of TxnScope, or as none.     *)
LEMMA EveryStepFollows ==
  ASSUME Strict, Alone
  PROVE  PromiseInv /\ TypeOK' /\ [Next]_vars => Follows
<1> SUFFICES ASSUME PromiseInv, TypeOK', [Next]_vars PROVE Follows
  OBVIOUS
<1>1. Disciplined /\ Truth
  BY DEF Strict, PromiseInv
<1>2. ASSUME NEW c \in Ctx, Call(c) PROVE Follows
  <2>1. CASE StaysOut(c)
    <3>1. ~ Holds(c) /\ ~ Holds(c)' /\ db' = db
      BY <1>1, <2>1 DEF StaysOut, Truth, TypeOK, Holds
    <3>2. QED
      BY <3>1, SameView
  <2>2. QED
    BY <1>1, <1>2, <2>1, CallComesTo, LooksFollows, WriteFollows, SaveFollows, ReturnFollows,
       EndFollows, EnterFollows, ExitFollows, CloseFollows
<1>3. ~ ConnectionCommit /\ ~ ConnectionRollback
  BY <1>1 DEF ConnectionCommit, ConnectionRollback, Disciplined
<1>4. ASSUME UNCHANGED vars PROVE Follows
  <2>1. CASE Ctx = {}
    <3>1. ~ Active /\ ~ Active' /\ db' = db
      BY <1>4, <2>1 DEF Active, vars
    <3>2. db.work = db.durable
      BY <3>1, IdleIsSettled DEF PromiseInv
    <3>3. QED
      BY <3>1, <3>2, ToIdle DEF PromiseInv
  <2>2. ASSUME NEW c \in Ctx PROVE Follows
    <3>1. db' = db /\ (Holds(c)' <=> Holds(c)) /\ ctx' = ctx
      BY <1>4 DEF Holds, vars
    <3>2. QED
      BY <3>1, SameView
  <2>3. QED
    BY <2>1, <2>2
<1>5. QED
  BY <1>2, <1>3, <1>4 DEF Next

(* While the connection is open, and names are used once while they are     *)
(* live, every savepoint the scope still lists exists on the server, in the *)
(* same order.                                                              *)
THEOREM SavepointsAreLive == ASSUME Strict, Alone PROVE Spec => []SavepointsLive
<1>1. Init => /\ DepthTellsTheTruth /\ BooksFollowScope /\ NothingUnsettled
              /\ PointsInOrder /\ UniqueNames(db.marks)
  BY NoMarks DEF Init, FreshBooks, FreshSession, DepthTellsTheTruth, BooksFollowScope, Holds,
         NothingUnsettled, Sound, PointsInOrder
<1>2. TypeOK /\ NothingUnsettled /\ [Next]_vars => NothingUnsettled'
  BY UnsettledInductive
<1>3. /\ TypeOK /\ NothingUnsettled /\ DepthTellsTheTruth /\ BooksFollowScope
      /\ TypeOK' /\ NothingUnsettled' /\ [Next]_vars
      => DepthTellsTheTruth' /\ BooksFollowScope'
  BY TruthInductive DEF Truth, Strict
<1>4. /\ TypeOK /\ NothingUnsettled /\ DepthTellsTheTruth /\ BooksFollowScope
      /\ PointsInOrder /\ UniqueNames(db.marks) /\ TypeOK' /\ [Next]_vars
      => PointsInOrder' /\ UniqueNames(db.marks)'
  BY EveryStepFollows DEF PromiseInv, Truth, Follows
<1>5. TypeOK /\ PointsInOrder => SavepointsLive
  BY InOrderEmbedded DEF TypeOK, PointsInOrder, SavepointsLive
<1>6. QED
  BY <1>1, <1>2, <1>3, <1>4, <1>5, TypeCorrect, PTL DEF Spec

(* A context with a connection of its own keeps the promise of TxnScope, for*)
(* any sequence of calls: one scope after the other, each kept whole by its *)
(* commit or not at all, with savepoints that bring back exactly the work   *)
(* there was.                                                               *)
THEOREM PromiseKept == ASSUME Strict, Alone PROVE Spec => ScopePromise
<1>1. Init => /\ DepthTellsTheTruth /\ BooksFollowScope /\ NothingUnsettled
              /\ PointsInOrder /\ UniqueNames(db.marks) /\ Promise!Init
  <2> SUFFICES ASSUME Init
               PROVE  /\ DepthTellsTheTruth /\ BooksFollowScope /\ NothingUnsettled
                      /\ PointsInOrder /\ UniqueNames(db.marks) /\ Promise!Init
    OBVIOUS
  <2>1. /\ \A c \in Ctx : ~ Holds(c) /\ ctx[c] = FreshBooks /\ scope[c] = "new"
        /\ db = FreshSession
    BY DEF Init, Holds
  <2>2. ~ Active /\ FreshBooks.name = NoName
    BY <2>1 DEF Active, FreshBooks
  <2>3. QED
    BY <2>1, <2>2, ViewIdle, NoMarks
       DEF FreshSession, Promise!Init, DepthTellsTheTruth, BooksFollowScope, NothingUnsettled,
           Sound, PointsInOrder
<1>2. TypeOK /\ NothingUnsettled /\ [Next]_vars => NothingUnsettled'
  BY UnsettledInductive
<1>3. /\ TypeOK /\ NothingUnsettled /\ DepthTellsTheTruth /\ BooksFollowScope
      /\ TypeOK' /\ NothingUnsettled' /\ [Next]_vars
      => DepthTellsTheTruth' /\ BooksFollowScope'
  BY TruthInductive DEF Truth, Strict
<1>4. /\ TypeOK /\ NothingUnsettled /\ DepthTellsTheTruth /\ BooksFollowScope
      /\ PointsInOrder /\ UniqueNames(db.marks) /\ TypeOK' /\ [Next]_vars
      => PointsInOrder' /\ UniqueNames(db.marks)' /\ [Promise!Next]_(Promise!vars)
  BY EveryStepFollows DEF PromiseInv, Truth, Follows
<1>5. QED
  BY <1>1, <1>2, <1>3, <1>4, TypeCorrect, PTL DEF Spec, ScopePromise, Promise!Spec
=============================================================================
