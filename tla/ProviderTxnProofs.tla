-------------------------- MODULE ProviderTxnProofs --------------------------
(***************************************************************************)
(* Theorems of ProviderTxn, for every choice of the constants: all eight   *)
(* classes of contexts, every discipline of their clients, any faults.     *)
(*                                                                         *)
(* Of a call the proofs need to know only its outcomes.  Below, every call *)
(* of every class is shown to have good outcomes, whatever the clients do; *)
(* then that the calls that are left when clients keep to `with` make work *)
(* durable in the last commit alone.                                       *)
(***************************************************************************)
EXTENDS ProviderTxn, TxnLemmas

(* A connection that has no transaction has nothing that is not durable,    *)
(* and a closed one has no transaction; the server's level says whether     *)
(* there is one, where the server counts; without transactions there is     *)
(* never one.                                                               *)
Settles(d) ==
  /\ d \in Connection
  /\ d.closed => ~ d.open
  /\ ~ d.open => d.work = d.durable /\ d.marks = <<>>
  /\ class \in Tsql => (d.open <=> d.level > 0)
  /\ class \notin Tsql => d.level = 0
  /\ class \in Sessions \cup NoTransactions => ~ d.open

(* What holds of an object and its connection whatever was called: an open  *)
(* client session belongs to a BEGIN, and is the context's own business;    *)
(* only a closed connection was let go of; the shim has an inner context    *)
(* before it counts a BEGIN.                                                *)
Sound(o, d) ==
  /\ o \in Object
  /\ o.cursor = "open" => o.books.depth > 0 /\ ~ o.delegate
  /\ class \notin Sessions => o.cursor = "none"
  /\ class \in Tsql /\ o.gone => d.closed
  /\ class = "asyncSqlite" /\ o.books.depth > 0 => o.made

CallsInv ==
  /\ class \in Classes /\ habits \in Disciplines /\ ok \in BOOLEAN
  /\ scope \in [Ctx -> {"new", "refused", "inside", "left"}]
  /\ ctx \in [Ctx -> Object]
  /\ Settles(db)
  /\ \A c \in Ctx : Sound(ctx[c], db)

(* A context inside its block has a BEGIN to finish, of which the server    *)
(* knows, or is finished and has left no transaction open.                  *)
Working(o, d) ==
  /\ class # "asyncMysql" /\ ~ o.gone
  /\ class = "asyncSqlite" => o.made
  /\ o.books.depth > 0 \/ (o.books.depth \in {Committed, RolledBack} /\ ~ d.open)
  /\ class \in Tsql /\ o.books.depth > 0 =>
       d.closed \/ d.level \in o.books.depth .. (o.books.depth + 1)

(* Clients that keep to `with` use one scope after another, and the         *)
(* connection is clean whenever none of them is being executed.             *)
WithInv ==
  habits = {} =>
    /\ \A c, e \in Ctx : Inside(c) /\ Inside(e) => c = e
    /\ \A c \in Ctx : scope[c] = "new" =>
         ctx[c].books.depth = 0 /\ ~ ctx[c].gone /\ ~ ctx[c].made
    /\ \A c \in Ctx : Inside(c) => Working(ctx[c], db)
    /\ (\A c \in Ctx : ~ Inside(c)) => ~ db.open
    /\ \A c \in Owners : scope[c] = "left" => db.closed

-----------------------------------------------------------------------------
(* Statements. *)

(* What a statement is, by its kind.                                        *)
LEMMA StmtKinds ==
  ASSUME NEW s \in Stmt
  PROVE  /\ s.op \in {"begin", "rollback", "savepoint", "rollbackTo", "commit", "insert"}
         /\ s.op \in {"begin", "rollback"} => s.arg \in Name \cup {NoName}
         /\ s.op \in {"savepoint", "rollbackTo"} => s.arg \in Name
         /\ s.op = "commit" <=> s = Commit
         /\ s.op = "insert" => s.arg \in Row
         /\ s # Scrub /\ s # Raise
  BY DEF Stmt, Commit, Scrub, Raise

(* The statements the methods make are statements.                          *)
LEMMA StmtMade ==
  /\ Commit \in Stmt /\ Rollback(NoName) \in Stmt
  /\ \A n \in Name : Savepoint(n) \in Stmt /\ RollbackTo(n) \in Stmt
  /\ \A n \in Name \cup {NoName} : Begin(n) \in Stmt /\ Rollback(n) \in Stmt
  /\ \A r \in Row : Insert(r) \in Stmt
  BY DEF Stmt, Commit, Rollback, Savepoint, RollbackTo, Begin, Insert

-----------------------------------------------------------------------------
(* The connection. *)

(* e is a connection, with these fields. *)
Is(e, closed, open, durable, work, marks, level) ==
  /\ e \in Connection
  /\ (e.closed <=> closed) /\ (e.open <=> open)
  /\ e.durable = durable /\ e.work = work /\ e.marks = marks /\ e.level = level

(* What becomes of the fields of a connection.                              *)
LEMMA SettledIs ==
  ASSUME NEW d \in Connection, NEW rows \in SUBSET Row
  PROVE  Is(Settled(d, rows), d.closed, FALSE, rows, rows, <<>>, d.level)
<1>1. <<>> \in Seq(Mark)
  OBVIOUS
<1>2. \A m \in Seq(Mark) :
        LET e == [d EXCEPT !.open = FALSE, !.durable = rows, !.work = rows, !.marks = m]
        IN  /\ e \in Connection /\ e.closed = d.closed /\ e.open = FALSE
            /\ e.durable = rows /\ e.work = rows /\ e.marks = m /\ e.level = d.level
  BY DEF Connection
<1>3. QED
  BY <1>1, <1>2 DEF Settled, Is

LEMMA DiscardIs ==
  ASSUME NEW d \in Connection
  PROVE  Is(Discard(d), d.closed, FALSE, d.durable, d.durable, <<>>, d.level)
  BY SettledIs DEF Discard, Connection

LEMMA QuietIs ==
  ASSUME NEW d \in Connection
  PROVE  Is(Quiet(d), d.closed, FALSE, d.durable, d.durable, <<>>, 0)
<1>1. \A e \in Connection : Is([e EXCEPT !.level = 0], e.closed, e.open, e.durable, e.work, e.marks, 0)
  BY DEF Connection, Is
<1>2. QED
  BY <1>1, DiscardIs DEF Quiet, Is

LEMMA DeadIs ==
  ASSUME NEW d \in Connection
  PROVE  Is(Dead(d), TRUE, FALSE, d.durable, d.durable, <<>>, 0)
<1>1. \A e \in Connection : Is([e EXCEPT !.closed = TRUE], TRUE, e.open, e.durable, e.work, e.marks, e.level)
  BY DEF Connection, Is
<1>2. QED
  BY <1>1, QuietIs DEF Dead, Is

LEMMA LeveledIs ==
  ASSUME NEW d \in Connection, NEW n \in Nat
  PROVE  Is(Leveled(d, n), d.closed, n > 0, d.durable, d.work, d.marks, n)
<1>1. \A b \in BOOLEAN : Is([d EXCEPT !.level = n, !.open = b],
                             d.closed, b, d.durable, d.work, d.marks, n)
  BY DEF Connection, Is
<1>2. (n > 0) \in BOOLEAN
  OBVIOUS
<1>3. QED
  BY <1>1, <1>2 DEF Leveled

LEMMA RefuseIs ==
  ASSUME NEW d \in Connection, NEW s
  PROVE  /\ s.op = "insert" /\ ~ d.closed =>
              Is(Refuse(d, s), d.closed, TRUE, d.durable, d.work, d.marks, d.level)
         /\ s.op # "insert" \/ d.closed => Refuse(d, s) = d
<1>1. Is([d EXCEPT !.open = TRUE], d.closed, TRUE, d.durable, d.work, d.marks, d.level)
  BY DEF Connection, Is
<1>2. QED
  BY <1>1 DEF Refuse

(* ROLLBACK TO changes the work and the savepoints, nothing else.           *)
LEMMA ReturnToIs ==
  ASSUME NEW d \in Connection, NEW n, Occurs(MarkNames(d), n)
  PROVE  LET e == ReturnTo(d, LastOf(MarkNames(d), n)) IN
         /\ d.marks # <<>>
         /\ Is(e, d.closed, d.open, d.durable, e.work, e.marks, d.level)
<1> DEFINE k == LastOf(MarkNames(d), n)
<1>1. d.marks \in Seq(Mark) /\ MarkNames(d) \in Seq(Name) /\ Len(MarkNames(d)) = Len(d.marks)
  <2>1. d.marks \in Seq(Mark) /\ Len(d.marks) \in Nat
    BY DEF Connection
  <2>2. \A m \in Mark : m.name \in Name
    BY DEF Mark
  <2>3. \A i \in 1..Len(d.marks) : d.marks[i].name \in Name
    BY <2>1, <2>2
  <2>4. QED
    BY <2>1, <2>3, IsASeq DEF MarkNames
<1>2. k \in 1..Len(d.marks)
  BY <1>1, LastOfOccurs
<1> HIDE DEF k
<1>3. d.marks[k].rows \in SUBSET Row /\ d.marks # <<>>
  <2>1. d.marks[k] \in Mark
    BY <1>1, <1>2
  <2>2. \A m \in Mark : m.rows \in SUBSET Row
    BY DEF Mark
  <2>3. QED
    BY <1>1, <1>2, <2>1, <2>2
<1>4. SubSeq(d.marks, 1, k) \in Seq(Mark)
  BY <1>1, <1>2
<1>5. \A w \in SUBSET Row, m \in Seq(Mark) :
        Is([d EXCEPT !.work = w, !.marks = m], d.closed, d.open, d.durable, w, m, d.level)
  BY DEF Connection, Is
<1>6. Is(ReturnTo(d, k), d.closed, d.open, d.durable, d.marks[k].rows, SubSeq(d.marks, 1, k), d.level)
  BY <1>3, <1>4, <1>5 DEF ReturnTo
<1>7. QED
  BY <1>3, <1>6 DEF k, Is

(* What the server answers: it did what it was asked for, it refused, or    *)
(* the connection was lost.                                                 *)
LEMMA RepliesAre ==
  ASSUME NEW d, NEW s \in Stmt, NEW accepts \in BOOLEAN, NEW results,
         NEW r \in Replies(d, s, accepts, results)
  PROVE  /\ r = [db |-> r.db, ok |-> r.ok]
         /\ \/ r.ok = TRUE /\ accepts /\ ~ d.closed /\ r.db \in results
            \/ /\ r.ok = FALSE /\ r.db = Refuse(d, s)
               /\ s.op = "insert" \/ d.closed \/ ~ accepts
            \/ r.ok = FALSE /\ r.db = Dead(d)
<1>1. CASE r \in {Reply(e, TRUE) : e \in IF accepts /\ ~ d.closed THEN results ELSE {}}
  BY <1>1 DEF Reply
<1>2. CASE r \in {Reply(Refuse(d, s), FALSE) : f \in IF accepts /\ ~ d.closed
                                                    THEN Faults \cap {s.op} ELSE {s.op}}
  <2>1. r = Reply(Refuse(d, s), FALSE)
    BY <1>2
  <2>2. accepts /\ ~ d.closed => s.op \in Faults
    BY <1>2
  <2>3. s.op \in Faults => s.op = "insert"
    BY StmtKinds, ProviderAssumption
  <2>4. QED
    BY <2>1, <2>2, <2>3 DEF Reply
<1>3. CASE r \in {Reply(Dead(d), FALSE) : f \in Faults \cap {"lost"}}
  BY <1>3 DEF Reply
<1>4. QED
  BY <1>1, <1>2, <1>3 DEF Replies

(* A connection that was lost is as good as closed.                         *)
LEMMA DeadSettles ==
  ASSUME NEW d \in Connection
  PROVE  Settles(Dead(d)) /\ Dead(d).closed
  BY DeadIs DEF Settles, Is

-----------------------------------------------------------------------------
(* MSSQL. *)

(* What it takes for a connection of MSSQL to be settled.                   *)
LEMMA TsqlSettles ==
  ASSUME class \in Tsql, NEW e \in Connection,
         e.closed => ~ e.open, e.open <=> e.level > 0,
         ~ e.open => e.work = e.durable /\ e.marks = <<>>
  PROVE  Settles(e)
  BY DEF Settles, Tsql, Sessions, NoTransactions

(* One level less, whatever the server's level was.                         *)
LEMMA OneLevelLessIs ==
  ASSUME class \in Tsql, NEW d, Settles(d)
  PROVE  /\ d.level <= 1 => Is(OneLevelLess(d), d.closed, FALSE, d.work, d.work, <<>>, 0)
         /\ d.level > 1 => Is(OneLevelLess(d), d.closed, TRUE, d.durable, d.work, d.marks, d.level - 1)
<1>1. d \in Connection /\ d.level \in Nat /\ d.work \in SUBSET Row
  BY DEF Settles, Connection
<1>2. \A e \in Connection : Is([e EXCEPT !.level = 0], e.closed, e.open, e.durable, e.work, e.marks, 0)
  BY DEF Connection, Is
<1>3. CASE d.level <= 1
  BY <1>1, <1>2, <1>3, SettledIs DEF OneLevelLess, Is
<1>4. CASE d.level > 1
  <2>1. d.level - 1 \in Nat /\ d.level - 1 > 0
    BY <1>1, <1>4
  <2>2. Is(Leveled(d, d.level - 1), d.closed, d.level - 1 > 0, d.durable, d.work, d.marks, d.level - 1)
    BY <1>1, <2>1, LeveledIs
  <2>3. QED
    BY <1>1, <1>4, <2>1, <2>2 DEF OneLevelLess, Is
<1>5. QED
  BY <1>1, <1>3, <1>4

(* The driver's own commit() ends a level or all, and makes what it ends    *)
(* durable.                                                                 *)
LEMMA DriverCommitsAre ==
  ASSUME class \in Tsql, NEW d, Settles(d), NEW r \in DriverCommits(d)
  PROVE  /\ r.ok \in BOOLEAN /\ Settles(r.db) /\ (d.closed => r.db.closed)
         /\ d.level <= 1 => ~ r.db.open
         /\ d.level <= 1 /\ r.ok => r.db.durable = d.work
<1> DEFINE whole == [Settled(d, d.work) EXCEPT !.level = 0]
<1>1. d \in Connection /\ d.level \in Nat /\ d.work \in SUBSET Row
  BY DEF Settles, Connection
<1>2. Is(whole, d.closed, FALSE, d.work, d.work, <<>>, 0)
  <2>1. \A e \in Connection : Is([e EXCEPT !.level = 0], e.closed, e.open, e.durable, e.work, e.marks, 0)
    BY DEF Connection, Is
  <2>2. QED
    BY <1>1, <2>1, SettledIs DEF Is
<1>3. \/ r.ok = TRUE /\ ~ d.closed /\ r.db \in {OneLevelLess(d), whole}
      \/ r.ok = FALSE /\ r.db = Refuse(d, Commit) /\ d.closed
      \/ r.ok = FALSE /\ r.db = Dead(d)
  <2>1. r \in Replies(d, Commit, TRUE, {OneLevelLess(d), whole})
    BY DEF DriverCommits
  <2>2. Commit \in Stmt
    BY StmtMade
  <2> HIDE DEF whole
  <2>3. QED
    BY <2>1, <2>2, RepliesAre DEF Commit
<1>4. Refuse(d, Commit) = d
  BY <1>1, RefuseIs DEF Commit
<1> HIDE DEF whole
<1>5. Settles(whole)
  BY <1>2, TsqlSettles DEF Is
<1>6. CASE r.ok = TRUE /\ ~ d.closed /\ r.db = OneLevelLess(d)
  <2>1. CASE d.level <= 1
    <3>1. Is(OneLevelLess(d), d.closed, FALSE, d.work, d.work, <<>>, 0)
      BY <2>1, OneLevelLessIs
    <3>2. Settles(OneLevelLess(d))
      BY <3>1, TsqlSettles DEF Is
    <3>3. QED
      BY <1>6, <3>1, <3>2 DEF Is
  <2>2. CASE d.level > 1
    <3>1. Is(OneLevelLess(d), d.closed, TRUE, d.durable, d.work, d.marks, d.level - 1)
      BY <2>2, OneLevelLessIs
    <3>2. Settles(OneLevelLess(d))
      <4> DEFINE e == OneLevelLess(d)
      <4>1. e \in Connection /\ ~ e.closed /\ e.open /\ e.level = d.level - 1
        BY <1>6, <3>1 DEF Is
      <4>2. d.level - 1 > 0
        BY <1>1, <2>2
      <4> HIDE DEF e
      <4>3. Settles(e)
        BY <4>1, <4>2, TsqlSettles
      <4>4. QED
        BY <4>3 DEF e
    <3>3. ~ (d.level <= 1)
      BY <1>1, <2>2
    <3>4. QED
      BY <1>6, <3>2, <3>3
  <2>3. QED
    BY <1>1, <2>1, <2>2
<1>7. CASE r.ok = TRUE /\ ~ d.closed /\ r.db = whole
  BY <1>2, <1>5, <1>7 DEF Is
<1>8. CASE r.ok = FALSE /\ r.db = Dead(d)
  BY <1>1, <1>8, DeadSettles, DeadIs DEF Is
<1>9. CASE r.ok = FALSE /\ r.db = d /\ d.closed
  BY <1>9 DEF Settles
<1>10. QED
  BY <1>3, <1>4, <1>6, <1>7, <1>8, <1>9

(* What the server answers to a statement, and what that does to its level: *)
(* work becomes durable in the COMMIT of the last level only.               *)
TsqlAnswer(d, s, r) ==
  /\ r.ok \in BOOLEAN /\ Settles(r.db)
  /\ d.closed => r.db.closed
  /\ r.ok => ~ d.closed /\ ~ r.db.closed
  /\ r.db.durable # d.durable => s.op = "commit" /\ d.level <= 1 /\ ~ d.closed
  /\ s.op = "rollback" => ~ r.db.open
  /\ s.op = "begin" /\ ~ r.ok => r.db.closed
  /\ s.op = "commit" /\ ~ r.ok => ~ r.db.open
  /\ s.op = "begin" /\ ~ r.db.closed =>
       r.db.level = d.level + 1 \/ (d.level = 0 /\ r.db.level = 2)
  /\ s.op \in {"savepoint", "rollbackTo"} /\ ~ r.db.closed => r.db.level = d.level
  /\ s.op = "insert" /\ ~ r.db.closed /\ d.level > 0 => r.db.level = d.level
  /\ s.op = "commit" /\ ~ r.db.closed /\ d.level > 0 => r.db.level = d.level - 1
  /\ s.op = "commit" /\ r.ok =>
       /\ d.level > 0
       /\ d.level <= 1 => r.db.durable = d.work /\ r.db.work = d.work
       /\ d.level > 1 => r.db.work = d.work

(* The connection is patched where the driver opens a level by itself.      *)
Patched(e) == IF e.open /\ e.level = 0 THEN Leveled(e, 1) ELSE e

LEMMA TsqlRepliesSplit ==
  ASSUME class \in Tsql, NEW d, Settles(d), NEW s \in Stmt, NEW r \in TsqlReplies(d, s)
  PROVE  \/ /\ r.ok = TRUE /\ TsqlAccepts(d, s) /\ ~ d.closed
            /\ \E e \in TsqlResults(d, s) : r.db = Patched(e)
         \/ r.ok = FALSE /\ r.db = Dead(d)
         \/ /\ r.ok = FALSE /\ r.db = Patched(Refuse(d, s))
            /\ s.op = "insert" \/ d.closed \/ ~ TsqlAccepts(d, s)
<1>1. PICK t \in Replies(d, s, TsqlAccepts(d, s), TsqlResults(d, s)) :
        r = [t EXCEPT !.db = Patched(t.db)]
  BY DEF TsqlReplies, Patched
<1>2. TsqlAccepts(d, s) \in BOOLEAN
  BY DEF TsqlAccepts
<1>3. /\ t = [db |-> t.db, ok |-> t.ok]
      /\ \/ t.ok = TRUE /\ TsqlAccepts(d, s) /\ ~ d.closed /\ t.db \in TsqlResults(d, s)
         \/ /\ t.ok = FALSE /\ t.db = Refuse(d, s)
            /\ s.op = "insert" \/ d.closed \/ ~ TsqlAccepts(d, s)
         \/ t.ok = FALSE /\ t.db = Dead(d)
  BY <1>1, <1>2, RepliesAre
<1>4. r.ok = t.ok /\ r.db = Patched(t.db)
  BY <1>1, <1>3
<1>5. d \in Connection
  BY DEF Settles
<1>6. Patched(Dead(d)) = Dead(d)
  BY <1>5, DeadIs DEF Patched, Is
<1>7. QED
  BY <1>3, <1>4, <1>6

LEMMA PatchedIs ==
  ASSUME NEW e \in Connection
  PROVE  /\ e.open /\ e.level = 0 => Is(Patched(e), e.closed, TRUE, e.durable, e.work, e.marks, 1)
         /\ ~ (e.open /\ e.level = 0) => Patched(e) = e
<1>1. Is(Leveled(e, 1), e.closed, 1 > 0, e.durable, e.work, e.marks, 1)
  BY LeveledIs
<1>2. QED
  BY <1>1 DEF Patched, Is

(* The results of a statement the server accepts.                           *)
LEMMA TsqlResultsAre ==
  ASSUME class \in Tsql, NEW d, Settles(d), ~ d.closed, NEW s \in Stmt,
         TsqlAccepts(d, s), NEW e \in TsqlResults(d, s)
  PROVE  /\ Settles(e) /\ ~ e.closed
         /\ s.op # "commit" \/ d.level > 1 => e.durable = d.durable
         /\ s.op = "begin" => e.level = d.level + 1 \/ (d.level = 0 /\ e.level = 2)
         /\ s.op \in {"savepoint", "rollbackTo"} => e.level = d.level
         /\ s.op = "insert" /\ d.level > 0 => e.level = d.level
         /\ s.op = "rollback" => ~ e.open
         /\ s.op = "commit" => /\ d.level > 0 /\ e.level = d.level - 1 /\ e.work = d.work
                               /\ d.level <= 1 => e.durable = d.work
<1>1. /\ d \in Connection /\ d.level \in Nat /\ d.work \in SUBSET Row /\ d.marks \in Seq(Mark)
      /\ d.open <=> d.level > 0
  BY DEF Settles, Connection
<1>2. CASE s.op = "begin"
  <2>1. PICK n \in {d.level + 1, 2} :
          e = Leveled(d, n) /\ (n = d.level + 1 \/ (d.level = 0 /\ n = 2))
    <3>1. e \in {Leveled(d, d.level + 1)} \cup {Leveled(d, 2) : z \in {0} \cap {d.level}}
      BY <1>2 DEF TsqlResults
    <3>2. QED
      BY <3>1
  <2>2. n \in Nat /\ n > 0
    BY <1>1, <2>1
  <2>3. Is(e, d.closed, n > 0, d.durable, d.work, d.marks, n)
    BY <1>1, <2>1, <2>2, LeveledIs
  <2>4. Settles(e)
    BY <2>2, <2>3, TsqlSettles DEF Is
  <2>5. QED
    BY <1>2, <2>1, <2>3, <2>4 DEF Is
<1>3. CASE s.op = "savepoint"
  <2>1. d.level > 0 /\ s.arg \in Name
    BY <1>3, StmtKinds DEF TsqlAccepts
  <2>2. [name |-> s.arg, rows |-> d.work] \in Mark
    BY <1>1, <2>1 DEF Mark
  <2>3. \A m \in Mark :
          Is([d EXCEPT !.marks = Append(@, m)],
             d.closed, d.open, d.durable, d.work, Append(d.marks, m), d.level)
    BY DEF Connection, Is, Settles
  <2>4. e = [d EXCEPT !.marks = Append(@, [name |-> s.arg, rows |-> d.work])]
    BY <1>3 DEF TsqlResults
  <2>5. /\ e \in Connection /\ ~ e.closed /\ e.open /\ e.durable = d.durable
        /\ e.level = d.level
    BY <1>1, <2>1, <2>2, <2>3, <2>4 DEF Is
  <2>6. Settles(e)
    BY <2>1, <2>5, TsqlSettles
  <2>7. QED
    BY <1>3, <2>5, <2>6
<1>4. CASE s.op = "insert"
  <2> DEFINE n == IF d.level = 0 THEN 1 ELSE d.level
             f == Leveled(d, n)
  <2>1. n \in Nat /\ n > 0 /\ s.arg \in Row
    BY <1>1, <1>4, StmtKinds
  <2>2. e = [f EXCEPT !.work = @ \cup {s.arg}]
    BY <1>4 DEF TsqlResults
  <2> HIDE DEF n
  <2>3. Is(f, d.closed, n > 0, d.durable, d.work, d.marks, n)
    BY <1>1, <2>1, LeveledIs
  <2>4. f \in Connection /\ ~ f.closed /\ f.open /\ f.durable = d.durable /\ f.level = n
    BY <2>1, <2>3 DEF Is
  <2> HIDE DEF f
  <2>5. \A r \in Row : Is([f EXCEPT !.work = @ \cup {r}],
                          f.closed, f.open, f.durable, f.work \cup {r}, f.marks, f.level)
    BY <2>4 DEF Connection, Is
  <2>6. e \in Connection /\ ~ e.closed /\ e.open /\ e.durable = d.durable /\ e.level = n
    BY <2>1, <2>2, <2>4, <2>5 DEF Is
  <2>7. Settles(e)
    BY <2>1, <2>6, TsqlSettles
  <2>8. d.level > 0 => n = d.level
    BY <1>1 DEF n
  <2>9. QED
    BY <1>4, <2>6, <2>7, <2>8
<1>5. CASE s.op = "rollbackTo"
  <2>1. Occurs(MarkNames(d), s.arg)
    BY <1>5 DEF TsqlAccepts
  <2>2. e = ReturnTo(d, LastOf(MarkNames(d), s.arg))
    BY <1>5 DEF TsqlResults
  <2>3. d.marks # <<>> /\ Is(e, d.closed, d.open, d.durable, e.work, e.marks, d.level)
    BY <1>1, <2>1, <2>2, ReturnToIs
  <2>4. d.open
    BY <2>3 DEF Settles
  <2>5. Settles(e)
    BY <1>1, <2>3, <2>4, TsqlSettles DEF Is
  <2>6. QED
    BY <1>5, <2>3, <2>5 DEF Is
<1>6. CASE s.op = "commit"
  <2>1. d.level > 0 /\ e = OneLevelLess(d)
    BY <1>6 DEF TsqlAccepts, TsqlResults
  <2>2. CASE d.level <= 1
    <3>1. Is(e, d.closed, FALSE, d.work, d.work, <<>>, 0)
      BY <2>1, <2>2, OneLevelLessIs
    <3>2. Settles(e)
      BY <3>1, TsqlSettles DEF Is
    <3>3. d.level = 1
      BY <1>1, <2>1, <2>2
    <3>4. QED
      BY <1>6, <3>1, <3>2, <3>3 DEF Is
  <2>3. CASE d.level > 1
    <3>1. Is(e, d.closed, TRUE, d.durable, d.work, d.marks, d.level - 1)
      BY <2>1, <2>3, OneLevelLessIs
    <3>2. /\ e \in Connection /\ ~ e.closed /\ e.open /\ e.level = d.level - 1
          /\ e.work = d.work /\ e.durable = d.durable
      BY <3>1 DEF Is
    <3>3. d.level - 1 > 0 /\ ~ (d.level <= 1)
      BY <1>1, <2>3
    <3>4. Settles(e)
      BY <3>2, <3>3, TsqlSettles
    <3>5. QED
      BY <1>6, <2>1, <3>2, <3>3, <3>4
  <2>4. QED
    BY <1>1, <2>2, <2>3
<1>7. CASE s.op = "rollback"
  <2>1. e = Quiet(d)
    BY <1>7 DEF TsqlResults
  <2>2. Is(e, d.closed, FALSE, d.durable, d.durable, <<>>, 0)
    BY <1>1, <2>1, QuietIs
  <2>3. Settles(e)
    BY <2>2, TsqlSettles DEF Is
  <2>4. QED
    BY <1>7, <2>2, <2>3 DEF Is
<1>8. QED
  BY <1>2, <1>3, <1>4, <1>5, <1>6, <1>7, StmtKinds

LEMMA TsqlAnswered ==
  ASSUME class \in Tsql, NEW d, Settles(d), NEW s \in Stmt, NEW r \in TsqlReplies(d, s)
  PROVE  TsqlAnswer(d, s, r)
<1>1. d \in Connection /\ d.level \in Nat /\ (d.closed => ~ d.open) /\ (d.open <=> d.level > 0)
  BY DEF Settles, Connection
<1>2. \A e : Settles(e) => Patched(e) = e
  <2>1. TAKE e
  <2>2. HAVE Settles(e)
  <2>3. e \in Connection /\ ~ (e.open /\ e.level = 0)
    BY <2>2 DEF Settles
  <2>4. QED
    BY <2>3, PatchedIs
<1>3. CASE /\ r.ok = TRUE /\ TsqlAccepts(d, s) /\ ~ d.closed
           /\ \E e \in TsqlResults(d, s) : r.db = Patched(e)
  <2>1. PICK e \in TsqlResults(d, s) : r.db = Patched(e)
    BY <1>3
  <2>2. /\ Settles(e) /\ ~ e.closed
        /\ s.op # "commit" \/ d.level > 1 => e.durable = d.durable
        /\ s.op = "begin" => e.level = d.level + 1 \/ (d.level = 0 /\ e.level = 2)
        /\ s.op \in {"savepoint", "rollbackTo"} => e.level = d.level
        /\ s.op = "insert" /\ d.level > 0 => e.level = d.level
        /\ s.op = "rollback" => ~ e.open
        /\ s.op = "commit" => /\ d.level > 0 /\ e.level = d.level - 1 /\ e.work = d.work
                              /\ d.level <= 1 => e.durable = d.work
    BY <1>3, <2>1, TsqlResultsAre
  <2>3. r.db = e
    BY <1>2, <2>1, <2>2
  <2>4. d.level > 1 \/ d.level <= 1
    BY <1>1
  <2>5. QED
    BY <1>3, <2>2, <2>3, <2>4, Zenon DEF TsqlAnswer
<1>4. CASE r.ok = FALSE /\ r.db = Dead(d)
  <2>1. Settles(r.db) /\ r.db.closed /\ r.db.durable = d.durable /\ ~ r.db.open
    BY <1>1, <1>4, DeadSettles, DeadIs DEF Is
  <2>2. QED
    BY <1>4, <2>1 DEF TsqlAnswer
<1>5. CASE /\ r.ok = FALSE /\ r.db = Patched(Refuse(d, s))
           /\ s.op = "insert" \/ d.closed \/ ~ TsqlAccepts(d, s)
  <2>1. CASE s.op = "insert" /\ ~ d.closed
    <3> DEFINE f == Refuse(d, s)
    <3>1. Is(f, d.closed, TRUE, d.durable, d.work, d.marks, d.level)
      BY <1>1, <2>1, RefuseIs
    <3>2. /\ f \in Connection /\ ~ f.closed /\ f.open /\ f.durable = d.durable
          /\ f.level = d.level
      BY <2>1, <3>1 DEF Is
    <3> HIDE DEF f
    <3>3. /\ f.level = 0 => Is(Patched(f), f.closed, TRUE, f.durable, f.work, f.marks, 1)
          /\ f.level # 0 => Patched(f) = f
      BY <3>2, PatchedIs
    <3>4. r.db = Patched(f)
      BY <1>5 DEF f
    <3>5. /\ r.db \in Connection /\ ~ r.db.closed /\ r.db.open /\ r.db.durable = d.durable
          /\ r.db.level > 0 /\ (d.level > 0 => r.db.level = d.level)
      <4>1. CASE f.level = 0
        BY <1>1, <3>2, <3>3, <3>4, <4>1 DEF Is
      <4>2. CASE f.level # 0
        BY <1>1, <3>2, <3>3, <3>4, <4>2
      <4>3. QED
        BY <4>1, <4>2
    <3>6. Settles(r.db)
      BY <3>5, TsqlSettles
    <3>7. QED
      BY <1>5, <2>1, <3>5, <3>6 DEF TsqlAnswer
  <2>2. CASE s.op # "insert" \/ d.closed
    <3>1. r.db = d
      BY <1>1, <1>2, <1>5, <2>2, RefuseIs
    <3>2. CASE d.closed
      BY <1>1, <1>5, <3>1, <3>2 DEF TsqlAnswer
    <3>3. CASE ~ d.closed /\ s.op # "insert"
      <4>1. ~ TsqlAccepts(d, s)
        BY <1>5, <3>3
      <4>2. /\ s.op # "begin"
            /\ s.op \in {"commit", "rollback"} => ~ (d.level > 0)
        BY <3>3, <4>1 DEF TsqlAccepts
      <4>3. QED
        BY <1>1, <1>5, <3>1, <3>3, <4>2 DEF TsqlAnswer
    <3>4. QED
      BY <2>2, <3>2, <3>3
  <2>3. QED
    BY <2>1, <2>2
<1>6. QED
  BY <1>3, <1>4, <1>5, TsqlRepliesSplit

-----------------------------------------------------------------------------
(* Books. *)

(* The depth of a context that is not finished is a number.                 *)
LEMMA BooksFields ==
  ASSUME NEW x \in Bookkeeping
  PROVE  /\ x.savepoints \in Seq(Name) /\ x.name \in Name \cup {NoName}
         /\ x.depth \in Nat \/ x.depth \in {Exited, Committed, RolledBack}
         /\ x.depth \in Nat => x.depth \notin Finished
         /\ x.depth \notin Finished => x.depth \in Nat
         /\ ~ Occurs(x.savepoints, NoName)
<1>1. x.savepoints \in Seq(Name) /\ x.name \in Name \cup {NoName}
  BY DEF Bookkeeping
<1>2. x.depth \in Nat \cup Finished
  BY DEF Bookkeeping
<1>3. \A i \in 1..Len(x.savepoints) : x.savepoints[i] # NoName
  BY <1>1, NoNameAssumption
<1>4. QED
  BY <1>1, <1>2, <1>3 DEF Finished, Exited, Committed, RolledBack, Occurs

(* What the methods make of the books.                                      *)
LEMMA BooksMoves ==
  ASSUME NEW x \in Bookkeeping
  PROVE  /\ \A k \in Nat \cup Finished :
              /\ [x EXCEPT !.depth = k] \in Bookkeeping
              /\ [x EXCEPT !.depth = k].depth = k
         /\ \A k \in Nat, n \in Name \cup {NoName} :
              /\ [x EXCEPT !.depth = k, !.name = n] \in Bookkeeping
              /\ [x EXCEPT !.depth = k, !.name = n].depth = k
         /\ \A n \in Name :
              /\ [x EXCEPT !.savepoints = Append(@, n)] \in Bookkeeping
              /\ [x EXCEPT !.savepoints = Append(@, n)].depth = x.depth
         /\ \A n : Occurs(x.savepoints, n) =>
              /\ [x EXCEPT !.savepoints = PopThrough(@, n)] \in Bookkeeping
              /\ [x EXCEPT !.savepoints = PopThrough(@, n)].depth = x.depth
         /\ \A k \in {Committed, RolledBack} :
              FinishedBooks(k) \in Bookkeeping /\ FinishedBooks(k).depth = k
<1>1. x.savepoints \in Seq(Name)
  BY DEF Bookkeeping
<1>2. \A n : Occurs(x.savepoints, n) => n \in Name /\ PopThrough(x.savepoints, n) \in Seq(Name)
  <2>1. \A n : Occurs(x.savepoints, n) => PopThrough(x.savepoints, n) \in Seq(Name)
    BY <1>1, PopThroughPrefix
  <2>2. \A n : Occurs(x.savepoints, n) => n \in Name
    BY <1>1 DEF Occurs
  <2>3. QED
    BY <2>1, <2>2
<1>3. \A p \in Seq(Name) : /\ [x EXCEPT !.savepoints = p] \in Bookkeeping
                           /\ [x EXCEPT !.savepoints = p].depth = x.depth
  BY DEF Bookkeeping
<1>4. \A n \in Name : Append(x.savepoints, n) \in Seq(Name)
  BY <1>1
<1>5. \A k \in Nat \cup Finished :
        [x EXCEPT !.depth = k] \in Bookkeeping /\ [x EXCEPT !.depth = k].depth = k
  BY DEF Bookkeeping
<1>6. \A k \in Nat, n \in Name \cup {NoName} :
        /\ [x EXCEPT !.depth = k, !.name = n] \in Bookkeeping
        /\ [x EXCEPT !.depth = k, !.name = n].depth = k
  BY DEF Bookkeeping
<1>7. \A k \in {Committed, RolledBack} :
        FinishedBooks(k) \in Bookkeeping /\ FinishedBooks(k).depth = k
  <2>1. <<>> \in Seq(Name)
    OBVIOUS
  <2>2. QED
    BY <2>1 DEF FinishedBooks, Bookkeeping, Finished
<1>8. QED
  BY <1>2, <1>3, <1>4, <1>5, <1>6, <1>7

(* What the books and the statement are after __preprocess_sql, whatever    *)
(* the class: a context that is finished raises and stays as it is.         *)
Preprocessed(x, p) ==
  /\ p.books \in Bookkeeping /\ p.stmt \in Stmt \cup {Raise, Scrub}
  /\ x.depth \in Finished => p.books = x /\ p.stmt = Raise

(* An object with other books.                                              *)
LEMMA WithBooks ==
  ASSUME NEW o \in Object, NEW x \in Bookkeeping
  PROVE  LET q == [o EXCEPT !.books = x] IN
         /\ q \in Object /\ q.books = x /\ q.cursor = o.cursor
         /\ (q.gone <=> o.gone) /\ (q.made <=> o.made) /\ (q.delegate <=> o.delegate)
  BY DEF Object
-----------------------------------------------------------------------------
(* What a call may do. *)

(* Whatever clients do: the object and the connection stay sound, a closed  *)
(* connection stays closed, and a finished context stays finished.          *)
Good(o, d, r) ==
  /\ r.ok \in BOOLEAN
  /\ Sound(r.obj, r.db) /\ Settles(r.db)
  /\ d.closed => r.db.closed
  /\ o.books.depth \in Finished =>
       r.obj.books \in {o.books, [o.books EXCEPT !.depth = Exited]}

(* Of a context inside its block: it stays as a context inside its block is,*)
(* and makes work durable only when it is committed.                        *)
Serves(o, d, r) ==
  /\ Good(o, d, r)
  /\ Working(o, d) => Working(r.obj, r.db)
  /\ Working(o, d) /\ class \in Tsql \cup {"asyncSqlite"} /\ r.db.durable # d.durable =>
       o.books.depth > 0 /\ r.obj.books.depth = Committed
-----------------------------------------------------------------------------
(* MSSQL: the calls. *)

(* Which statements are sent, and what the books are by then.               *)
LEMMA MssqlPreprocessed ==
  ASSUME NEW x \in Bookkeeping, NEW s \in Stmt, s.op # "rollbackTo",
         NEW p, p = MssqlPreprocess(x, s)
  PROVE  /\ Preprocessed(x, p) /\ p.stmt # Scrub
         /\ p.stmt = Raise => p.books = x
         /\ p.stmt # Raise =>
              /\ x.depth \in Nat
              /\ s.op = "begin" => p.stmt = s /\ p.books.depth = x.depth + 1
              /\ s.op \in {"savepoint", "insert"} => p.stmt = s /\ p.books.depth = x.depth
              /\ s.op = "commit" =>
                   /\ p.stmt = s /\ x.depth > 0
                   /\ p.books.depth = IF x.depth = 1 THEN Committed ELSE x.depth - 1
              /\ s.op = "rollback" =>
                   /\ x.depth > 0
                   /\ \/ p.stmt.op = "rollbackTo" /\ p.books.depth = x.depth
                      \/ p.stmt = Rollback(NoName) /\ p.books.depth = RolledBack
         /\ s = Rollback(NoName) /\ x.depth > 0 /\ x.depth \notin Finished =>
              p.stmt = Rollback(NoName) /\ p.books.depth = RolledBack
<1>1. /\ x.savepoints \in Seq(Name) /\ x.name \in Name \cup {NoName}
      /\ x.depth \notin Finished => x.depth \in Nat
      /\ ~ Occurs(x.savepoints, NoName)
  BY BooksFields
<1>2. Raise \notin Stmt /\ Scrub # Raise /\ Rollback(NoName) # Raise /\ Rollback(NoName) # Scrub
  BY DEF Stmt, Raise, Scrub, Commit, Rollback
<1>3. CASE x.depth \in Finished
  <2>1. p = Sends(x, Raise)
    BY <1>3 DEF MssqlPreprocess
  <2>2. QED
    BY <1>2, <1>3, <2>1 DEF Preprocessed, Sends
<1>4. CASE x.depth \notin Finished /\ s.op = "begin"
  <2>1. /\ p.stmt = s
        /\ p.books = IF x.depth = 0 THEN [x EXCEPT !.depth = x.depth + 1, !.name = s.arg]
                                    ELSE [x EXCEPT !.depth = x.depth + 1]
    <3>1. [x EXCEPT !.depth = x.depth + 1, !.name = x.name] = [x EXCEPT !.depth = x.depth + 1]
      BY DEF Bookkeeping
    <3>2. p = MssqlBegin(x, s)
      BY <1>4 DEF MssqlPreprocess
    <3>3. CASE x.depth = 0
      BY <3>2, <3>3 DEF MssqlBegin, Sends
    <3>4. CASE x.depth # 0
      BY <3>1, <3>2, <3>4 DEF MssqlBegin, Sends
    <3>5. QED
      BY <3>3, <3>4
  <2>2. x.depth + 1 \in Nat /\ s.arg \in Name \cup {NoName}
    BY <1>1, <1>4, StmtKinds
  <2>3. p.books \in Bookkeeping /\ p.books.depth = x.depth + 1
    <3>1. /\ [x EXCEPT !.depth = x.depth + 1] \in Bookkeeping
          /\ [x EXCEPT !.depth = x.depth + 1].depth = x.depth + 1
      BY <2>2, BooksMoves
    <3>2. /\ [x EXCEPT !.depth = x.depth + 1, !.name = s.arg] \in Bookkeeping
          /\ [x EXCEPT !.depth = x.depth + 1, !.name = s.arg].depth = x.depth + 1
      BY <2>2 DEF Bookkeeping
    <3>3. QED
      BY <2>1, <3>1, <3>2
  <2>4. QED
    BY <1>1, <1>2, <1>4, <2>1, <2>3, StmtKinds DEF Preprocessed, Rollback
<1>5. CASE x.depth \notin Finished /\ s.op \in {"savepoint", "insert"}
  <2>1. p.stmt = s /\ p.books = IF s.op = "savepoint"
                                THEN [x EXCEPT !.savepoints = Append(@, s.arg)] ELSE x
    BY <1>5 DEF MssqlPreprocess, Sends
  <2>2. p.stmt = s /\ p.books \in Bookkeeping /\ p.books.depth = x.depth
    <3>1. s.op = "savepoint" => /\ [x EXCEPT !.savepoints = Append(@, s.arg)] \in Bookkeeping
                                /\ [x EXCEPT !.savepoints = Append(@, s.arg)].depth = x.depth
      BY BooksMoves, StmtKinds
    <3>2. QED
      BY <2>1, <3>1
  <2>3. s # Raise /\ s # Scrub /\ s # Rollback(NoName) /\ x.depth \in Nat
    BY <1>1, <1>5, StmtKinds DEF Rollback
  <2>4. QED
    BY <1>5, <2>2, <2>3 DEF Preprocessed
<1>6. CASE x.depth \notin Finished /\ s.op = "commit"
  <2>1. x.depth \in Nat
    BY <1>1, <1>6
  <2>2. CASE x.depth = 0
    <3>1. p = Sends(x, Raise)
      BY <1>6, <2>2 DEF MssqlPreprocess, MssqlCommit
    <3>2. QED
      BY <1>2, <1>6, <2>2, <3>1 DEF Preprocessed, Sends, Rollback
  <2>3. CASE x.depth = 1
    <3>1. p.stmt = s /\ p.books = FinishedBooks(Committed)
      BY <1>6, <2>3 DEF MssqlPreprocess, MssqlCommit, Sends
    <3>2. p.books \in Bookkeeping /\ p.books.depth = Committed
      BY <3>1, BooksMoves
    <3>3. s # Raise /\ s # Scrub /\ s # Rollback(NoName)
      BY <1>6, StmtKinds DEF Rollback
    <3>4. QED
      BY <1>6, <2>3, <3>1, <3>2, <3>3 DEF Preprocessed
  <2>4. CASE x.depth > 1
    <3>1. p.stmt = s /\ p.books = [x EXCEPT !.depth = x.depth - 1]
      BY <1>6, <2>4 DEF MssqlPreprocess, MssqlCommit, Sends
    <3>2. x.depth - 1 \in Nat /\ x.depth # 1
      BY <2>1, <2>4
    <3>3. p.books \in Bookkeeping /\ p.books.depth = x.depth - 1
      <4>1. /\ [x EXCEPT !.depth = x.depth - 1] \in Bookkeeping
            /\ [x EXCEPT !.depth = x.depth - 1].depth = x.depth - 1
        BY <3>2, BooksMoves
      <4>2. QED
        BY <3>1, <4>1
    <3>4. QED
      BY <1>2, <1>6, <2>1, <2>4, <3>1, <3>2, <3>3, StmtKinds DEF Preprocessed, Rollback
  <2>5. QED
    BY <2>1, <2>2, <2>3, <2>4
<1>7. CASE x.depth \notin Finished /\ s.op = "rollback"
  <2>1. x.depth \in Nat /\ p = MssqlRollback(x, s)
    BY <1>1, <1>7 DEF MssqlPreprocess
  <2>2. s = Rollback(NoName) => s.arg = NoName
    BY DEF Rollback
  <2>3. CASE x.depth = 0
    <3>1. p = Sends(x, Raise)
      BY <2>1, <2>3 DEF MssqlRollback
    <3>2. QED
      BY <1>2, <1>7, <2>3, <3>1 DEF Preprocessed, Sends, Rollback
  <2>4. CASE x.depth > 0 /\ Occurs(x.savepoints, s.arg)
    <3>1. p.stmt = RollbackTo(s.arg) /\ p.books = [x EXCEPT !.savepoints = PopThrough(@, s.arg)]
      BY <2>1, <2>4 DEF MssqlRollback, Sends
    <3>2. s.arg \in Name
      BY <1>1, <2>4 DEF Occurs
    <3>3. p.stmt \in Stmt /\ p.stmt.op = "rollbackTo"
      BY <3>1, <3>2, StmtMade DEF RollbackTo
    <3>4. p.books \in Bookkeeping /\ p.books.depth = x.depth
      <4>1. /\ [x EXCEPT !.savepoints = PopThrough(@, s.arg)] \in Bookkeeping
            /\ [x EXCEPT !.savepoints = PopThrough(@, s.arg)].depth = x.depth
        BY <2>4, BooksMoves
      <4>2. QED
        BY <3>1, <4>1
    <3>5. p.stmt # Raise /\ p.stmt # Scrub /\ s # Rollback(NoName)
      BY <1>1, <2>2, <2>4, <3>3, StmtKinds
    <3>6. QED
      BY <1>7, <2>1, <2>4, <3>3, <3>4, <3>5 DEF Preprocessed
  <2>5. CASE x.depth > 0 /\ ~ Occurs(x.savepoints, s.arg) /\ s.arg \in {NoName, x.name}
    <3>1. p.stmt = Rollback(NoName) /\ p.books = FinishedBooks(RolledBack)
      BY <2>1, <2>5 DEF MssqlRollback, Sends
    <3>2. p.books \in Bookkeeping /\ p.books.depth = RolledBack
      BY <3>1, BooksMoves
    <3>3. QED
      BY <1>2, <1>7, <2>1, <2>5, <3>1, <3>2, StmtMade DEF Preprocessed
  <2>6. CASE x.depth > 0 /\ ~ Occurs(x.savepoints, s.arg) /\ s.arg \notin {NoName, x.name}
    <3>1. p = Sends(x, Raise)
      BY <2>1, <2>6 DEF MssqlRollback
    <3>2. QED
      BY <1>2, <1>7, <2>2, <2>6, <3>1 DEF Preprocessed, Sends
  <2>7. QED
    BY <2>1, <2>3, <2>4, <2>5, <2>6
<1>8. QED
  BY <1>3, <1>4, <1>5, <1>6, <1>7, StmtKinds

(* The COMMIT of the last BEGIN is followed by the driver's commit(), which *)
(* ends what the driver opened under it.                                    *)
LEMMA MssqlSent ==
  ASSUME class \in Tsql, NEW o, NEW d, Settles(d), NEW s \in Stmt, NEW r \in MssqlSend(o, d, s)
  PROVE  /\ r.obj = o /\ r.ok \in BOOLEAN /\ Settles(r.db) /\ (d.closed => r.db.closed)
         /\ ~ (s = Commit /\ o.books.depth = Committed) => TsqlAnswer(d, s, r)
         /\ s = Commit /\ o.books.depth = Committed /\ d.level <= 2 =>
              ~ r.db.open /\ (r.ok => r.db.durable = d.work)
<1> DEFINE last == s = Commit /\ o.books.depth = Committed
<1>1. PICK t \in TsqlReplies(d, s) :
        r \in {Outcome(o, u.db, u.ok) : u \in IF last /\ t.ok THEN DriverCommits(t.db) ELSE {t}}
  BY DEF MssqlSend
<1>2. PICK u \in IF last /\ t.ok THEN DriverCommits(t.db) ELSE {t} : r = Outcome(o, u.db, u.ok)
  BY <1>1
<1>3. r.obj = o /\ r.db = u.db /\ r.ok = u.ok
  BY <1>2 DEF Outcome
<1>4. TsqlAnswer(d, s, t)
  BY TsqlAnswered
<1>5. d.level \in Nat /\ (d.closed => ~ d.open) /\ (d.open <=> d.level > 0)
  BY DEF Settles, Connection
<1>6. CASE ~ last
  <2>1. u = t
    BY <1>2, <1>6
  <2>2. TsqlAnswer(d, s, r)
    BY <1>3, <1>4, <2>1 DEF TsqlAnswer
  <2>3. QED
    BY <1>3, <1>4, <1>6, <2>1, <2>2 DEF TsqlAnswer
<1>7. CASE last /\ ~ t.ok
  <2>1. u = t
    BY <1>2, <1>7
  <2>2. t.db.open => t.db.level > 0
    BY <1>4 DEF TsqlAnswer, Settles
  <2>3. t.ok \in BOOLEAN /\ Settles(t.db) /\ (d.closed => t.db.closed)
    BY <1>4 DEF TsqlAnswer
  <2>4. ~ t.db.open
    BY <1>4, <1>7 DEF TsqlAnswer, Commit
  <2>5. QED
    BY <1>3, <1>7, <2>1, <2>3, <2>4
<1>8. CASE last /\ t.ok
  <2>1. u \in DriverCommits(t.db)
    BY <1>2, <1>8
  <2>2. Settles(t.db) /\ (d.closed => t.db.closed) /\ ~ d.closed /\ ~ t.db.closed
    BY <1>4, <1>8 DEF TsqlAnswer
  <2>3. /\ u.ok \in BOOLEAN /\ Settles(u.db) /\ (t.db.closed => u.db.closed)
        /\ t.db.level <= 1 => ~ u.db.open
        /\ t.db.level <= 1 /\ u.ok => u.db.durable = t.db.work
    BY <2>1, <2>2, DriverCommitsAre
  <2>4. d.level <= 2 => t.db.level <= 1 /\ t.db.work = d.work
    <3>1. s.op = "commit"
      BY <1>8 DEF Commit
    <3>2. t.db.work = d.work
      BY <1>4, <1>5, <1>8, <3>1 DEF TsqlAnswer
    <3>3. d.level > 0 => t.db.level = d.level - 1
      BY <1>4, <2>2, <3>1 DEF TsqlAnswer
    <3>4. d.level > 0
      BY <1>4, <1>8, <3>1 DEF TsqlAnswer
    <3>5. QED
      BY <1>5, <3>2, <3>3, <3>4
  <2>5. QED
    BY <1>3, <1>8, <2>2, <2>3, <2>4
<1>9. QED
  BY <1>4, <1>6, <1>7, <1>8 DEF TsqlAnswer

(* execute() of a statement that was preprocessed to p: the books have      *)
(* changed, and what is left of the statement was sent, or nothing was.     *)
Executed(o, d, r, p, Send(_, _, _)) ==
  /\ r.obj \in Object /\ r.obj.books = p.books /\ r.obj.cursor = o.cursor
  /\ (r.obj.gone <=> o.gone) /\ (r.obj.made <=> o.made) /\ (r.obj.delegate <=> o.delegate)
  /\ \/ r.db = d /\ r.ok = FALSE /\ (p.stmt = Raise \/ o.gone)
     \/ r.db = d /\ r.ok = TRUE /\ p.stmt = Scrub
     \/ p.stmt \in Stmt /\ ~ o.gone /\ r \in Send(r.obj, d, p.stmt)

LEMMA MssqlExecuted ==
  ASSUME class \in Tsql, NEW o \in Object, NEW d, NEW s \in Stmt, s.op # "rollbackTo",
         NEW r \in MssqlExecute(o, d, s), NEW p, p = MssqlPreprocess(o.books, s)
  PROVE  /\ Preprocessed(o.books, p)
         /\ Executed(o, d, r, p, MssqlSend)
<1> DEFINE q == [o EXCEPT !.books = p.books]
<1>1. o.books \in Bookkeeping
  BY DEF Object
<1>2. Preprocessed(o.books, p) /\ p.stmt # Scrub
  BY <1>1, MssqlPreprocessed
<1>3. p.books \in Bookkeeping
  BY <1>2 DEF Preprocessed
<1>4. /\ q \in Object /\ q.books = p.books /\ q.cursor = o.cursor
      /\ (q.gone <=> o.gone) /\ (q.made <=> o.made) /\ (q.delegate <=> o.delegate)
  BY <1>3, WithBooks
<1>5. r \in CASE p.stmt \in {Raise, Scrub} -> {Outcome(q, d, p.stmt = Scrub)}
              [] p.stmt \notin {Raise, Scrub} /\ o.gone -> Raised(q, d)
              [] p.stmt \notin {Raise, Scrub} /\ ~ o.gone -> MssqlSend(q, d, p.stmt)
  BY DEF MssqlExecute
<1> HIDE DEF q
<1>6. CASE p.stmt = Raise
  <2>1. r = Outcome(q, d, p.stmt = Scrub)
    BY <1>5, <1>6
  <2>2. (p.stmt = Scrub) = FALSE
    BY <1>2
  <2>3. r = Outcome(q, d, FALSE)
    BY <2>1, <2>2
  <2>4. r.obj = q /\ r.db = d /\ r.ok = FALSE
    BY <2>3 DEF Outcome
  <2>5. QED
    BY <1>2, <1>4, <1>6, <2>4 DEF Executed
<1>7. CASE p.stmt # Raise /\ o.gone
  <2>1. r \in Raised(q, d)
    BY <1>2, <1>5, <1>7
  <2>2. r.obj = q /\ r.db = d /\ r.ok = FALSE
    BY <2>1 DEF Raised, Outcome
  <2>3. QED
    BY <1>2, <1>4, <1>7, <2>2 DEF Executed
<1>8. CASE p.stmt # Raise /\ ~ o.gone
  <2>1. r \in MssqlSend(q, d, p.stmt)
    BY <1>2, <1>5, <1>8
  <2>2. r.obj = q
    BY <2>1 DEF MssqlSend, Outcome
  <2>3. p.stmt \in Stmt
    BY <1>2, <1>8 DEF Preprocessed
  <2>4. QED
    BY <1>2, <1>4, <1>8, <2>1, <2>2, <2>3 DEF Executed
<1>9. QED
  BY <1>6, <1>7, <1>8

(* An object that changes its books only is as sound as it was.             *)
LEMMA TsqlSound ==
  ASSUME class \in Tsql, NEW o, NEW d, Sound(o, d),
         NEW q \in Object, q.cursor = o.cursor, q.gone <=> o.gone,
         NEW e, d.closed => e.closed
  PROVE  Sound(q, e)
<1>1. class \notin Sessions /\ class # "asyncSqlite"
  BY DEF Tsql, Sessions
<1>2. q.cursor = "none" /\ "none" # "open"
  BY <1>1 DEF Sound
<1>3. QED
  BY <1>1, <1>2 DEF Sound

LEMMA MssqlGood ==
  ASSUME class \in Tsql, NEW o, NEW d, Sound(o, d), Settles(d),
         NEW s \in Stmt, s.op # "rollbackTo", NEW r \in MssqlExecute(o, d, s)
  PROVE  Good(o, d, r)
<1>1. o \in Object
  BY DEF Sound
<1>2. PICK p : Preprocessed(o.books, p) /\ Executed(o, d, r, p, MssqlSend)
  BY <1>1, MssqlExecuted
<1>3. /\ r.obj \in Object /\ r.obj.books = p.books /\ r.obj.cursor = o.cursor
      /\ (r.obj.gone <=> o.gone)
      /\ (r.db = d /\ r.ok \in BOOLEAN) \/ (p.stmt \in Stmt /\ r \in MssqlSend(r.obj, d, p.stmt))
  BY <1>2 DEF Executed
<1>4. r.ok \in BOOLEAN /\ Settles(r.db) /\ (d.closed => r.db.closed)
  BY <1>3, MssqlSent
<1>5. Sound(r.obj, r.db)
  BY <1>3, <1>4, TsqlSound
<1>6. o.books.depth \in Finished => r.obj.books = o.books
  BY <1>2, <1>3 DEF Preprocessed
<1>7. QED
  BY <1>4, <1>5, <1>6 DEF Good

(* A scope of MSSQL: the server's level stays that of the BEGINs, or one    *)
(* more, and only the last COMMIT takes the last level.                     *)
LEMMA MssqlServes ==
  ASSUME class \in Tsql, NEW o, NEW d, Sound(o, d), Settles(d),
         NEW s \in Stmt, s.op # "rollbackTo", NEW r \in MssqlExecute(o, d, s)
  PROVE  Serves(o, d, r)
<1>1. o \in Object /\ o.books \in Bookkeeping /\ o.books.depth \in Nat \cup Finished
  BY DEF Sound, Object, Bookkeeping
<1>2. PICK p : p = MssqlPreprocess(o.books, s) /\ Executed(o, d, r, p, MssqlSend)
  BY <1>1, MssqlExecuted
<1>3. Good(o, d, r)
  BY MssqlGood
<1>4. SUFFICES ASSUME Working(o, d)
               PROVE  /\ Working(r.obj, r.db)
                      /\ r.db.durable # d.durable =>
                           o.books.depth > 0 /\ r.obj.books.depth = Committed
  BY <1>3 DEF Serves
<1> DEFINE x == o.books.depth
           y == r.obj.books.depth
<1>5. /\ class # "asyncMysql" /\ class # "asyncSqlite" /\ ~ o.gone
      /\ x > 0 \/ (x \in {Committed, RolledBack} /\ ~ d.open)
      /\ x > 0 => d.closed \/ d.level \in x .. (x + 1)
  BY <1>4 DEF Working, Tsql
<1>6. ~ r.obj.gone /\ y = p.books.depth
  BY <1>2, <1>5 DEF Executed
<1>7. SUFFICES /\ y > 0 \/ (y \in {Committed, RolledBack} /\ ~ r.db.open)
               /\ y > 0 => r.db.closed \/ r.db.level \in y .. (y + 1)
               /\ r.db.durable # d.durable => x > 0 /\ y = Committed
  BY <1>5, <1>6 DEF Working
<1>8. /\ p.stmt # Scrub
      /\ p.stmt = Raise => p.books = o.books
      /\ p.stmt # Raise =>
           /\ x \in Nat
           /\ s.op = "begin" => p.stmt = s /\ y = x + 1
           /\ s.op \in {"savepoint", "insert"} => p.stmt = s /\ y = x
           /\ s.op = "commit" => /\ p.stmt = s /\ x > 0
                                 /\ y = IF x = 1 THEN Committed ELSE x - 1
           /\ s.op = "rollback" =>
                /\ x > 0
                /\ \/ p.stmt.op = "rollbackTo" /\ y = x
                   \/ p.stmt = Rollback(NoName) /\ y = RolledBack
  BY <1>1, <1>2, <1>6, MssqlPreprocessed
<1>9. CASE p.stmt = Raise
  <2>1. r.db = d /\ y = x
    BY <1>2, <1>6, <1>8, <1>9 DEF Executed, Stmt, Raise, Commit
  <2>2. QED
    BY <1>5, <2>1
<1>10. CASE p.stmt # Raise
  <2>1. p.stmt \in Stmt /\ r \in MssqlSend(r.obj, d, p.stmt)
    BY <1>2, <1>5, <1>8, <1>10 DEF Executed
  <2>2. /\ x \in Nat /\ d.level \in Nat /\ (d.closed <=> d.closed /\ d.level = 0) /\ x > 0
        /\ d.closed \/ d.level \in x .. (x + 1)
    BY <1>5, <1>8, <1>10 DEF Settles, Connection, Committed, RolledBack
  <2>3. /\ Settles(r.db) /\ (d.closed => r.db.closed)
        /\ ~ (p.stmt = Commit /\ y = Committed) => TsqlAnswer(d, p.stmt, r)
        /\ p.stmt = Commit /\ y = Committed /\ d.level <= 2 => ~ r.db.open
    BY <2>1, MssqlSent
  <2> HIDE DEF x, y
  <2>4. CASE s.op = "begin"
    <3>1. p.stmt = s /\ y = x + 1 /\ p.stmt # Commit
      BY <1>8, <1>10, <2>4 DEF Commit
    <3>2. /\ ~ r.db.closed => r.db.level = d.level + 1 \/ (d.level = 0 /\ r.db.level = 2)
          /\ r.db.durable = d.durable
      BY <2>3, <2>4, <3>1 DEF TsqlAnswer
    <3>3. QED
      BY <2>2, <2>3, <3>1, <3>2
  <2>5. CASE s.op \in {"savepoint", "insert"}
    <3>1. p.stmt = s /\ y = x /\ p.stmt # Commit
      BY <1>8, <1>10, <2>5 DEF Commit
    <3>2. /\ ~ r.db.closed /\ d.level > 0 => r.db.level = d.level
          /\ r.db.durable = d.durable
      BY <2>3, <2>5, <3>1 DEF TsqlAnswer
    <3>3. QED
      BY <2>2, <2>3, <3>1, <3>2
  <2>6. CASE s.op = "commit" /\ x = 1
    <3>1. p.stmt = s /\ y = Committed /\ s = Commit
      BY <1>8, <1>10, <2>6, StmtKinds
    <3>2. d.level <= 2
      BY <2>2, <2>6
    <3>3. ~ r.db.open
      BY <2>3, <3>1, <3>2
    <3>4. ~ (y > 0)
      BY <3>1 DEF Committed
    <3>5. QED
      BY <2>2, <3>1, <3>3, <3>4
  <2>7. CASE s.op = "commit" /\ x # 1
    <3>1. p.stmt = s /\ y = x - 1 /\ s = Commit
      BY <1>8, <1>10, <2>7, StmtKinds
    <3>2. y \in Nat /\ y > 0 /\ y # Committed
      BY <2>2, <2>7, <3>1 DEF Committed
    <3>3. TsqlAnswer(d, s, r)
      BY <2>3, <3>1, <3>2
    <3>4. /\ ~ r.db.closed /\ d.level > 0 => r.db.level = d.level - 1
          /\ r.db.durable # d.durable => d.level <= 1 /\ ~ d.closed
      BY <2>7, <3>3 DEF TsqlAnswer
    <3>5. QED
      BY <2>2, <2>3, <2>7, <3>1, <3>2, <3>4
  <2>8. CASE s.op = "rollback" /\ p.stmt.op = "rollbackTo" /\ y = x
    <3>1. p.stmt # Commit
      BY <2>8 DEF Commit
    <3>2. /\ ~ r.db.closed => r.db.level = d.level
          /\ r.db.durable = d.durable
      BY <2>3, <2>8, <3>1 DEF TsqlAnswer
    <3>3. QED
      BY <2>2, <2>3, <2>8, <3>2
  <2>9. CASE s.op = "rollback" /\ p.stmt = Rollback(NoName) /\ y = RolledBack
    <3>1. p.stmt # Commit /\ p.stmt.op = "rollback"
      BY <2>9 DEF Commit, Rollback
    <3>2. ~ r.db.open /\ r.db.durable = d.durable
      BY <2>3, <3>1 DEF TsqlAnswer
    <3>3. ~ (y > 0)
      BY <2>9 DEF RolledBack
    <3>4. QED
      BY <2>2, <2>9, <3>2, <3>3
  <2>10. QED
    BY <1>8, <1>10, <2>4, <2>5, <2>6, <2>7, <2>8, <2>9, StmtKinds
<1>11. QED
  BY <1>9, <1>10

(* A full rollback of a context with a BEGIN to finish keeps nothing and    *)
(* leaves nothing open, also when the connection is closed or lost.         *)
LEMMA MssqlRollsBack ==
  ASSUME class \in Tsql, NEW o, NEW d, Sound(o, d), Settles(d), o.books.depth > 0,
         o.books.depth \in Nat, NEW r \in MssqlExecute(o, d, Rollback(NoName))
  PROVE  ~ r.db.open /\ r.db.durable = d.durable
<1>1. o \in Object /\ o.books \in Bookkeeping /\ o.books.depth \notin Finished
  BY BooksFields DEF Sound, Object
<1>2. Rollback(NoName) \in Stmt /\ Rollback(NoName).op = "rollback"
  BY StmtMade DEF Rollback
<1>3. PICK p : p = MssqlPreprocess(o.books, Rollback(NoName)) /\ Executed(o, d, r, p, MssqlSend)
  BY <1>1, <1>2, MssqlExecuted
<1>4. p.stmt = Rollback(NoName)
  BY <1>1, <1>2, <1>3, MssqlPreprocessed
<1>5. p.stmt # Scrub /\ p.stmt # Raise /\ p.stmt # Commit
  BY <1>4 DEF Rollback, Scrub, Raise, Commit
<1>6. CASE o.gone
  <2>1. r.db = d /\ d.closed
    BY <1>3, <1>5, <1>6 DEF Executed, Sound
  <2>2. QED
    BY <2>1 DEF Settles
<1>7. CASE ~ o.gone
  <2>1. r \in MssqlSend(r.obj, d, p.stmt) /\ p.stmt \in Stmt
    BY <1>3, <1>5, <1>7 DEF Executed
  <2>2. TsqlAnswer(d, p.stmt, r)
    BY <1>5, <2>1, MssqlSent
  <2>3. QED
    BY <1>2, <1>4, <2>2 DEF TsqlAnswer
<1>8. QED
  BY <1>6, <1>7

(* A last commit() that returns has made the scope's work durable.          *)
LEMMA MssqlCommits ==
  ASSUME class \in Tsql, NEW o, NEW d, Sound(o, d), Settles(d), Working(o, d),
         NEW r \in MssqlExecute(o, d, Commit), r.ok, r.obj.books.depth = Committed
  PROVE  ~ r.db.open /\ r.db.durable = d.work
<1>1. o \in Object /\ o.books \in Bookkeeping
  BY DEF Sound, Object
<1>2. Commit \in Stmt /\ Commit.op = "commit"
  BY StmtMade DEF Commit
<1>3. PICK p : p = MssqlPreprocess(o.books, Commit) /\ Executed(o, d, r, p, MssqlSend)
  BY <1>1, <1>2, MssqlExecuted
<1>4. /\ p.stmt # Scrub
      /\ p.stmt # Raise => /\ p.stmt = Commit /\ o.books.depth \in Nat /\ o.books.depth > 0
                           /\ p.books.depth = IF o.books.depth = 1 THEN Committed
                                                                   ELSE o.books.depth - 1
  BY <1>1, <1>2, <1>3, MssqlPreprocessed
<1>5. r \in MssqlSend(r.obj, d, Commit) /\ p.stmt # Raise /\ r.obj.books = p.books
  BY <1>3, <1>4 DEF Executed, Stmt, Raise, Commit
<1>6. o.books.depth = 1
  BY <1>4, <1>5 DEF Committed
<1>7. d.level \in Nat /\ (d.closed \/ d.level \in 1 .. 2) /\ (d.closed => d.level = 0)
  BY <1>6 DEF Working, Settles, Connection
<1>8. d.level <= 2
  BY <1>7
<1> DEFINE ob == r.obj
<1> HIDE DEF ob
<1>9. ob.books.depth = Committed /\ r \in MssqlSend(ob, d, Commit)
  BY <1>5 DEF ob
<1>10. ~ r.db.open /\ (r.ok => r.db.durable = d.work)
  BY <1>2, <1>8, <1>9, MssqlSent
<1>11. QED
  BY <1>10

(* How a block is entered: its BEGIN is the first thing the scope sends.    *)
Enters(o, d, r) ==
  /\ Good(o, d, r)
  /\ o.books.depth = 0 /\ ~ o.gone /\ ~ o.made /\ ~ d.open =>
       /\ r.db.durable = d.durable
       /\ r.ok => Working(r.obj, r.db)
       /\ ~ r.ok => ~ r.db.open

LEMMA MssqlEnters ==
  ASSUME class \in Tsql, NEW o, NEW d, Sound(o, d), Settles(d),
         NEW n \in Name \cup {NoName}, NEW r \in MssqlExecute(o, d, Begin(n))
  PROVE  /\ Good(o, d, r)
         /\ o.books.depth = 0 /\ ~ o.gone /\ ~ d.open =>
              /\ r.db.durable = d.durable
              /\ r.ok => Working(r.obj, r.db)
              /\ ~ r.ok => ~ r.db.open
<1>1. o \in Object /\ o.books \in Bookkeeping
  BY DEF Sound, Object
<1>2. Begin(n) \in Stmt /\ Begin(n).op = "begin"
  BY StmtMade DEF Begin
<1>3. Good(o, d, r)
  BY <1>2, MssqlGood
<1>4. SUFFICES ASSUME o.books.depth = 0, ~ o.gone, ~ d.open
               PROVE  /\ r.db.durable = d.durable
                      /\ r.ok => Working(r.obj, r.db)
                      /\ ~ r.ok => ~ r.db.open
  BY <1>3
<1>5. PICK p : p = MssqlPreprocess(o.books, Begin(n)) /\ Executed(o, d, r, p, MssqlSend)
  BY <1>1, <1>2, MssqlExecuted
<1>6. p.stmt # Scrub /\ (p.stmt # Raise => p.stmt = Begin(n) /\ p.books.depth = o.books.depth + 1)
  BY <1>1, <1>2, <1>5, MssqlPreprocessed
<1>7. CASE p.stmt = Raise
  BY <1>4, <1>5, <1>6, <1>7 DEF Executed, Stmt, Raise, Commit
<1>8. CASE p.stmt # Raise
  <2>1. r \in MssqlSend(r.obj, d, Begin(n)) /\ ~ r.obj.gone /\ r.obj.books.depth = 1
    BY <1>4, <1>5, <1>6, <1>8 DEF Executed
  <2>2. TsqlAnswer(d, Begin(n), r)
    <3>1. Begin(n) # Commit
      BY DEF Begin, Commit
    <3>2. QED
      BY <1>2, <2>1, <3>1, MssqlSent
  <2>3. d.level = 0
    BY <1>4 DEF Settles, Connection
  <2>4. /\ r.db.durable = d.durable /\ (~ r.ok => r.db.closed)
        /\ r.db.closed \/ r.db.level \in {1, 2}
    BY <1>2, <2>2, <2>3 DEF TsqlAnswer
  <2>5. r.db.closed => ~ r.db.open
    BY <2>2 DEF TsqlAnswer, Settles
  <2>6. Working(r.obj, r.db)
    <3>1. class # "asyncMysql" /\ class # "asyncSqlite"
      BY DEF Tsql
    <3>2. r.db.closed \/ r.db.level \in 1 .. (1 + 1)
      BY <2>4
    <3>3. QED
      BY <2>1, <3>1, <3>2 DEF Working
  <2>7. QED
    BY <2>4, <2>5, <2>6
<1>9. QED
  BY <1>7, <1>8

-----------------------------------------------------------------------------
(* Calls that change the books and nothing else of the object. *)

Moved(o, q) ==
  /\ q \in Object /\ q.cursor = o.cursor
  /\ (q.gone <=> o.gone) /\ (q.made <=> o.made) /\ (q.delegate <=> o.delegate)
  /\ o.books.depth \in Finished => q.books = o.books

LEMMA MovedGood ==
  ASSUME class \notin Sessions, NEW o, NEW d, Sound(o, d), class = "asyncSqlite" => o.made,
         NEW r, Moved(o, r.obj), r.ok \in BOOLEAN, Settles(r.db), d.closed => r.db.closed
  PROVE  Good(o, d, r)
<1>1. r.obj.cursor = "none" /\ "none" # "open"
  BY DEF Sound, Moved
<1>2. Sound(r.obj, r.db)
  BY <1>1 DEF Sound, Moved
<1>3. QED
  BY <1>2 DEF Good, Moved

LEMMA MovedTwice ==
  ASSUME NEW o, NEW p, NEW q, Moved(o, p), Moved(p, q)
  PROVE  Moved(o, q)
  BY DEF Moved

LEMMA NotMoved ==
  ASSUME NEW o \in Object
  PROVE  Moved(o, o)
  BY DEF Moved

(* A line of a script changes the books as its statement does.              *)
LEMMA LineMoves ==
  ASSUME NEW o \in Object, NEW p, Preprocessed(o.books, p), NEW s
  PROVE  /\ Moved(o, Line(o, p, s).obj)
         /\ Line(o, p, s).sent \in {<<>>, <<s>>}
         /\ Line(o, p, s).ok \in BOOLEAN
         /\ Line(o, p, s).sent # <<>> => p.stmt \notin {Raise, Scrub}
<1>1. LET q == [o EXCEPT !.books = p.books] IN
      /\ q \in Object /\ q.books = p.books /\ q.cursor = o.cursor
      /\ (q.gone <=> o.gone) /\ (q.made <=> o.made) /\ (q.delegate <=> o.delegate)
  BY WithBooks DEF Preprocessed
<1>2. /\ Line(o, p, s).obj = [o EXCEPT !.books = p.books]
      /\ Line(o, p, s).sent = IF p.stmt \in {Raise, Scrub} THEN <<>> ELSE <<s>>
      /\ Line(o, p, s).ok = (p.stmt # Raise)
  BY DEF Line
<1>3. Moved(o, Line(o, p, s).obj)
  BY <1>1, <1>2 DEF Moved, Preprocessed
<1>4. QED
  BY <1>2, <1>3

(* The lines that are left of a script of two.                              *)
LEMMA LinesLeft ==
  ASSUME NEW s, NEW t, NEW u \in {<<>>, <<s>>}, NEW v \in {<<>>, <<t>>},
         NEW lines, lines = u \o v, lines # <<>>
  PROVE  \/ lines = <<s>> /\ u # <<>>
         \/ lines = <<t>> /\ v # <<>>
         \/ lines = <<s, t>> /\ u # <<>> /\ v # <<>>
<1>1. <<>> \o <<>> = <<>> /\ <<s>> \o <<>> = <<s>> /\ <<>> \o <<t>> = <<t>>
  OBVIOUS
<1>2. <<s>> \o <<t>> = <<s, t>>
  <2>1. <<s>> \in Seq({s, t}) /\ <<t>> \in Seq({s, t}) /\ <<s, t>> \in Seq({s, t})
    OBVIOUS
  <2>2. /\ <<s>> \o <<t>> \in Seq({s, t}) /\ Len(<<s>> \o <<t>>) = 2
        /\ (<<s>> \o <<t>>)[1] = s /\ (<<s>> \o <<t>>)[2] = t
    BY <2>1, ConcatProperties
  <2>3. \A i \in 1..2 : (<<s>> \o <<t>>)[i] = <<s, t>>[i]
    BY <2>2
  <2>4. QED
    BY <2>1, <2>2, <2>3, SeqEqual
<1>3. <<s>> # <<>> /\ <<t>> # <<>>
  OBVIOUS
<1>4. QED
  BY <1>1, <1>2, <1>3

(* What a call may return that sends nothing.                               *)
LEMMA NothingSent ==
  ASSUME class \notin Sessions, NEW o, NEW d, Sound(o, d), class = "asyncSqlite" => o.made,
         Settles(d), NEW q, Moved(o, q), NEW r \in Raised(q, d) \cup Returned(q, d)
  PROVE  Good(o, d, r)
<1>1. r.obj = q /\ r.db = d /\ r.ok \in BOOLEAN
  <2>1. r \in Raised(q, d) => r.obj = q /\ r.db = d /\ r.ok = FALSE
    BY DEF Raised, Outcome
  <2>2. r \in Returned(q, d) => r.obj = q /\ r.db = d /\ r.ok = TRUE
    BY DEF Returned, Outcome
  <2>3. QED
    BY <2>1, <2>2
<1>2. Moved(o, r.obj) /\ Settles(r.db) /\ (d.closed => r.db.closed)
  BY <1>1
<1>3. QED
  BY <1>1, <1>2, MovedGood

-----------------------------------------------------------------------------
(* MSSQL: raw statements, scripts, cursors, close and exit. *)

(* What reaches the server past the books.                                  *)
LEMMA MssqlRawGood ==
  ASSUME class \in Tsql, NEW o, NEW d, Sound(o, d), Settles(d),
         NEW s \in Stmt, NEW r \in MssqlRaw(o, d, s)
  PROVE  Good(o, d, r)
<1>1. class \notin Sessions /\ class # "asyncSqlite" /\ o \in Object /\ Moved(o, o)
  BY NotMoved DEF Tsql, Sessions, Sound
<1>2. TsqlReading(s) \in Stmt
  BY StmtKinds, StmtMade DEF TsqlReading
<1>3. CASE o.gone
  <2>1. r \in Raised(o, d)
    BY <1>3 DEF MssqlRaw
  <2>2. QED
    BY <1>1, <2>1, NothingSent
<1>4. CASE ~ o.gone
  <2>1. r \in MssqlSend(o, d, TsqlReading(s))
    BY <1>4 DEF MssqlRaw
  <2>2. r.obj = o /\ r.ok \in BOOLEAN /\ Settles(r.db) /\ (d.closed => r.db.closed)
    <3> DEFINE u == TsqlReading(s)
    <3>1. u \in Stmt /\ r \in MssqlSend(o, d, u)
      BY <1>2, <2>1
    <3> HIDE DEF u
    <3>2. r.ok \in BOOLEAN /\ Settles(r.db) /\ (d.closed => r.db.closed)
      BY <3>1, MssqlSent
    <3>3. r.obj = o
      BY <3>1 DEF MssqlSend, Outcome
    <3>4. QED
      BY <3>2, <3>3
  <2>3. Moved(o, r.obj)
    BY <1>1, <2>2
  <2>4. QED
    BY <1>1, <2>2, <2>3, MovedGood
<1>5. QED
  BY <1>3, <1>4

(* A batch of one or two statements.                                        *)
LEMMA TsqlBatchIs ==
  ASSUME class \in Tsql, NEW o, NEW d, Settles(d), NEW lines,
         lines[1] \in Stmt, Len(lines) # 1 => lines[2] \in Stmt,
         NEW r \in TsqlBatch(o, d, lines)
  PROVE  r.obj = o /\ r.ok \in BOOLEAN /\ Settles(r.db) /\ (d.closed => r.db.closed)
<1>1. \A s \in Stmt : TsqlReading(s) \in Stmt
  BY StmtKinds, StmtMade DEF TsqlReading
<1>2. PICK f \in TsqlReplies(d, TsqlReading(lines[1])) :
        r \in {Outcome(o, t.db, f.ok /\ t.ok) :
                 t \in (IF Len(lines) = 1 THEN {f} ELSE TsqlReplies(f.db, TsqlReading(lines[2])))
                         \cup (IF f.ok THEN {} ELSE {f})}
  BY DEF TsqlBatch
<1>3. f.ok \in BOOLEAN /\ Settles(f.db) /\ (d.closed => f.db.closed)
  <2>1. TsqlAnswer(d, TsqlReading(lines[1]), f)
    BY <1>1, TsqlAnswered
  <2>2. QED
    BY <2>1 DEF TsqlAnswer
<1>4. PICK t \in (IF Len(lines) = 1 THEN {f} ELSE TsqlReplies(f.db, TsqlReading(lines[2])))
                   \cup (IF f.ok THEN {} ELSE {f}) :
        r = Outcome(o, t.db, f.ok /\ t.ok)
  BY <1>2
<1>5. r.obj = o /\ r.db = t.db /\ r.ok \in BOOLEAN
  BY <1>4 DEF Outcome
<1>6. CASE t = f
  BY <1>3, <1>5, <1>6
<1>7. CASE Len(lines) # 1 /\ t \in TsqlReplies(f.db, TsqlReading(lines[2]))
  <2>1. TsqlAnswer(f.db, TsqlReading(lines[2]), t)
    BY <1>1, <1>3, <1>7, TsqlAnswered
  <2>2. QED
    BY <1>3, <1>5, <2>1 DEF TsqlAnswer
<1>8. QED
  BY <1>4, <1>6, <1>7

LEMMA MssqlScriptGood ==
  ASSUME class \in Tsql, NEW o, NEW d, Sound(o, d), Settles(d),
         NEW s \in Stmt, NEW t \in Stmt, s.op # "rollbackTo", t.op # "rollbackTo",
         NEW r \in MssqlScript(o, d, s, t)
  PROVE  Good(o, d, r)
<1> DEFINE p == MssqlPreprocess(o.books, s)
           a == Line(o, p, s)
           q == MssqlPreprocess(a.obj.books, t)
           b == Line(a.obj, q, t)
           lines == a.sent \o b.sent
<1>1. class \notin Sessions /\ class # "asyncSqlite" /\ o \in Object /\ o.books \in Bookkeeping
  BY DEF Tsql, Sessions, Sound, Object
<1>2. Preprocessed(o.books, p)
  BY <1>1, MssqlPreprocessed
<1>3. /\ Moved(o, a.obj) /\ a.sent \in {<<>>, <<s>>} /\ a.ok \in BOOLEAN
  BY <1>1, <1>2, LineMoves
<1>4. a.obj \in Object /\ a.obj.books \in Bookkeeping
  BY <1>3 DEF Moved, Object
<1>5. Preprocessed(a.obj.books, q)
  BY <1>4, MssqlPreprocessed
<1>6. Moved(a.obj, b.obj) /\ b.sent \in {<<>>, <<t>>} /\ b.ok \in BOOLEAN
  BY <1>4, <1>5, LineMoves
<1>7. Moved(o, b.obj)
  BY <1>3, <1>6, MovedTwice
<1>8. r \in CASE ~ a.ok -> Raised(a.obj, d)
              [] a.ok /\ ~ b.ok -> Raised(b.obj, d)
              [] a.ok /\ b.ok /\ lines = <<>> -> Returned(b.obj, d)
              [] a.ok /\ b.ok /\ lines # <<>> ->
                   IF b.obj.gone THEN Raised(b.obj, d) ELSE TsqlBatch(b.obj, d, lines)
  BY DEF MssqlScript, Script
<1> HIDE DEF p, a, q, b
<1>9. CASE r \in Raised(a.obj, d)
  BY <1>1, <1>3, <1>9, NothingSent
<1>10. CASE r \in Raised(b.obj, d) \cup Returned(b.obj, d)
  BY <1>1, <1>7, <1>10, NothingSent
<1>11. CASE lines # <<>> /\ r \in TsqlBatch(b.obj, d, lines)
  <2>1. lines = <<s>> \/ lines = <<t>> \/ lines = <<s, t>>
    BY <1>3, <1>6, <1>11, LinesLeft
  <2>2. lines[1] \in Stmt /\ (Len(lines) # 1 => lines[2] \in Stmt)
    <3>1. <<s>>[1] = s /\ Len(<<s>>) = 1 /\ <<t>>[1] = t /\ Len(<<t>>) = 1
      OBVIOUS
    <3>2. <<s, t>>[1] = s /\ <<s, t>>[2] = t
      OBVIOUS
    <3> HIDE DEF lines
    <3>3. QED
      BY <2>1, <3>1, <3>2
  <2>3. r.obj = b.obj /\ r.ok \in BOOLEAN /\ Settles(r.db) /\ (d.closed => r.db.closed)
    <3> HIDE DEF lines
    <3>1. QED
      BY <1>11, <2>2, TsqlBatchIs
  <2>4. Moved(o, r.obj)
    BY <1>7, <2>3
  <2>5. QED
    BY <1>1, <2>3, <2>4, MovedGood
<1>12. QED
  BY <1>3, <1>6, <1>8, <1>9, <1>10, <1>11

-----------------------------------------------------------------------------
(* One call after another, and the end of a block. *)

LEMMA GoodTwice ==
  ASSUME NEW o \in Object, NEW d, NEW a, Good(o, d, a), NEW r, Good(a.obj, a.db, r)
  PROVE  Good(o, d, r)
<1>1. o.books \in Bookkeeping
  BY DEF Object
<1>2. \A x \in Bookkeeping : LET y == [x EXCEPT !.depth = Exited] IN
        y.depth = Exited /\ [y EXCEPT !.depth = Exited] = y
  BY DEF Bookkeeping
<1>3. Exited \in Finished
  BY DEF Finished
<1>4. o.books.depth \in Finished =>
        r.obj.books \in {o.books, [o.books EXCEPT !.depth = Exited]}
  <2>1. HAVE o.books.depth \in Finished
  <2>2. CASE a.obj.books = o.books
    BY <2>1, <2>2 DEF Good
  <2>3. CASE a.obj.books = [o.books EXCEPT !.depth = Exited]
    <3>1. a.obj.books.depth \in Finished /\ [a.obj.books EXCEPT !.depth = Exited] = a.obj.books
      BY <1>1, <1>2, <1>3, <2>3
    <3>2. r.obj.books \in {a.obj.books, [a.obj.books EXCEPT !.depth = Exited]}
      BY <3>1 DEF Good
    <3>3. QED
      BY <2>3, <3>1, <3>2
  <2>4. QED
    BY <2>1, <2>2, <2>3 DEF Good
<1>5. QED
  BY <1>4 DEF Good

(* What __exit__ adds to the last outcome: the object is marked left.       *)
LEMMA LeaveMarks ==
  ASSUME NEW o \in Object, NEW d, NEW q, NEW e, NEW b, Good(o, d, Outcome(q, e, b)),
         q.cursor # "open",
         NEW r, r = [Outcome(q, e, b) EXCEPT !.obj.books.depth = Exited]
  PROVE  Good(o, d, r) /\ r.db = e
<1>1. q \in Object /\ q.books \in Bookkeeping /\ o.books \in Bookkeeping
  BY DEF Good, Outcome, Sound, Object
<1> DEFINE y == [q.books EXCEPT !.depth = Exited]
<1>2. y \in Bookkeeping /\ y.depth = Exited
  BY <1>1, BooksMoves DEF Finished
<1>3. r.obj = [q EXCEPT !.books = y] /\ r.db = e /\ r.ok = b
  BY <1>1 DEF Outcome, Object
<1>4. /\ r.obj \in Object /\ r.obj.books = y /\ r.obj.cursor = q.cursor
      /\ (r.obj.gone <=> q.gone) /\ (r.obj.made <=> q.made) /\ (r.obj.delegate <=> q.delegate)
  <2> HIDE DEF y
  <2>1. LET z == [q EXCEPT !.books = y] IN
        /\ z \in Object /\ z.books = y /\ z.cursor = q.cursor
        /\ (z.gone <=> q.gone) /\ (z.made <=> q.made) /\ (z.delegate <=> q.delegate)
    BY <1>1, <1>2, WithBooks
  <2>2. QED
    BY <1>3, <2>1
<1>5. b \in BOOLEAN /\ Sound(q, e) /\ Settles(e) /\ (d.closed => e.closed)
  BY DEF Good, Outcome
<1>6. Sound(r.obj, r.db)
  <2> HIDE DEF y
  <2>1. r.obj.books.depth = Exited
    BY <1>2, <1>4
  <2>2. ~ (r.obj.books.depth > 0)
    BY <2>1 DEF Exited
  <2>3. QED
    BY <1>3, <1>4, <1>5, <2>2 DEF Sound
<1>7. o.books.depth \in Finished => r.obj.books = [o.books EXCEPT !.depth = Exited]
  <2>1. HAVE o.books.depth \in Finished
  <2>2. q.books \in {o.books, [o.books EXCEPT !.depth = Exited]}
    BY <2>1 DEF Good, Outcome
  <2>3. \A x \in Bookkeeping : LET z == [x EXCEPT !.depth = Exited] IN
          [z EXCEPT !.depth = Exited] = z
    BY DEF Bookkeeping
  <2>4. y = [o.books EXCEPT !.depth = Exited]
    BY <1>1, <2>2, <2>3
  <2>5. QED
    BY <1>4, <2>4
<1>8. QED
  BY <1>3, <1>5, <1>6, <1>7 DEF Good

(* How a block is left: nothing of an unfinished scope is kept, nothing is  *)
(* left open, and the connection of an owner is closed.                     *)
Leaves(o, d, r, owned) ==
  /\ Good(o, d, r)
  /\ class \in Tsql \cup {"asyncSqlite"} /\ o.books.depth > 0 =>
       ~ r.db.open /\ r.db.durable = d.durable
  /\ Working(o, d) =>
       /\ ~ r.db.open /\ (owned => r.db.closed)
       /\ class \in Tsql \cup {"asyncSqlite"} => r.db.durable = d.durable

LEMMA MssqlCloseGood ==
  ASSUME class \notin Sessions, class # "asyncSqlite", NEW o, NEW d,
         Sound(o, d), Settles(d), NEW owned \in BOOLEAN, NEW r, r = MssqlClose(o, d, owned)
  PROVE  /\ Good(o, d, r) /\ r.obj.cursor # "open"
         /\ (owned => r.db.closed) /\ r.db.durable = d.durable /\ (~ d.open => ~ r.db.open)
         /\ r = Outcome(r.obj, r.db, r.ok)
<1>1. o \in Object /\ Moved(o, o) /\ d \in Connection /\ o.cursor # "open"
  BY NotMoved DEF Sound, Settles
<1>2. CASE owned
  <2> DEFINE q == [o EXCEPT !.gone = TRUE]
  <2>1. r = Outcome(q, Dead(d), TRUE)
    BY <1>2 DEF MssqlClose
  <2>2. q \in Object /\ q.books = o.books /\ q.cursor = o.cursor
    BY <1>1 DEF Object
  <2>3. r.obj = q /\ r.db = Dead(d) /\ r.ok = TRUE
    BY <2>1 DEF Outcome
  <2> HIDE DEF q
  <2>4. Settles(Dead(d)) /\ Dead(d).closed /\ Dead(d).durable = d.durable /\ ~ Dead(d).open
    BY <1>1, DeadSettles, DeadIs DEF Is
  <2>5. Sound(r.obj, r.db)
    BY <1>1, <2>2, <2>3, <2>4 DEF Sound
  <2>6. QED
    BY <1>1, <2>1, <2>2, <2>3, <2>4, <2>5 DEF Good
<1>3. CASE ~ owned
  <2>1. r = Outcome(o, d, TRUE)
    BY <1>3 DEF MssqlClose
  <2>2. r.obj = o /\ r.db = d /\ r.ok = TRUE
    BY <2>1 DEF Outcome
  <2>3. QED
    BY <1>1, <1>3, <2>1, <2>2 DEF Good
<1>4. QED
  BY <1>2, <1>3

LEMMA MssqlLeaves ==
  ASSUME class \in Tsql, NEW o, NEW d, Sound(o, d), Settles(d), NEW owned \in BOOLEAN,
         NEW r \in MssqlExit(o, d, owned)
  PROVE  Leaves(o, d, r, owned)
<1> DEFINE rolled == IF o.books.depth > 0 THEN MssqlExecute(o, d, Rollback(NoName))
                                          ELSE Returned(o, d)
<1>1. PICK a \in rolled : r = [MssqlClose(a.obj, a.db, owned) EXCEPT !.obj.books.depth = Exited]
  BY DEF MssqlExit, Leave
<1>2. /\ class \notin Sessions /\ class # "asyncSqlite" /\ o \in Object /\ Moved(o, o)
      /\ o.books \in Bookkeeping
  BY NotMoved DEF Tsql, Sessions, Sound, Object
<1>3. Rollback(NoName) \in Stmt /\ Rollback(NoName).op # "rollbackTo"
  BY StmtMade DEF Rollback
<1>4. Good(o, d, a)
  BY <1>1, <1>2, <1>3, MssqlGood, NothingSent
<1>5. /\ o.books.depth > 0 => ~ a.db.open /\ a.db.durable = d.durable
      /\ ~ (o.books.depth > 0) => a.db = d
  <2>1. CASE o.books.depth > 0
    <3>1. o.books.depth \in Nat
      BY <1>2, <2>1, BooksFields DEF Exited, Committed, RolledBack
    <3>2. QED
      BY <1>1, <2>1, <3>1, MssqlRollsBack
  <2>2. CASE ~ (o.books.depth > 0)
    BY <1>1, <2>2 DEF Returned, Outcome
  <2>3. QED
    BY <2>1, <2>2
<1> HIDE DEF rolled
<1>6. PICK c : c = MssqlClose(a.obj, a.db, owned)
  OBVIOUS
<1>7. Sound(a.obj, a.db) /\ Settles(a.db)
  BY <1>4 DEF Good
<1>8. /\ Good(a.obj, a.db, c) /\ c.obj.cursor # "open"
      /\ (owned => c.db.closed) /\ c.db.durable = a.db.durable /\ (~ a.db.open => ~ c.db.open)
      /\ c = Outcome(c.obj, c.db, c.ok)
  BY <1>2, <1>6, <1>7, MssqlCloseGood
<1>9. Good(o, d, c)
  BY <1>2, <1>4, <1>8, GoodTwice
<1>10. r = [c EXCEPT !.obj.books.depth = Exited]
  BY <1>1, <1>6
<1>11. Good(o, d, r) /\ r.db = c.db
  BY <1>2, <1>8, <1>9, <1>10, LeaveMarks
<1>12. Working(o, d) /\ ~ (o.books.depth > 0) => ~ d.open
  BY DEF Working
<1>13. QED
  BY <1>5, <1>8, <1>11, <1>12 DEF Leaves

LEMMA MssqlCursorServes ==
  ASSUME class \in Tsql, NEW o, NEW d, Sound(o, d), Settles(d),
         NEW n \in Row, NEW r \in MssqlCursorInsert(o, d, n)
  PROVE  /\ Good(o, d, r)
         /\ o.books.depth \notin Finished => Serves(o, d, r)
<1>1. /\ class \notin Sessions /\ class # "asyncSqlite" /\ o \in Object /\ Moved(o, o)
      /\ o.books \in Bookkeeping
  BY NotMoved DEF Tsql, Sessions, Sound, Object
<1>2. Insert(n) \in Stmt /\ Insert(n) # Commit /\ Insert(n).op = "insert"
  BY StmtMade DEF Insert, Commit
<1>3. CASE o.gone
  <2>1. r \in Raised(o, d)
    BY <1>3 DEF MssqlCursorInsert
  <2>2. Good(o, d, r)
    BY <1>1, <2>1, NothingSent
  <2>3. ~ Working(o, d)
    BY <1>3 DEF Working
  <2>4. QED
    BY <2>2, <2>3 DEF Serves
<1>4. CASE ~ o.gone
  <2>1. r \in MssqlSend(o, d, Insert(n))
    BY <1>4 DEF MssqlCursorInsert
  <2>2. r.obj = o
    BY <2>1 DEF MssqlSend, Outcome
  <2>3. TsqlAnswer(d, Insert(n), r)
    BY <1>2, <2>1, MssqlSent
  <2>4. r.ok \in BOOLEAN /\ Settles(r.db) /\ (d.closed => r.db.closed) /\ Moved(o, r.obj)
    BY <1>1, <2>2, <2>3 DEF TsqlAnswer
  <2>5. Good(o, d, r)
    BY <1>1, <2>4, MovedGood
  <2>6. SUFFICES ASSUME o.books.depth \notin Finished, Working(o, d)
                 PROVE  Working(r.obj, r.db) /\ r.db.durable = d.durable
    BY <2>5 DEF Serves
  <2>7. /\ r.db.durable = d.durable
        /\ ~ r.db.closed /\ d.level > 0 => r.db.level = d.level
    BY <1>2, <2>3 DEF TsqlAnswer
  <2>8. /\ o.books.depth \in Nat /\ o.books.depth > 0 /\ d.level \in Nat
        /\ d.closed \/ d.level \in o.books.depth .. (o.books.depth + 1)
    BY <1>1, <2>6, BooksFields DEF Working, Finished, Settles, Connection
  <2>9. r.db.closed \/ r.db.level \in o.books.depth .. (o.books.depth + 1)
    BY <2>4, <2>7, <2>8
  <2>10. QED
    BY <2>2, <2>6, <2>7, <2>8, <2>9 DEF Working, Tsql
<1>5. QED
  BY <1>3, <1>4

(* rollback_savepoint() of the class: what it swallows it has still done.   *)
LEMMA SwallowedServes ==
  ASSUME NEW o, NEW d, NEW a, Serves(o, d, a), NEW r, r = [a EXCEPT !.ok = TRUE],
         a = Outcome(a.obj, a.db, a.ok)
  PROVE  Serves(o, d, r)
<1>1. \A q, e, b : LET t == [Outcome(q, e, b) EXCEPT !.ok = TRUE] IN
        t.obj = q /\ t.db = e /\ t.ok = TRUE
  BY DEF Outcome
<1>2. r.obj = a.obj /\ r.db = a.db /\ r.ok = TRUE
  <2> DEFINE q == a.obj
             e == a.db
             b == a.ok
  <2>1. a = Outcome(q, e, b)
    OBVIOUS
  <2> HIDE DEF q, e, b
  <2>2. r.obj = q /\ r.db = e /\ r.ok = TRUE
    BY <1>1, <2>1
  <2>3. QED
    BY <2>2 DEF q, e
<1>3. QED
  BY <1>2 DEF Serves, Good

LEMMA MssqlOutcomes ==
  ASSUME NEW o, NEW d, NEW s, NEW r \in MssqlExecute(o, d, s)
  PROVE  r = Outcome(r.obj, r.db, r.ok)
<1>1. \A q, e, b : Outcome(q, e, b) = Outcome(Outcome(q, e, b).obj, Outcome(q, e, b).db, Outcome(q, e, b).ok)
  BY DEF Outcome
<1>2. \E q, e, b : r = Outcome(q, e, b)
  <2> DEFINE p == MssqlPreprocess(o.books, s)
             q == [o EXCEPT !.books = p.books]
  <2>1. r \in CASE p.stmt \in {Raise, Scrub} -> {Outcome(q, d, p.stmt = Scrub)}
                [] p.stmt \notin {Raise, Scrub} /\ o.gone -> Raised(q, d)
                [] p.stmt \notin {Raise, Scrub} /\ ~ o.gone -> MssqlSend(q, d, p.stmt)
    BY DEF MssqlExecute
  <2> HIDE DEF p, q
  <2>2. r \in {Outcome(q, d, p.stmt = Scrub)} \cup Raised(q, d) \cup MssqlSend(q, d, p.stmt)
    BY <2>1
  <2>3. CASE r \in MssqlSend(q, d, p.stmt)
    BY <2>3 DEF MssqlSend
  <2>4. CASE r \in Raised(q, d)
    BY <2>4 DEF Raised
  <2>5. QED
    BY <2>2, <2>3, <2>4
<1>3. QED
  BY <1>1, <1>2

LEMMA MssqlRollbackSavepointServes ==
  ASSUME class \in Tsql, NEW o, NEW d, Sound(o, d), Settles(d),
         NEW n \in Name, NEW r \in MssqlRollbackSavepoint(o, d, n)
  PROVE  Serves(o, d, r)
<1>1. PICK a \in MssqlExecute(o, d, Rollback(n)) : r = [a EXCEPT !.ok = TRUE]
  BY DEF MssqlRollbackSavepoint
<1>2. Rollback(n) \in Stmt /\ Rollback(n).op # "rollbackTo"
  BY StmtMade DEF Rollback
<1>3. Serves(o, d, a) /\ a = Outcome(a.obj, a.db, a.ok)
  BY <1>2, MssqlServes, MssqlOutcomes
<1>4. QED
  BY <1>1, <1>3, SwallowedServes

-----------------------------------------------------------------------------
(* The asynchronous shim of MSSQL makes its inner context on first use. *)

LEMMA MadeIs ==
  ASSUME class \in Tsql, NEW o, NEW d, Sound(o, d)
  PROVE  LET q == AsyncMssqlInner(o) IN
         /\ Sound(q, d) /\ q.books = o.books /\ (q.gone <=> o.gone)
         /\ Working(o, d) <=> Working(q, d)
<1>1. class \notin Sessions /\ class # "asyncSqlite" /\ o \in Object
  BY DEF Tsql, Sessions, Sound
<1> DEFINE q == AsyncMssqlInner(o)
<1>2. q \in Object /\ q.books = o.books /\ q.cursor = o.cursor /\ (q.gone <=> o.gone)
  BY <1>1 DEF AsyncMssqlInner, Object
<1> HIDE DEF q
<1>3. Sound(q, d)
  BY <1>1, <1>2, TsqlSound
<1>4. Working(o, d) <=> Working(q, d)
  BY <1>1, <1>2 DEF Working
<1>5. QED
  BY <1>2, <1>3, <1>4 DEF q

(* So a call on it is as good as the call on the inner context.             *)
LEMMA ThroughInner ==
  ASSUME class \in Tsql, NEW o, NEW d, Sound(o, d), NEW r
  PROVE  /\ Good(AsyncMssqlInner(o), d, r) => Good(o, d, r)
         /\ Serves(AsyncMssqlInner(o), d, r) => Serves(o, d, r)
<1>1. PICK q : q = AsyncMssqlInner(o)
  OBVIOUS
<1>2. q.books = o.books /\ (Working(o, d) <=> Working(q, d))
  BY <1>1, MadeIs
<1>3. (Good(q, d, r) => Good(o, d, r)) /\ (Serves(q, d, r) => Serves(o, d, r))
  BY <1>2 DEF Good, Serves
<1>4. QED
  BY <1>1, <1>3

LEMMA AsyncMssqlCloseGood ==
  ASSUME class \in Tsql, NEW o, NEW d, Sound(o, d), Settles(d), NEW owned \in BOOLEAN,
         NEW r, r = AsyncMssqlClose(o, d, owned)
  PROVE  Good(o, d, r)
<1>1. class \notin Sessions /\ class # "asyncSqlite" /\ o \in Object
  BY DEF Tsql, Sessions, Sound
<1>2. CASE o.made
  BY <1>1, <1>2, MssqlCloseGood DEF AsyncMssqlClose
<1>3. CASE ~ o.made
  <2>1. r \in Returned(o, d)
    BY <1>3 DEF AsyncMssqlClose, Returned
  <2>2. QED
    BY <1>1, <2>1, NotMoved, NothingSent
<1>4. QED
  BY <1>2, <1>3

-----------------------------------------------------------------------------
(* The asynchronous context of SQLite: a shim over the synchronous one. *)

(* What the synchronous context makes of a statement.                       *)
LEMMA SqlitePreprocessed ==
  ASSUME NEW x \in Bookkeeping, NEW s \in Stmt, NEW p, p = Sqlite!Preprocess(x, s)
  PROVE  /\ Preprocessed(x, p)
         /\ p.stmt = Raise => p.books = x
         /\ p.stmt = Scrub => x.depth > 0 /\ p.books.depth \in Nat /\ p.books.depth > 0
         /\ p.stmt \in Stmt =>
              \/ p.stmt.op = "begin" /\ x.depth = 0 /\ p.books.depth = 1
              \/ p.stmt.op = "commit" /\ x.depth = 1 /\ p.books.depth = Committed
              \/ p.stmt.op = "rollback" /\ x.depth > 0 /\ p.books.depth = RolledBack
              \/ /\ p.stmt.op \in {"savepoint", "rollbackTo", "insert"}
                 /\ p.books.depth = x.depth
         /\ s = Rollback(NoName) /\ x.depth \in Nat /\ x.depth > 0 =>
              p.stmt = s /\ p.books.depth = RolledBack
         /\ s.op = "begin" /\ x.depth = 0 => p.stmt = s /\ p.books.depth = 1
         /\ s.op = "commit" /\ x.depth > 1 => p.stmt = Scrub /\ p.books.depth = x.depth - 1
<1>1. /\ x.savepoints \in Seq(Name) /\ x.name \in Name \cup {NoName}
      /\ x.depth \notin Finished => x.depth \in Nat
      /\ x.depth \in Nat => x.depth \notin Finished
  BY BooksFields
<1>2. /\ Raise \notin Stmt /\ Scrub \notin Stmt /\ Scrub # Raise
      /\ \A n : Rollback(n) # Raise /\ Rollback(n) # Scrub /\ Rollback(n).op = "rollback"
                /\ Rollback(n).arg = n
  BY DEF Stmt, Raise, Scrub, Commit, Rollback
<1>3. /\ Sqlite!Raise = Raise /\ Sqlite!Scrub = Scrub /\ Sqlite!Finished = Finished
      /\ \A n : Sqlite!Rollback(n) = Rollback(n)
      /\ \A k : Sqlite!FinishedBooks(k) = FinishedBooks(k)
      /\ Sqlite!Committed = Committed /\ Sqlite!RolledBack = RolledBack
      /\ \A y, u : Sqlite!Sends(y, u) = Sends(y, u)
      /\ \A y, u : Sends(y, u).books = y /\ Sends(y, u).stmt = u
  BY DEF Sqlite!Raise, Raise, Sqlite!Scrub, Scrub, Sqlite!Finished, Finished, Sqlite!Exited,
         Exited, Sqlite!Committed, Committed, Sqlite!RolledBack, RolledBack, Sqlite!Rollback,
         Rollback, Sqlite!FinishedBooks, FinishedBooks, Sqlite!Sends, Sends
<1>4. \A u, n : Sqlite!Occurs(u, n) <=> Occurs(u, n)
  BY DEF Sqlite!Occurs, Occurs
<1>5. \A u, n : Sqlite!PopThrough(u, n) = PopThrough(u, n)
  BY DEF Sqlite!PopThrough, PopThrough, Sqlite!LastOf, LastOf
<1>6. CASE x.depth \in Finished
  <2>1. p = Sends(x, Raise)
    BY <1>3, <1>6 DEF Sqlite!Preprocess
  <2>2. ~ (x.depth \in Nat) /\ x.depth # 0 /\ ~ (x.depth > 1)
    BY <1>1, <1>6 DEF Finished, Exited, Committed, RolledBack
  <2>3. QED
    BY <1>2, <1>3, <1>6, <2>1, <2>2 DEF Preprocessed
<1>7. CASE x.depth \notin Finished /\ s.op = "begin"
  <2>1. p = Sqlite!OnBegin(x, s) /\ x.depth \in Nat /\ s.arg \in Name \cup {NoName}
    BY <1>1, <1>3, <1>7, StmtKinds DEF Sqlite!Preprocess
  <2>2. s # Rollback(NoName)
    BY <1>2, <1>7
  <2>3. CASE x.depth = 0
    <3>1. p.books = [x EXCEPT !.depth = 1, !.name = s.arg] /\ p.stmt = s
      BY <1>3, <2>1, <2>3 DEF Sqlite!OnBegin
    <3>2. p.books \in Bookkeeping /\ p.books.depth = 1
      <4>1. /\ [x EXCEPT !.depth = 1, !.name = s.arg] \in Bookkeeping
            /\ [x EXCEPT !.depth = 1, !.name = s.arg].depth = 1
        BY <2>1 DEF Bookkeeping
      <4>2. QED
        BY <3>1, <4>1
    <3>3. QED
      BY <1>2, <1>7, <2>2, <2>3, <3>1, <3>2 DEF Preprocessed
  <2>4. CASE x.depth # 0
    <3>1. p.books = [x EXCEPT !.depth = x.depth + 1] /\ p.stmt = Scrub
      BY <1>3, <2>1, <2>4 DEF Sqlite!OnBegin
    <3>2. p.books \in Bookkeeping /\ p.books.depth = x.depth + 1
      <4>1. x.depth + 1 \in Nat
        BY <2>1
      <4>2. /\ [x EXCEPT !.depth = x.depth + 1] \in Bookkeeping
            /\ [x EXCEPT !.depth = x.depth + 1].depth = x.depth + 1
        BY <4>1, BooksMoves
      <4>3. QED
        BY <3>1, <4>2
    <3>3. x.depth > 0 /\ p.books.depth \in Nat /\ p.books.depth > 0
      BY <2>1, <2>4, <3>2
    <3>4. QED
      BY <1>2, <1>7, <2>2, <2>4, <3>1, <3>2, <3>3 DEF Preprocessed
  <2>5. QED
    BY <2>3, <2>4
<1>8. CASE x.depth \notin Finished /\ s.op = "savepoint"
  <2>1. p = Sqlite!OnSavepoint(x, s) /\ s.arg \in Name
    BY <1>3, <1>8, StmtKinds DEF Sqlite!Preprocess
  <2>2. p.books = [x EXCEPT !.savepoints = Append(@, s.arg)] /\ p.stmt = s
    BY <1>3, <2>1 DEF Sqlite!OnSavepoint
  <2>3. p.books \in Bookkeeping /\ p.books.depth = x.depth
    <3>1. /\ [x EXCEPT !.savepoints = Append(@, s.arg)] \in Bookkeeping
          /\ [x EXCEPT !.savepoints = Append(@, s.arg)].depth = x.depth
      BY <2>1, BooksMoves
    <3>2. QED
      BY <2>2, <3>1
  <2>4. QED
    BY <1>2, <1>8, <2>2, <2>3 DEF Preprocessed
<1>9. CASE x.depth \notin Finished /\ s.op = "insert"
  <2>1. p.books = x /\ p.stmt = s
    BY <1>3, <1>9 DEF Sqlite!Preprocess
  <2>2. QED
    BY <1>2, <1>9, <2>1 DEF Preprocessed
<1>10. CASE x.depth \notin Finished /\ s.op = "commit"
  <2>1. p = Sqlite!OnCommit(x, s) /\ x.depth \in Nat /\ s # Rollback(NoName)
    BY <1>1, <1>2, <1>3, <1>10 DEF Sqlite!Preprocess
  <2>2. CASE x.depth = 0
    <3>1. p = Sends(x, Raise)
      BY <1>3, <2>1, <2>2 DEF Sqlite!OnCommit
    <3>2. QED
      BY <1>2, <1>3, <1>10, <2>1, <2>2, <3>1 DEF Preprocessed
  <2>3. CASE x.depth = 1
    <3>1. p.books = FinishedBooks(Committed) /\ p.stmt = s
      BY <1>3, <2>1, <2>3 DEF Sqlite!OnCommit
    <3>2. p.books \in Bookkeeping /\ p.books.depth = Committed
      BY <3>1, BooksMoves
    <3>3. QED
      BY <1>2, <1>10, <2>1, <2>3, <3>1, <3>2 DEF Preprocessed
  <2>4. CASE x.depth > 1
    <3>1. p.books = [x EXCEPT !.depth = x.depth - 1] /\ p.stmt = Scrub
      BY <1>3, <2>1, <2>4 DEF Sqlite!OnCommit
    <3>2. x.depth - 1 \in Nat /\ x.depth - 1 > 0 /\ x.depth > 0 /\ x.depth # 0
      BY <2>1, <2>4
    <3>3. p.books \in Bookkeeping /\ p.books.depth = x.depth - 1
      <4>1. /\ [x EXCEPT !.depth = x.depth - 1] \in Bookkeeping
            /\ [x EXCEPT !.depth = x.depth - 1].depth = x.depth - 1
        BY <3>2, BooksMoves
      <4>2. QED
        BY <3>1, <4>1
    <3>4. QED
      BY <1>2, <1>10, <2>1, <3>1, <3>2, <3>3 DEF Preprocessed
  <2>5. QED
    BY <2>1, <2>2, <2>3, <2>4
<1>11. CASE x.depth \notin Finished /\ s.op = "rollback"
  <2>1. p = Sqlite!OnRollback(x, s) /\ x.depth \in Nat
    BY <1>1, <1>3, <1>11 DEF Sqlite!Preprocess
  <2>2. Sqlite!KnownName(x, NoName)
    BY DEF Sqlite!KnownName
  <2>3. s = Rollback(NoName) => s.arg = NoName
    BY <1>2
  <2>4. CASE x.depth = 0 \/ ~ Sqlite!KnownName(x, s.arg)
    <3>1. p = Sends(x, Raise)
      BY <1>3, <2>1, <2>4 DEF Sqlite!OnRollback
    <3>2. ~ (s = Rollback(NoName) /\ x.depth > 0)
      BY <2>1, <2>2, <2>3, <2>4
    <3>3. QED
      BY <1>2, <1>3, <1>11, <2>1, <3>1, <3>2 DEF Preprocessed
  <2>5. CASE ~ (x.depth = 0 \/ ~ Sqlite!KnownName(x, s.arg))
    <3>1. p.books = FinishedBooks(RolledBack) /\ p.stmt = Rollback(NoName)
      BY <1>3, <2>1, <2>5 DEF Sqlite!OnRollback
    <3>2. p.books \in Bookkeeping /\ p.books.depth = RolledBack
      BY <3>1, BooksMoves
    <3>3. x.depth > 0 /\ Rollback(NoName) \in Stmt
      BY <2>1, <2>5, StmtMade
    <3>4. QED
      BY <1>2, <1>11, <2>1, <3>1, <3>2, <3>3 DEF Preprocessed
  <2>6. QED
    BY <2>4, <2>5
<1>12. CASE x.depth \notin Finished /\ s.op = "rollbackTo"
  <2>1. p = Sqlite!OnRollbackTo(x, s) /\ x.depth \in Nat /\ s # Rollback(NoName)
    BY <1>1, <1>2, <1>3, <1>12 DEF Sqlite!Preprocess
  <2>2. CASE x.depth = 0 \/ ~ Sqlite!KnownName(x, s.arg)
    <3>1. p = Sends(x, Raise)
      BY <1>3, <2>1, <2>2 DEF Sqlite!OnRollbackTo
    <3>2. QED
      BY <1>2, <1>3, <1>12, <2>1, <3>1 DEF Preprocessed
  <2>3. CASE ~ (x.depth = 0 \/ ~ Sqlite!KnownName(x, s.arg))
    <3>1. /\ p.stmt = s
          /\ p.books = IF Occurs(x.savepoints, s.arg)
                       THEN [x EXCEPT !.savepoints = PopThrough(@, s.arg)] ELSE x
      BY <1>3, <1>4, <1>5, <2>1, <2>3 DEF Sqlite!OnRollbackTo
    <3>2. Occurs(x.savepoints, s.arg) =>
            /\ [x EXCEPT !.savepoints = PopThrough(@, s.arg)] \in Bookkeeping
            /\ [x EXCEPT !.savepoints = PopThrough(@, s.arg)].depth = x.depth
      BY BooksMoves
    <3>3. p.books \in Bookkeeping /\ p.books.depth = x.depth
      BY <3>1, <3>2
    <3>4. QED
      BY <1>2, <1>12, <2>1, <3>1, <3>3 DEF Preprocessed
  <2>4. QED
    BY <2>2, <2>3
<1>13. QED
  BY <1>6, <1>7, <1>8, <1>9, <1>10, <1>11, <1>12, StmtKinds

(* What it takes for a connection of SQLite or MySQL to be settled.         *)
LEMMA LocalSettles ==
  ASSUME class \in {"asyncSqlite", "asyncMysql"}, NEW e \in Connection,
         e.closed => ~ e.open, e.level = 0,
         ~ e.open => e.work = e.durable /\ e.marks = <<>>
  PROVE  Settles(e)
  BY DEF Settles, Tsql, Sessions, NoTransactions

LEMMA LocalSettled ==
  ASSUME class \in {"asyncSqlite", "asyncMysql"}, NEW d, Settles(d)
  PROVE  /\ d \in Connection /\ d.durable \in SUBSET Row /\ d.work \in SUBSET Row
         /\ d.marks \in Seq(Mark) /\ d.level = 0 /\ (d.closed => ~ d.open)
         /\ ~ d.open => d.work = d.durable /\ d.marks = <<>>
  BY DEF Settles, Connection, Tsql

(* What SQLite makes of a statement it accepts.                             *)
LEMMA SqliteApplied ==
  ASSUME class = "asyncSqlite", NEW d, Settles(d), NEW s \in Stmt, Sqlite!Accepts(d, s),
         NEW e, e = Sqlite!Apply(d, s)
  PROVE  /\ Settles(e) /\ ~ d.closed /\ ~ e.closed
         /\ s.op # "commit" => e.durable = d.durable
         /\ s.op = "commit" => e.durable = d.work /\ e.work = d.work
         /\ s.op \in {"commit", "rollback"} => ~ e.open
<1>1. /\ d \in Connection /\ d.durable \in SUBSET Row /\ d.work \in SUBSET Row
      /\ d.marks \in Seq(Mark) /\ d.level = 0 /\ (d.closed => ~ d.open)
      /\ ~ d.open => d.work = d.durable /\ d.marks = <<>>
  BY LocalSettled
<1>2. ~ d.closed
  BY DEF Sqlite!Accepts
<1>3. CASE s.op = "begin"
  <2>1. Is([d EXCEPT !.open = TRUE], d.closed, TRUE, d.durable, d.work, d.marks, d.level)
    BY <1>1 DEF Connection, Is
  <2>2. e = [d EXCEPT !.open = TRUE]
    BY <1>3 DEF Sqlite!Apply
  <2>3. QED
    BY <1>1, <1>2, <1>3, <2>1, <2>2, LocalSettles DEF Is
<1>4. CASE s.op = "savepoint"
  <2>1. \A m \in Seq(Mark) :
          Is([d EXCEPT !.open = TRUE, !.marks = m], d.closed, TRUE, d.durable, d.work, m, d.level)
    BY <1>1 DEF Connection, Is
  <2>2. [name |-> s.arg, rows |-> d.work] \in Mark
    BY <1>1, <1>4, StmtKinds DEF Mark
  <2>3. Append(d.marks, [name |-> s.arg, rows |-> d.work]) \in Seq(Mark)
    BY <1>1, <2>2
  <2>4. e = [d EXCEPT !.open = TRUE, !.marks = Append(d.marks, [name |-> s.arg, rows |-> d.work])]
    BY <1>4 DEF Sqlite!Apply
  <2>5. \E m \in Seq(Mark) : Is(e, d.closed, TRUE, d.durable, d.work, m, d.level)
    BY <2>1, <2>3, <2>4
  <2>6. QED
    BY <1>1, <1>2, <1>4, <2>5, LocalSettles DEF Is
<1>5. CASE s.op = "insert"
  <2>1. \A w \in SUBSET Row :
          Is([d EXCEPT !.open = TRUE, !.work = w], d.closed, TRUE, d.durable, w, d.marks, d.level)
    BY <1>1 DEF Connection, Is
  <2>2. d.work \cup {s.arg} \in SUBSET Row
    BY <1>1, <1>5, StmtKinds
  <2>3. e = [d EXCEPT !.open = TRUE, !.work = d.work \cup {s.arg}]
    BY <1>5 DEF Sqlite!Apply
  <2>4. \E w \in SUBSET Row : Is(e, d.closed, TRUE, d.durable, w, d.marks, d.level)
    BY <2>1, <2>2, <2>3
  <2>5. QED
    BY <1>1, <1>2, <1>5, <2>4, LocalSettles DEF Is
<1>6. CASE s.op = "rollbackTo"
  <2>1. Occurs(MarkNames(d), s.arg)
    BY <1>6 DEF Sqlite!Accepts, Sqlite!Occurs, Occurs, Sqlite!MarkNames, MarkNames
  <2>2. e = ReturnTo(d, LastOf(MarkNames(d), s.arg))
    BY <1>6 DEF Sqlite!Apply, Sqlite!ReturnTo, ReturnTo, Sqlite!LastOf, LastOf,
                Sqlite!MarkNames, MarkNames
  <2>3. d.marks # <<>> /\ Is(e, d.closed, d.open, d.durable, e.work, e.marks, d.level)
    BY <1>1, <2>1, <2>2, ReturnToIs
  <2>4. d.open
    BY <1>1, <2>3
  <2>5. QED
    BY <1>1, <1>2, <1>6, <2>3, <2>4, LocalSettles DEF Is
<1>7. CASE s.op = "commit"
  <2>1. e = Settled(d, d.work)
    BY <1>7 DEF Sqlite!Apply, Sqlite!Settled, Settled
  <2>2. Is(e, d.closed, FALSE, d.work, d.work, <<>>, d.level)
    BY <1>1, <2>1, SettledIs
  <2>3. QED
    BY <1>1, <1>2, <1>7, <2>2, LocalSettles DEF Is
<1>8. CASE s.op = "rollback"
  <2>1. e = Discard(d)
    BY <1>8 DEF Sqlite!Apply, Sqlite!Discard, Discard, Sqlite!Settled, Settled
  <2>2. Is(e, d.closed, FALSE, d.durable, d.durable, <<>>, d.level)
    BY <1>1, <2>1, DiscardIs
  <2>3. QED
    BY <1>1, <1>2, <1>8, <2>2, LocalSettles DEF Is
<1>9. QED
  BY <1>3, <1>4, <1>5, <1>6, <1>7, <1>8, StmtKinds

(* What SQLite answers: work becomes durable in a COMMIT it accepts.        *)
SqliteAnswer(d, s, r) ==
  /\ r.ok \in BOOLEAN /\ Settles(r.db)
  /\ d.closed => r.db.closed
  /\ r.db.durable # d.durable => s.op = "commit"
  /\ s.op \in {"commit", "rollback"} => ~ r.db.open
  /\ s.op = "begin" /\ ~ d.open /\ ~ r.ok => ~ r.db.open
  /\ s.op = "commit" /\ r.ok => r.db.durable = d.work

LEMMA SqliteSent ==
  ASSUME class = "asyncSqlite", NEW o, NEW d, Settles(d), NEW s \in Stmt,
         NEW r \in SqliteSend(o, d, s)
  PROVE  r.obj = o /\ SqliteAnswer(d, s, r)
<1> DEFINE accepts == Sqlite!Accepts(d, s)
           results == IF Sqlite!Accepts(d, s) THEN {Sqlite!Apply(d, s)} ELSE {}
<1>1. PICK t \in Replies(d, s, accepts, results) : r = Outcome(o, t.db, t.ok)
  BY DEF SqliteSend
<1>2. accepts \in BOOLEAN
  BY DEF Sqlite!Accepts
<1>3. /\ d \in Connection /\ d.durable \in SUBSET Row /\ d.work \in SUBSET Row
      /\ d.marks \in Seq(Mark) /\ d.level = 0 /\ (d.closed => ~ d.open)
      /\ ~ d.open => d.work = d.durable /\ d.marks = <<>>
  BY LocalSettled
<1>4. r.obj = o /\ r.db = t.db /\ r.ok = t.ok
  BY <1>1 DEF Outcome
<1>5. accepts /\ t.db \in results => accepts /\ t.db = Sqlite!Apply(d, s)
  OBVIOUS
<1>6. ~ accepts /\ ~ d.closed =>
        \/ s.op = "begin" /\ d.open
        \/ s.op \in {"commit", "rollback"} /\ ~ d.open
        \/ s.op \in {"rollbackTo", "insert"}
  BY StmtKinds DEF Sqlite!Accepts
<1>7. accepts => Sqlite!Accepts(d, s)
  OBVIOUS
<1> HIDE DEF accepts, results
<1>8. \/ t.ok = TRUE /\ accepts /\ ~ d.closed /\ t.db \in results
      \/ t.ok = FALSE /\ t.db = Refuse(d, s) /\ (s.op = "insert" \/ d.closed \/ ~ accepts)
      \/ t.ok = FALSE /\ t.db = Dead(d)
  BY <1>1, <1>2, RepliesAre
<1>9. CASE t.ok = TRUE /\ accepts /\ t.db \in results
  <2>1. /\ Settles(t.db) /\ ~ d.closed
        /\ s.op # "commit" => t.db.durable = d.durable
        /\ s.op = "commit" => t.db.durable = d.work
        /\ s.op \in {"commit", "rollback"} => ~ t.db.open
    BY <1>5, <1>7, <1>9, SqliteApplied
  <2>2. QED
    BY <1>4, <1>9, <2>1 DEF SqliteAnswer
<1>10. CASE t.ok = FALSE /\ t.db = Refuse(d, s) /\ (s.op = "insert" \/ d.closed \/ ~ accepts)
  <2>1. CASE s.op = "insert" /\ ~ d.closed
    <3>1. Is(Refuse(d, s), d.closed, TRUE, d.durable, d.work, d.marks, d.level)
      BY <1>3, <2>1, RefuseIs
    <3>2. Settles(Refuse(d, s))
      BY <1>3, <2>1, <3>1, LocalSettles DEF Is
    <3>3. QED
      BY <1>4, <1>10, <2>1, <3>1, <3>2 DEF SqliteAnswer, Is
  <2>2. CASE s.op # "insert" \/ d.closed
    <3>1. t.db = d
      BY <1>3, <1>10, <2>2, RefuseIs
    <3>2. s.op \in {"commit", "rollback"} => ~ d.open
      BY <1>3, <1>6, <1>10, <2>2
    <3>3. QED
      BY <1>4, <1>10, <3>1, <3>2 DEF SqliteAnswer
  <2>3. QED
    BY <2>1, <2>2
<1>11. CASE t.ok = FALSE /\ t.db = Dead(d)
  <2>1. Settles(Dead(d)) /\ Dead(d).closed /\ ~ Dead(d).open /\ Dead(d).durable = d.durable
    BY <1>3, DeadSettles, DeadIs DEF Is
  <2>2. QED
    BY <1>4, <1>11, <2>1 DEF SqliteAnswer
<1>12. QED
  BY <1>8, <1>9, <1>10, <1>11

(* execute() of the synchronous context, of a statement preprocessed to p.  *)
SqliteRan(o, d, r, p) ==
  /\ Preprocessed(o.books, p) /\ Moved(o, r.obj) /\ r.obj.books = p.books
  /\ \/ r.db = d /\ r.ok = FALSE /\ p.stmt = Raise
     \/ r.db = d /\ r.ok = TRUE /\ p.stmt = Scrub
     \/ p.stmt \in Stmt /\ r \in SqliteSend(r.obj, d, p.stmt)

LEMMA SqliteExecuted ==
  ASSUME NEW o \in Object, NEW d, NEW s \in Stmt, NEW r \in SqliteExecute(o, d, s),
         NEW p, p = Sqlite!Preprocess(o.books, s)
  PROVE  SqliteRan(o, d, r, p)
<1> DEFINE q == [o EXCEPT !.books = p.books]
<1>1. o.books \in Bookkeeping
  BY DEF Object
<1>2. Preprocessed(o.books, p)
  BY <1>1, SqlitePreprocessed
<1>3. p.books \in Bookkeeping
  BY <1>2 DEF Preprocessed
<1>4. /\ q \in Object /\ q.books = p.books /\ q.cursor = o.cursor
      /\ (q.gone <=> o.gone) /\ (q.made <=> o.made) /\ (q.delegate <=> o.delegate)
  BY <1>3, WithBooks
<1>5. r \in IF p.stmt \in {Raise, Scrub} THEN {Outcome(q, d, p.stmt = Scrub)}
                                         ELSE SqliteSend(q, d, p.stmt)
  BY DEF SqliteExecute
<1> HIDE DEF q
<1>6. Moved(o, q)
  BY <1>2, <1>4 DEF Moved, Preprocessed
<1>7. Scrub # Raise
  BY DEF Scrub, Raise
<1>8. CASE p.stmt \in {Raise, Scrub}
  <2>1. r = Outcome(q, d, p.stmt = Scrub)
    BY <1>5, <1>8
  <2>2. r.obj = q /\ r.db = d /\ r.ok = (p.stmt = Scrub)
    BY <2>1 DEF Outcome
  <2>3. CASE p.stmt = Raise
    <3>1. r.ok = FALSE
      BY <1>7, <2>2, <2>3
    <3>2. QED
      BY <1>2, <1>4, <1>6, <2>2, <2>3, <3>1 DEF SqliteRan
  <2>4. CASE p.stmt = Scrub
    <3>1. r.ok = TRUE
      BY <2>2, <2>4
    <3>2. QED
      BY <1>2, <1>4, <1>6, <2>2, <2>4, <3>1 DEF SqliteRan
  <2>5. QED
    BY <1>8, <2>3, <2>4
<1>9. CASE p.stmt \notin {Raise, Scrub}
  <2>1. r \in SqliteSend(q, d, p.stmt)
    BY <1>5, <1>9
  <2>2. r.obj = q
    BY <2>1 DEF SqliteSend, Outcome
  <2>3. p.stmt \in Stmt
    BY <1>2, <1>9 DEF Preprocessed
  <2>4. QED
    BY <1>2, <1>4, <1>6, <2>1, <2>2, <2>3 DEF SqliteRan
<1>10. QED
  BY <1>8, <1>9

LEMMA SqliteServes ==
  ASSUME class = "asyncSqlite", NEW o, NEW d, Sound(o, d), Settles(d), o.made,
         NEW s \in Stmt, NEW r \in SqliteExecute(o, d, s)
  PROVE  /\ Serves(o, d, r) /\ Moved(o, r.obj)
         /\ r.ok /\ r.obj.books.depth = Committed => ~ r.db.open /\ r.db.durable = d.work
         /\ s = Rollback(NoName) /\ o.books.depth > 0 =>
              ~ r.db.open /\ r.db.durable = d.durable
         /\ s.op = "begin" /\ o.books.depth = 0 /\ ~ d.open =>
              /\ r.db.durable = d.durable /\ r.obj.books.depth = 1
              /\ ~ r.ok => ~ r.db.open
<1>1. o \in Object /\ o.books \in Bookkeeping /\ class \notin Sessions
  BY DEF Sound, Object, Sessions
<1> DEFINE x == o.books.depth
           y == r.obj.books.depth
<1>2. PICK p : p = Sqlite!Preprocess(o.books, s) /\ SqliteRan(o, d, r, p)
  BY <1>1, SqliteExecuted
<1>3. /\ Preprocessed(o.books, p) /\ Moved(o, r.obj) /\ r.obj.books = p.books
      /\ \/ r.db = d /\ r.ok = FALSE /\ p.stmt = Raise
         \/ r.db = d /\ r.ok = TRUE /\ p.stmt = Scrub
         \/ p.stmt \in Stmt /\ r \in SqliteSend(r.obj, d, p.stmt)
  BY <1>2 DEF SqliteRan
<1>4. /\ p.stmt = Raise => p.books = o.books
      /\ p.stmt = Scrub => x > 0 /\ y \in Nat /\ y > 0
      /\ p.stmt \in Stmt =>
           \/ p.stmt.op = "begin" /\ x = 0 /\ y = 1
           \/ p.stmt.op = "commit" /\ x = 1 /\ y = Committed
           \/ p.stmt.op = "rollback" /\ x > 0 /\ y = RolledBack
           \/ p.stmt.op \in {"savepoint", "rollbackTo", "insert"} /\ y = x
      /\ s = Rollback(NoName) /\ x \in Nat /\ x > 0 => p.stmt = s
      /\ s.op = "begin" /\ x = 0 => p.stmt = s /\ y = 1
  BY <1>1, <1>2, <1>3, SqlitePreprocessed
<1>5. p.stmt \in Stmt => p.stmt # Raise /\ p.stmt # Scrub
  BY StmtKinds
<1>6. /\ x \in Finished => p.stmt = Raise
      /\ x \notin Finished => x \in Nat
      /\ x > 0 => x \in Nat
      /\ {Committed, RolledBack} \subseteq Finished /\ ~ (Committed > 0) /\ ~ (Committed \in Nat)
      /\ Committed # RolledBack
  BY <1>1, <1>3, BooksFields DEF Preprocessed, Finished, Exited, Committed, RolledBack
<1>7. p.stmt \in Stmt => SqliteAnswer(d, p.stmt, r)
  BY <1>3, <1>5, SqliteSent
<1>8. Good(o, d, r)
  <2>1. r.ok \in BOOLEAN /\ Settles(r.db) /\ (d.closed => r.db.closed)
    <3>1. CASE p.stmt \in Stmt
      BY <1>7, <3>1 DEF SqliteAnswer
    <3>2. CASE p.stmt \notin Stmt
      BY <1>3, <3>2
    <3>3. QED
      BY <3>1, <3>2
  <2>2. QED
    BY <1>1, <1>3, <2>1, MovedGood
<1>9. Working(o, d) =>
        /\ y > 0 \/ (y \in {Committed, RolledBack} /\ ~ r.db.open)
        /\ r.db.durable # d.durable => x > 0 /\ y = Committed
  <2>1. SUFFICES ASSUME Working(o, d)
                 PROVE  /\ y > 0 \/ (y \in {Committed, RolledBack} /\ ~ r.db.open)
                        /\ r.db.durable # d.durable => x > 0 /\ y = Committed
    OBVIOUS
  <2>2. x > 0 \/ (x \in {Committed, RolledBack} /\ ~ d.open)
    BY <2>1 DEF Working
  <2>3. CASE p.stmt = Raise
    <3>1. r.db = d /\ y = x
      BY <1>3, <1>4, <1>5, <2>3 DEF Scrub, Raise
    <3>2. QED
      BY <2>2, <3>1
  <2>4. CASE p.stmt = Scrub
    BY <1>3, <1>4, <1>5, <2>4 DEF Scrub, Raise
  <2>5. CASE p.stmt \in Stmt
    <3>1. x \in Nat /\ x > 0
      BY <1>5, <1>6, <2>2, <2>5
    <3>2. /\ r.db.durable # d.durable => p.stmt.op = "commit"
          /\ p.stmt.op \in {"commit", "rollback"} => ~ r.db.open
      BY <1>7, <2>5 DEF SqliteAnswer
    <3> HIDE DEF x, y
    <3>3. QED
      BY <1>4, <2>5, <3>1, <3>2
  <2>6. QED
    BY <1>3, <2>3, <2>4, <2>5
<1>10. Serves(o, d, r)
  <2>1. Working(o, d) => Working(r.obj, r.db)
    <3>1. class \notin Tsql /\ class # "asyncMysql"
      BY DEF Tsql
    <3>2. QED
      BY <1>3, <1>9, <3>1 DEF Working, Moved
  <2>2. QED
    BY <1>8, <1>9, <2>1 DEF Serves
<1>11. r.ok /\ y = Committed => ~ r.db.open /\ r.db.durable = d.work
  <2>1. HAVE r.ok /\ y = Committed
  <2>2. p.stmt \in Stmt
    BY <1>3, <1>4, <1>6, <2>1
  <2>3. p.stmt.op = "commit"
    <3>1. y # x
      BY <1>5, <1>6, <2>1, <2>2
    <3>2. y # 1 /\ y # RolledBack
      BY <1>6, <2>1 DEF Committed, RolledBack
    <3> HIDE DEF x, y
    <3>3. QED
      BY <1>4, <2>2, <3>1, <3>2
  <2>4. QED
    BY <1>7, <2>1, <2>2, <2>3 DEF SqliteAnswer
<1>12. s = Rollback(NoName) /\ x > 0 => ~ r.db.open /\ r.db.durable = d.durable
  <2>1. HAVE s = Rollback(NoName) /\ x > 0
  <2>2. p.stmt = s /\ s.op = "rollback"
    BY <1>4, <1>6, <2>1 DEF Rollback
  <2>3. SqliteAnswer(d, s, r)
    BY <1>7, <2>2
  <2>4. QED
    BY <2>2, <2>3 DEF SqliteAnswer
<1>13. s.op = "begin" /\ x = 0 /\ ~ d.open =>
         /\ r.db.durable = d.durable /\ y = 1
         /\ ~ r.ok => ~ r.db.open
  <2>1. HAVE s.op = "begin" /\ x = 0 /\ ~ d.open
  <2>2. p.stmt = s /\ y = 1
    BY <1>4, <2>1
  <2>3. SqliteAnswer(d, s, r)
    BY <1>7, <2>2
  <2>4. QED
    BY <2>1, <2>2, <2>3 DEF SqliteAnswer
<1>14. QED
  BY <1>3, <1>10, <1>11, <1>12, <1>13

(* The shim's first call makes the synchronous context and enters it; later *)
(* calls find it.                                                           *)
LEMMA SqliteInnerIs ==
  ASSUME class = "asyncSqlite", NEW o, NEW d, Sound(o, d), Settles(d),
         NEW r \in AsyncSqliteInner(o, d)
  PROVE  /\ Enters(o, d, r) /\ r.obj.made
         /\ o.made => r.obj = o /\ r.db = d /\ r.ok = TRUE
<1>1. o \in Object /\ class \notin Tsql /\ class \notin Sessions
  BY DEF Sound, Tsql, Sessions
<1>2. CASE o.made
  <2>1. r \in Returned(o, d)
    BY <1>2 DEF AsyncSqliteInner
  <2>2. r.obj = o /\ r.db = d /\ r.ok = TRUE
    BY <2>1 DEF Returned, Outcome
  <2>3. Good(o, d, r)
    BY <1>1, <1>2, <2>1, NotMoved, NothingSent
  <2>4. QED
    BY <1>2, <2>2, <2>3 DEF Enters
<1>3. CASE ~ o.made
  <2> DEFINE q == [o EXCEPT !.made = TRUE]
  <2>1. r \in SqliteExecute(q, d, Begin(NoName))
    BY <1>3 DEF AsyncSqliteInner
  <2>2. q \in Object /\ q.books = o.books /\ q.cursor = o.cursor /\ (q.gone <=> o.gone) /\ q.made
    BY <1>1 DEF Object
  <2> HIDE DEF q
  <2>3. Sound(q, d)
    BY <1>1, <2>2 DEF Sound
  <2>4. Begin(NoName) \in Stmt /\ Begin(NoName).op = "begin"
    BY StmtMade DEF Begin
  <2>5. /\ Serves(q, d, r) /\ Moved(q, r.obj)
        /\ q.books.depth = 0 /\ ~ d.open =>
             /\ r.db.durable = d.durable /\ r.obj.books.depth = 1
             /\ ~ r.ok => ~ r.db.open
    BY <2>1, <2>2, <2>3, <2>4, SqliteServes
  <2>6. Good(o, d, r)
    BY <2>2, <2>5 DEF Serves, Good
  <2>7. r.obj.made /\ (r.obj.gone <=> o.gone)
    BY <2>2, <2>5 DEF Moved
  <2>8. o.books.depth = 0 /\ ~ o.gone /\ ~ d.open =>
          /\ r.db.durable = d.durable
          /\ Working(r.obj, r.db)
          /\ ~ r.ok => ~ r.db.open
    BY <1>1, <2>2, <2>5, <2>7 DEF Working
  <2>9. QED
    BY <1>3, <2>6, <2>7, <2>8 DEF Enters
<1>4. QED
  BY <1>2, <1>3

(* A call of the shim is the call of the synchronous context, once that was *)
(* made.                                                                    *)
LEMMA SqliteThrough ==
  ASSUME class = "asyncSqlite", NEW o, NEW d, Sound(o, d), Settles(d),
         NEW a \in AsyncSqliteInner(o, d), NEW r,
         a.ok => Good(a.obj, a.db, r), ~ a.ok => r = a
  PROVE  /\ Good(o, d, r)
         /\ (a.ok => Serves(a.obj, a.db, r)) => Serves(o, d, r)
<1>1. o \in Object
  BY DEF Sound
<1>2. Good(o, d, a) /\ (o.made => a.obj = o /\ a.db = d /\ a.ok = TRUE)
  BY SqliteInnerIs DEF Enters
<1>3. Good(o, d, r)
  BY <1>1, <1>2, GoodTwice
<1>4. ASSUME a.ok => Serves(a.obj, a.db, r)
      PROVE  Serves(o, d, r)
  <2>1. CASE ~ o.made
    <3>1. ~ Working(o, d)
      BY <2>1 DEF Working
    <3>2. QED
      BY <1>3, <3>1 DEF Serves
  <2>2. CASE o.made
    BY <1>2, <1>4, <2>2
  <2>3. QED
    BY <2>1, <2>2
<1>5. QED
  BY <1>3, <1>4

LEMMA AsyncSqliteServes ==
  ASSUME class = "asyncSqlite", NEW o, NEW d, Sound(o, d), Settles(d),
         NEW s \in Stmt, NEW r \in AsyncSqliteExecute(o, d, s)
  PROVE  Serves(o, d, r)
<1>1. PICK a \in AsyncSqliteInner(o, d) :
        r \in IF a.ok THEN SqliteExecute(a.obj, a.db, s) ELSE {a}
  BY DEF AsyncSqliteExecute, Then
<1>2. Sound(a.obj, a.db) /\ Settles(a.db) /\ a.obj.made
  BY SqliteInnerIs DEF Enters, Good
<1>3. a.ok => Serves(a.obj, a.db, r)
  BY <1>1, <1>2, SqliteServes
<1>4. a.ok => Good(a.obj, a.db, r)
  BY <1>3 DEF Serves
<1>5. ~ a.ok => r = a
  BY <1>1
<1>6. QED
  BY <1>3, <1>4, <1>5, SqliteThrough

(* What reaches SQLite past the books.                                      *)
LEMMA SqliteSendGood ==
  ASSUME class = "asyncSqlite", NEW o, NEW d, Sound(o, d), Settles(d), o.made,
         NEW s \in Stmt, NEW q, Moved(o, q), NEW r \in SqliteSend(q, d, s)
  PROVE  Good(o, d, r)
<1>1. r.obj = q /\ SqliteAnswer(d, s, r)
  BY SqliteSent
<1>2. Moved(o, r.obj)
  BY <1>1
<1>3. r.ok \in BOOLEAN /\ Settles(r.db) /\ (d.closed => r.db.closed) /\ class \notin Sessions
  BY <1>1 DEF SqliteAnswer, Sessions
<1>4. QED
  BY <1>2, <1>3, MovedGood

LEMMA AsyncSqliteRawGood ==
  ASSUME class = "asyncSqlite", NEW o, NEW d, Sound(o, d), Settles(d),
         NEW s \in Stmt, NEW r \in AsyncSqliteRaw(o, d, s)
  PROVE  Good(o, d, r)
<1>1. PICK a \in AsyncSqliteInner(o, d) :
        r \in IF a.ok THEN SqliteSend(a.obj, a.db, s) ELSE {a}
  BY DEF AsyncSqliteRaw, Then
<1>2. Sound(a.obj, a.db) /\ Settles(a.db) /\ a.obj.made /\ Moved(a.obj, a.obj)
  <2>1. Sound(a.obj, a.db) /\ Settles(a.db) /\ a.obj.made
    BY SqliteInnerIs DEF Enters, Good
  <2>2. QED
    BY <2>1, NotMoved DEF Sound
<1>3. a.ok => Good(a.obj, a.db, r)
  BY <1>1, <1>2, SqliteSendGood
<1>4. ~ a.ok => r = a
  BY <1>1
<1>5. QED
  BY <1>3, <1>4, SqliteThrough

LEMMA AsyncSqliteCursorServes ==
  ASSUME class = "asyncSqlite", NEW o, NEW d, Sound(o, d), Settles(d),
         NEW n \in Row, NEW r \in AsyncSqliteCursorInsert(o, d, n)
  PROVE  /\ Good(o, d, r)
         /\ o.books.depth \notin Finished => Serves(o, d, r)
<1>1. PICK a \in AsyncSqliteInner(o, d) :
        r \in IF a.ok THEN SqliteSend(a.obj, a.db, Insert(n)) ELSE {a}
  BY DEF AsyncSqliteCursorInsert, Then
<1>2. /\ Sound(a.obj, a.db) /\ Settles(a.db) /\ a.obj.made /\ Moved(a.obj, a.obj)
      /\ o.made => a.obj = o /\ a.db = d /\ a.ok = TRUE
  <2>1. /\ Sound(a.obj, a.db) /\ Settles(a.db) /\ a.obj.made
        /\ o.made => a.obj = o /\ a.db = d /\ a.ok = TRUE
    BY SqliteInnerIs DEF Enters, Good
  <2>2. QED
    BY <2>1, NotMoved DEF Sound
<1>3. Insert(n) \in Stmt /\ Insert(n).op = "insert"
  BY StmtMade DEF Insert
<1>4. a.ok => Good(a.obj, a.db, r)
  BY <1>1, <1>2, <1>3, SqliteSendGood
<1>5. ~ a.ok => r = a
  BY <1>1
<1>6. Good(o, d, r)
  BY <1>4, <1>5, SqliteThrough
<1>7. ASSUME o.books.depth \notin Finished, Working(o, d)
      PROVE  Working(r.obj, r.db) /\ r.db.durable = d.durable
  <2>1. o.made /\ a.obj = o /\ a.db = d /\ a.ok = TRUE
    BY <1>2, <1>7 DEF Working
  <2>2. r \in SqliteSend(o, d, Insert(n))
    BY <1>1, <2>1
  <2>3. r.obj = o /\ SqliteAnswer(d, Insert(n), r)
    BY <1>3, <2>2, SqliteSent
  <2>4. r.db.durable = d.durable
    BY <1>3, <2>3 DEF SqliteAnswer
  <2>5. o.books.depth > 0 /\ class \notin Tsql
    BY <1>7 DEF Working, Finished, Tsql
  <2>6. QED
    BY <1>7, <2>3, <2>4, <2>5 DEF Working
<1>8. QED
  BY <1>6, <1>7 DEF Serves

(* The lines a and b of a script of two, preprocessed to p and q, and what  *)
(* is left of them to send.                                                 *)
Lined(o, s, t, p, a, q, b, lines) ==
  /\ Preprocessed(o.books, p) /\ a = Line(o, p, s)
  /\ Preprocessed(a.obj.books, q) /\ b = Line(a.obj, q, t) /\ lines = a.sent \o b.sent

(* What becomes of the object, and what is sent.                            *)
LEMMA TwoLines ==
  ASSUME NEW o \in Object, NEW s, NEW t, NEW p, NEW a, NEW q, NEW b, NEW lines,
         Lined(o, s, t, p, a, q, b, lines)
  PROVE  /\ Moved(o, a.obj) /\ Moved(o, b.obj) /\ a.ok \in BOOLEAN /\ b.ok \in BOOLEAN
         /\ lines # <<>> =>
              \/ lines[1] = s /\ p.stmt \notin {Raise, Scrub}
              \/ lines[1] = t /\ q.stmt \notin {Raise, Scrub}
<1>1. /\ Moved(o, a.obj) /\ a.sent \in {<<>>, <<s>>} /\ a.ok \in BOOLEAN
      /\ a.sent # <<>> => p.stmt \notin {Raise, Scrub}
  BY LineMoves DEF Lined
<1>2. a.obj \in Object
  BY <1>1 DEF Moved
<1>3. /\ Moved(a.obj, b.obj) /\ b.sent \in {<<>>, <<t>>} /\ b.ok \in BOOLEAN
      /\ b.sent # <<>> => q.stmt \notin {Raise, Scrub}
  BY <1>2, LineMoves DEF Lined
<1>4. Moved(o, b.obj)
  BY <1>1, <1>3, MovedTwice
<1>5. ASSUME lines # <<>>
      PROVE  \/ lines[1] = s /\ p.stmt \notin {Raise, Scrub}
             \/ lines[1] = t /\ q.stmt \notin {Raise, Scrub}
  <2>1. \/ lines = <<s>> /\ a.sent # <<>>
        \/ lines = <<t>> /\ b.sent # <<>>
        \/ lines = <<s, t>> /\ a.sent # <<>> /\ b.sent # <<>>
    BY <1>1, <1>3, <1>5, LinesLeft DEF Lined
  <2>2. <<s>>[1] = s /\ <<t>>[1] = t /\ <<s, t>>[1] = s
    OBVIOUS
  <2>3. QED
    BY <1>1, <1>3, <2>1, <2>2
<1>6. QED
  BY <1>1, <1>3, <1>4, <1>5

LEMMA AsyncSqliteScriptGood ==
  ASSUME class = "asyncSqlite", NEW o, NEW d, Sound(o, d), Settles(d),
         NEW s \in Stmt, NEW t \in Stmt, NEW r \in AsyncSqliteScript(o, d, s, t)
  PROVE  Good(o, d, r)
<1>1. PICK i \in AsyncSqliteInner(o, d) :
        r \in IF i.ok THEN Script(i.obj, i.db, s, t,
                                  LAMBDA y, u : Line(y, Sqlite!Preprocess(y.books, u), u),
                                  LAMBDA y, e, left : IF Len(left) > 1 THEN Raised(y, e)
                                                      ELSE SqliteSend(y, e, left[1]))
                      ELSE {i}
  BY DEF AsyncSqliteScript, Then
<1>2. Sound(i.obj, i.db) /\ Settles(i.db) /\ i.obj.made
  BY SqliteInnerIs DEF Enters, Good
<1>3. i.obj \in Object /\ i.obj.books \in Bookkeeping /\ class \notin Sessions
  BY <1>2 DEF Sound, Object, Sessions
<1> DEFINE p == Sqlite!Preprocess(i.obj.books, s)
           a == Line(i.obj, p, s)
           q == Sqlite!Preprocess(a.obj.books, t)
           b == Line(a.obj, q, t)
           lines == a.sent \o b.sent
<1>4. i.ok => r \in CASE ~ a.ok -> Raised(a.obj, i.db)
                      [] a.ok /\ ~ b.ok -> Raised(b.obj, i.db)
                      [] a.ok /\ b.ok /\ lines = <<>> -> Returned(b.obj, i.db)
                      [] a.ok /\ b.ok /\ lines # <<>> ->
                           IF Len(lines) > 1 THEN Raised(b.obj, i.db)
                                             ELSE SqliteSend(b.obj, i.db, lines[1])
  BY <1>1 DEF Script
<1>5. Preprocessed(i.obj.books, p)
  BY <1>3, SqlitePreprocessed
<1>6. a.obj \in Object /\ a.obj.books \in Bookkeeping
  BY <1>3, <1>5, LineMoves DEF Moved, Object
<1>7. Preprocessed(a.obj.books, q)
  BY <1>6, SqlitePreprocessed
<1>8. /\ Moved(i.obj, a.obj) /\ Moved(i.obj, b.obj) /\ a.ok \in BOOLEAN /\ b.ok \in BOOLEAN
      /\ lines # <<>> => lines[1] \in {s, t}
  <2>1. a = Line(i.obj, p, s) /\ b = Line(a.obj, q, t) /\ lines = a.sent \o b.sent
    OBVIOUS
  <2> HIDE DEF p, a, q, b, lines
  <2>2. Lined(i.obj, s, t, p, a, q, b, lines)
    BY <1>5, <1>7, <2>1 DEF Lined
  <2>3. Moved(i.obj, a.obj) /\ Moved(i.obj, b.obj) /\ a.ok \in BOOLEAN /\ b.ok \in BOOLEAN
    BY <1>3, <2>2, TwoLines
  <2>4. lines # <<>> => lines[1] \in {s, t}
    BY <1>3, <2>2, TwoLines
  <2>5. QED
    BY <2>3, <2>4
<1> HIDE DEF p, a, q, b, lines
<1>9. i.ok => Good(i.obj, i.db, r)
  <2>1. HAVE i.ok
  <2>2. CASE r \in Raised(a.obj, i.db) \cup Returned(a.obj, i.db)
    BY <1>2, <1>3, <1>8, <2>2, NothingSent
  <2>3. CASE r \in Raised(b.obj, i.db) \cup Returned(b.obj, i.db)
    BY <1>2, <1>3, <1>8, <2>3, NothingSent
  <2>4. CASE lines # <<>> /\ r \in SqliteSend(b.obj, i.db, lines[1])
    <3>1. lines[1] \in Stmt
      BY <1>8, <2>4
    <3>2. QED
      BY <1>2, <1>8, <2>4, <3>1, SqliteSendGood
  <2>5. QED
    BY <1>4, <1>8, <2>1, <2>2, <2>3, <2>4
<1>10. ~ i.ok => r = i
  BY <1>1
<1>11. QED
  BY <1>9, <1>10, SqliteThrough

LEMMA AsyncSqliteCloseGood ==
  ASSUME class = "asyncSqlite", NEW o, NEW d, Sound(o, d), Settles(d), NEW owned \in BOOLEAN,
         NEW r, r = AsyncSqliteClose(o, d, owned)
  PROVE  /\ Good(o, d, r) /\ r.obj = o /\ r.obj.cursor # "open"
         /\ (owned /\ o.made => r.db.closed) /\ r.db.durable = d.durable
         /\ ~ d.open => ~ r.db.open
         /\ r = Outcome(r.obj, r.db, r.ok)
<1>1. o \in Object /\ d \in Connection /\ o.cursor # "open" /\ class \notin Tsql
  BY DEF Sound, Settles, Sessions, Tsql
<1>2. Settles(Dead(d)) /\ Dead(d).closed /\ ~ Dead(d).open /\ Dead(d).durable = d.durable
  BY <1>1, DeadSettles, DeadIs DEF Is
<1>3. Sound(o, Dead(d))
  BY <1>1 DEF Sound
<1> DEFINE e == IF o.made /\ owned THEN Dead(d) ELSE d
<1>4. /\ Settles(e) /\ Sound(o, e) /\ (d.closed => e.closed) /\ e.durable = d.durable
      /\ (o.made /\ owned => e.closed) /\ (~ d.open => ~ e.open)
  BY <1>2, <1>3
<1>5. r = Outcome(o, e, TRUE)
  BY DEF AsyncSqliteClose
<1> HIDE DEF e
<1>6. r.obj = o /\ r.db = e /\ r.ok = TRUE
  BY <1>5 DEF Outcome
<1>7. QED
  BY <1>1, <1>4, <1>5, <1>6 DEF Good

LEMMA AsyncSqliteLeaves ==
  ASSUME class = "asyncSqlite", NEW o, NEW d, Sound(o, d), Settles(d), NEW owned \in BOOLEAN,
         NEW r \in AsyncSqliteExit(o, d, owned)
  PROVE  Leaves(o, d, r, owned)
<1> DEFINE rolled == IF o.made /\ o.books.depth > 0
                     THEN SqliteExecute(o, d, Rollback(NoName)) ELSE Returned(o, d)
<1>1. PICK a \in rolled : r = [AsyncSqliteClose(a.obj, a.db, owned) EXCEPT !.obj.books.depth = Exited]
  BY DEF AsyncSqliteExit, Leave
<1>2. o \in Object /\ (o.books.depth > 0 => o.made) /\ class \notin Tsql
  BY DEF Sound, Tsql
<1>3. /\ Good(o, d, a)
      /\ o.made => a.obj.made
      /\ o.books.depth > 0 => ~ a.db.open /\ a.db.durable = d.durable
      /\ ~ (o.books.depth > 0) => a.db = d
  <2>1. CASE o.books.depth > 0
    <3>1. Rollback(NoName) \in Stmt /\ o.made
      BY <1>2, <2>1, StmtMade
    <3>2. a \in SqliteExecute(o, d, Rollback(NoName))
      BY <1>1, <2>1, <3>1
    <3>3. Serves(o, d, a) /\ Moved(o, a.obj) /\ ~ a.db.open /\ a.db.durable = d.durable
      BY <2>1, <3>1, <3>2, SqliteServes
    <3>4. QED
      BY <2>1, <3>3 DEF Serves, Moved
  <2>2. CASE ~ (o.books.depth > 0)
    <3>1. a.obj = o /\ a.db = d /\ a.ok = TRUE
      BY <1>1, <2>2 DEF Returned, Outcome
    <3>2. Good(o, d, a)
      BY <3>1 DEF Good
    <3>3. QED
      BY <2>2, <3>1, <3>2
  <2>3. QED
    BY <2>1, <2>2
<1> HIDE DEF rolled
<1>4. PICK c : c = AsyncSqliteClose(a.obj, a.db, owned)
  OBVIOUS
<1>5. Sound(a.obj, a.db) /\ Settles(a.db)
  BY <1>3 DEF Good
<1>6. /\ Good(a.obj, a.db, c) /\ c.obj.cursor # "open"
      /\ (owned /\ a.obj.made => c.db.closed) /\ c.db.durable = a.db.durable
      /\ ~ a.db.open => ~ c.db.open
      /\ c = Outcome(c.obj, c.db, c.ok)
  BY <1>4, <1>5, AsyncSqliteCloseGood
<1>7. Good(o, d, c)
  BY <1>2, <1>3, <1>6, GoodTwice
<1>8. r = [c EXCEPT !.obj.books.depth = Exited]
  BY <1>1, <1>4
<1>9. Good(o, d, r) /\ r.db = c.db
  BY <1>2, <1>6, <1>7, <1>8, LeaveMarks
<1>10. Working(o, d) => o.made /\ (~ (o.books.depth > 0) => ~ d.open)
  BY DEF Working
<1>11. QED
  BY <1>3, <1>6, <1>9, <1>10 DEF Leaves

-----------------------------------------------------------------------------
(* The asynchronous context of MySQL: the books change, and nothing is sent. *)

LEMMA MysqlPreprocessed ==
  ASSUME NEW x \in Bookkeeping, NEW s \in Stmt, NEW p, p = Mysql!Preprocess(x, s)
  PROVE  /\ Preprocessed(x, p)
         /\ s.op = "begin" /\ x.depth = 0 => p.stmt # Scrub
<1>1. /\ x.savepoints \in Seq(Name) /\ x.name \in Name \cup {NoName}
      /\ x.depth \notin Finished => x.depth \in Nat
      /\ x.depth \in Nat => x.depth \notin Finished
      /\ ~ Occurs(x.savepoints, NoName)
  BY BooksFields
<1>2. /\ Raise \notin Stmt /\ Scrub \notin Stmt /\ Scrub # Raise
      /\ Begin(NoName) \in Stmt /\ Rollback(NoName) \in Stmt
      /\ \A n \in Name : RollbackTo(n) \in Stmt
  BY StmtMade DEF Stmt, Raise, Scrub, Commit, Rollback
<1>3. /\ Mysql!Raise = Raise /\ Mysql!Scrub = Scrub /\ Mysql!Finished = Finished
      /\ Mysql!Begin(NoName) = Begin(NoName) /\ Mysql!Rollback(NoName) = Rollback(NoName)
      /\ \A n : Mysql!RollbackTo(n) = RollbackTo(n)
      /\ \A k : Mysql!FinishedBooks(k) = FinishedBooks(k)
      /\ Mysql!Committed = Committed /\ Mysql!RolledBack = RolledBack
      /\ \A y, u : Mysql!Sends(y, u) = Sends(y, u)
      /\ \A y, u : Sends(y, u).books = y /\ Sends(y, u).stmt = u
  BY DEF Mysql!Raise, Raise, Mysql!Scrub, Scrub, Mysql!Finished, Finished, Mysql!Exited,
         Exited, Mysql!Committed, Committed, Mysql!RolledBack, RolledBack, Mysql!Rollback,
         Rollback, Mysql!FinishedBooks, FinishedBooks, Mysql!Sends, Sends, Mysql!Begin, Begin,
         Mysql!RollbackTo, RollbackTo
<1>4. \A u, n : Mysql!Occurs(u, n) <=> Occurs(u, n)
  BY DEF Mysql!Occurs, Occurs
<1>5. \A u, n : Mysql!PopThrough(u, n) = PopThrough(u, n)
  BY DEF Mysql!PopThrough, PopThrough, Mysql!LastOf, LastOf
<1>6. /\ \A k \in Nat : [x EXCEPT !.depth = k] \in Bookkeeping
      /\ \A n \in Name : [x EXCEPT !.savepoints = Append(@, n)] \in Bookkeeping
      /\ \A n : Occurs(x.savepoints, n) =>
           [x EXCEPT !.savepoints = PopThrough(@, n)] \in Bookkeeping
      /\ \A k \in {Committed, RolledBack} : FinishedBooks(k) \in Bookkeeping
  BY BooksMoves
<1>7. CASE x.depth \in Finished
  <2>1. p = Sends(x, Raise)
    BY <1>3, <1>7 DEF Mysql!Preprocess
  <2>2. QED
    BY <1>2, <1>3, <2>1 DEF Preprocessed
<1>8. CASE x.depth \notin Finished /\ s.op = "begin"
  <2>1. p = Mysql!OnBegin(x, s) /\ x.depth \in Nat /\ s.arg \in Name \cup {NoName}
    BY <1>1, <1>3, <1>8, StmtKinds DEF Mysql!Preprocess
  <2>2. CASE x.depth > 0
    <3>1. p = Sends(x, Scrub) /\ x.depth # 0
      BY <1>3, <2>1, <2>2 DEF Mysql!OnBegin
    <3>2. QED
      BY <1>3, <1>8, <3>1 DEF Preprocessed
  <2>3. CASE ~ (x.depth > 0)
    <3>1. p.books = [x EXCEPT !.depth = 1, !.name = s.arg] /\ p.stmt = Begin(NoName)
      BY <1>3, <2>1, <2>3 DEF Mysql!OnBegin
    <3>2. [x EXCEPT !.depth = 1, !.name = s.arg] \in Bookkeeping
      BY <2>1 DEF Bookkeeping
    <3>3. QED
      BY <1>2, <1>8, <3>1, <3>2 DEF Preprocessed
  <2>4. QED
    BY <2>2, <2>3
<1>9. CASE x.depth \notin Finished /\ s.op = "savepoint"
  <2>1. p = Mysql!OnSavepoint(x, s) /\ s.arg \in Name
    BY <1>3, <1>9, StmtKinds DEF Mysql!Preprocess
  <2>2. p.books = [x EXCEPT !.savepoints = Append(@, s.arg)] /\ p.stmt = s
    BY <1>3, <2>1 DEF Mysql!OnSavepoint
  <2>3. p.books \in Bookkeeping
    BY <1>6, <2>1, <2>2
  <2>4. QED
    BY <1>9, <2>2, <2>3 DEF Preprocessed
<1>10. CASE x.depth \notin Finished /\ s.op = "commit"
  <2>1. p = Mysql!OnCommit(x, s) /\ x.depth \in Nat
    BY <1>1, <1>3, <1>10 DEF Mysql!Preprocess
  <2>2. CASE x.depth = 0
    <3>1. p = Sends(x, Raise)
      BY <1>3, <2>1, <2>2 DEF Mysql!OnCommit
    <3>2. QED
      BY <1>3, <1>10, <3>1 DEF Preprocessed
  <2>3. CASE x.depth = 1
    <3>1. p.books = FinishedBooks(Committed) /\ p.stmt = s
      BY <1>3, <2>1, <2>3 DEF Mysql!OnCommit
    <3>2. QED
      BY <1>6, <1>10, <3>1 DEF Preprocessed
  <2>4. CASE x.depth > 1
    <3>1. p.books = [x EXCEPT !.depth = x.depth - 1] /\ p.stmt = Scrub
      BY <1>3, <2>1, <2>4 DEF Mysql!OnCommit
    <3>2. x.depth - 1 \in Nat
      BY <2>1, <2>4
    <3>3. p.books \in Bookkeeping
      BY <1>6, <3>1, <3>2
    <3>4. QED
      BY <1>10, <3>1, <3>3 DEF Preprocessed
  <2>5. QED
    BY <2>1, <2>2, <2>3, <2>4
<1>11. CASE x.depth \notin Finished /\ s.op \in {"rollback", "rollbackTo"}
  <2>1. p = Mysql!OnRollback(x, s) /\ x.depth \in Nat
    BY <1>1, <1>3, <1>11 DEF Mysql!Preprocess
  <2>2. CASE x.depth > 0 /\ Occurs(x.savepoints, s.arg)
    <3>1. /\ p.books = [x EXCEPT !.savepoints = PopThrough(@, s.arg)]
          /\ p.stmt = RollbackTo(s.arg)
      BY <1>3, <1>4, <1>5, <2>1, <2>2 DEF Mysql!OnRollback
    <3>2. s.arg \in Name
      BY <1>1, <1>11, <2>2, StmtKinds
    <3>3. p.books \in Bookkeeping
      BY <1>6, <2>2, <3>1
    <3>4. QED
      BY <1>2, <1>11, <3>1, <3>2, <3>3 DEF Preprocessed
  <2>3. CASE x.depth > 0 /\ ~ Occurs(x.savepoints, s.arg) /\ s.arg \in {NoName, x.name}
    <3>1. p.books = FinishedBooks(RolledBack) /\ p.stmt = Rollback(NoName)
      BY <1>3, <1>4, <2>1, <2>3 DEF Mysql!OnRollback
    <3>2. QED
      BY <1>2, <1>6, <1>11, <3>1 DEF Preprocessed
  <2>4. CASE ~ (x.depth > 0) \/ (~ Occurs(x.savepoints, s.arg) /\ s.arg \notin {NoName, x.name})
    <3>1. p = Sends(x, Raise)
      BY <1>3, <1>4, <2>1, <2>4 DEF Mysql!OnRollback
    <3>2. QED
      BY <1>3, <1>11, <3>1 DEF Preprocessed
  <2>5. QED
    BY <2>2, <2>3, <2>4
<1>12. CASE x.depth \notin Finished /\ s.op = "insert"
  <2>1. p = Sends(x, s)
    BY <1>3, <1>12 DEF Mysql!Preprocess
  <2>2. QED
    BY <1>3, <1>12, <2>1 DEF Preprocessed
<1>13. QED
  BY <1>7, <1>8, <1>9, <1>10, <1>11, <1>12, StmtKinds

(* execute() of an asynchronous context of MySQL never reaches the server;  *)
(* its BEGIN raises.                                                        *)
LEMMA AsyncMysqlIs ==
  ASSUME class = "asyncMysql", NEW o, NEW d, Sound(o, d), Settles(d),
         NEW s \in Stmt, NEW r \in AsyncMysqlExecute(o, d, s)
  PROVE  /\ Good(o, d, r) /\ r.db = d
         /\ s.op = "begin" /\ o.books.depth = 0 => ~ r.ok
<1> DEFINE p == Mysql!Preprocess(o.books, s)
           q == [o EXCEPT !.books = p.books]
<1>1. o \in Object /\ o.books \in Bookkeeping /\ class \notin Sessions
  BY DEF Sound, Object, Sessions
<1>2. Preprocessed(o.books, p) /\ (s.op = "begin" /\ o.books.depth = 0 => p.stmt # Scrub)
  BY <1>1, MysqlPreprocessed
<1>3. p.books \in Bookkeeping
  BY <1>2 DEF Preprocessed
<1>4. /\ q \in Object /\ q.books = p.books /\ q.cursor = o.cursor
      /\ (q.gone <=> o.gone) /\ (q.made <=> o.made) /\ (q.delegate <=> o.delegate)
  BY <1>1, <1>3, WithBooks
<1>5. r = Outcome(q, d, p.stmt = Scrub)
  BY DEF AsyncMysqlExecute
<1> HIDE DEF p, q
<1>6. r.obj = q /\ r.db = d /\ r.ok = (p.stmt = Scrub)
  BY <1>5 DEF Outcome
<1>7. Moved(o, r.obj)
  <2>1. Moved(o, q)
    BY <1>2, <1>4 DEF Moved, Preprocessed
  <2>2. QED
    BY <1>6, <2>1
<1>8. r.ok \in BOOLEAN /\ Settles(r.db) /\ (d.closed => r.db.closed)
  BY <1>6
<1>9. Good(o, d, r)
  BY <1>1, <1>7, <1>8, MovedGood
<1>10. QED
  BY <1>2, <1>6, <1>9

LEMMA AsyncMysqlScriptGood ==
  ASSUME class = "asyncMysql", NEW o, NEW d, Sound(o, d), Settles(d),
         NEW s \in Stmt, NEW t \in Stmt, NEW r \in AsyncMysqlScript(o, d, s, t)
  PROVE  Good(o, d, r)
<1>1. o \in Object /\ o.books \in Bookkeeping /\ class \notin Sessions
  BY DEF Sound, Object, Sessions
<1> DEFINE p == Mysql!Preprocess(o.books, s)
           a == Line(o, p, s)
           q == Mysql!Preprocess(a.obj.books, t)
           b == Line(a.obj, q, t)
           lines == a.sent \o b.sent
<1>2. r \in CASE ~ a.ok -> Raised(a.obj, d)
              [] a.ok /\ ~ b.ok -> Raised(b.obj, d)
              [] a.ok /\ b.ok /\ lines = <<>> -> Returned(b.obj, d)
              [] a.ok /\ b.ok /\ lines # <<>> -> Raised(b.obj, d)
  BY DEF AsyncMysqlScript, Script
<1>3. Preprocessed(o.books, p)
  BY <1>1, MysqlPreprocessed
<1>4. a.obj \in Object /\ a.obj.books \in Bookkeeping
  BY <1>1, <1>3, LineMoves DEF Moved, Object
<1>5. Preprocessed(a.obj.books, q)
  BY <1>4, MysqlPreprocessed
<1>6. Moved(o, a.obj) /\ Moved(o, b.obj) /\ a.ok \in BOOLEAN /\ b.ok \in BOOLEAN
  <2>1. a = Line(o, p, s) /\ b = Line(a.obj, q, t) /\ lines = a.sent \o b.sent
    OBVIOUS
  <2> HIDE DEF p, a, q, b, lines
  <2>2. Lined(o, s, t, p, a, q, b, lines)
    BY <1>3, <1>5, <2>1 DEF Lined
  <2>3. QED
    BY <1>1, <2>2, TwoLines
<1> HIDE DEF p, a, q, b, lines
<1>7. r \in Raised(a.obj, d) \cup Raised(b.obj, d) \cup Returned(b.obj, d)
  BY <1>2, <1>6
<1>8. QED
  BY <1>1, <1>6, <1>7, NothingSent

(* A cursor is the one way to the server.                                   *)
LEMMA AsyncMysqlCursorGood ==
  ASSUME class = "asyncMysql", NEW o, NEW d, Sound(o, d), Settles(d),
         NEW n \in Row, NEW r \in AsyncMysqlCursorInsert(o, d, n)
  PROVE  Good(o, d, r)
<1>1. /\ class \notin Sessions /\ o \in Object /\ Moved(o, o)
      /\ d \in Connection /\ d.durable \in SUBSET Row /\ d.work \in SUBSET Row
      /\ d.level = 0 /\ (d.closed => ~ d.open) /\ d.marks \in Seq(Mark)
  BY NotMoved, LocalSettled DEF Sessions, Sound
<1>2. CASE o.gone
  <2>1. r \in Raised(o, d)
    BY <1>2 DEF AsyncMysqlCursorInsert
  <2>2. QED
    BY <1>1, <2>1, NothingSent
<1>3. CASE ~ o.gone
  <2>1. PICK t \in Replies(d, Insert(n), Mysql!Accepts(d, Insert(n)),
                           {Mysql!Apply(d, Insert(n))}) : r = Outcome(o, t.db, t.ok)
    BY <1>3 DEF AsyncMysqlCursorInsert
  <2>2. Mysql!Accepts(d, Insert(n)) \in BOOLEAN
    BY DEF Mysql!Accepts
  <2>3. Insert(n) \in Stmt /\ Insert(n).op = "insert" /\ Insert(n).arg = n
    BY StmtMade DEF Insert
  <2>4. \/ t.ok = TRUE /\ ~ d.closed /\ t.db = Mysql!Apply(d, Insert(n))
        \/ t.ok = FALSE /\ t.db = Refuse(d, Insert(n))
        \/ t.ok = FALSE /\ t.db = Dead(d)
    <3> DEFINE u == Insert(n)
               accepts == Mysql!Accepts(d, Insert(n))
               results == {Mysql!Apply(d, Insert(n))}
    <3>1. u \in Stmt /\ accepts \in BOOLEAN /\ t \in Replies(d, u, accepts, results)
      BY <2>1, <2>2, <2>3
    <3> HIDE DEF u, accepts, results
    <3>2. \/ t.ok = TRUE /\ accepts /\ ~ d.closed /\ t.db \in results
          \/ /\ t.ok = FALSE /\ t.db = Refuse(d, u)
             /\ u.op = "insert" \/ d.closed \/ ~ accepts
          \/ t.ok = FALSE /\ t.db = Dead(d)
      BY <3>1, RepliesAre
    <3>3. QED
      BY <3>2 DEF u, results
  <2>5. Settles(t.db) /\ (d.closed => t.db.closed)
    <3>1. CASE ~ d.closed /\ t.db = Mysql!Apply(d, Insert(n))
      <4>1. \A w \in SUBSET Row :
              Is([d EXCEPT !.open = TRUE, !.work = w], d.closed, TRUE, d.durable, w, d.marks, d.level)
        BY <1>1 DEF Connection, Is
      <4>2. d.work \cup {n} \in SUBSET Row
        BY <1>1
      <4>3. t.db = [d EXCEPT !.open = TRUE, !.work = d.work \cup {n}]
        BY <2>3, <3>1 DEF Mysql!Apply
      <4>4. \E w \in SUBSET Row : Is(t.db, d.closed, TRUE, d.durable, w, d.marks, d.level)
        BY <4>1, <4>2, <4>3
      <4>5. QED
        BY <1>1, <3>1, <4>4, LocalSettles DEF Is
    <3>2. CASE t.db = Refuse(d, Insert(n))
      <4>1. CASE ~ d.closed
        <5>1. Is(Refuse(d, Insert(n)), d.closed, TRUE, d.durable, d.work, d.marks, d.level)
          BY <1>1, <2>3, <4>1, RefuseIs
        <5>2. QED
          BY <1>1, <3>2, <4>1, <5>1, LocalSettles DEF Is
      <4>2. CASE d.closed
        BY <1>1, <3>2, <4>2, RefuseIs
      <4>3. QED
        BY <4>1, <4>2
    <3>3. CASE t.db = Dead(d)
      BY <1>1, <3>3, DeadSettles
    <3>4. QED
      BY <2>4, <3>1, <3>2, <3>3
  <2>6. r.obj = o /\ r.db = t.db /\ r.ok = t.ok
    BY <2>1 DEF Outcome
  <2>7. Moved(o, r.obj) /\ r.ok \in BOOLEAN /\ Settles(r.db) /\ (d.closed => r.db.closed)
    <3>1. t.ok \in BOOLEAN
      BY <2>4
    <3>2. QED
      BY <1>1, <2>5, <2>6, <3>1
  <2>8. QED
    BY <1>1, <2>7, MovedGood
<1>4. QED
  BY <1>2, <1>3

LEMMA AsyncMysqlCloseGood ==
  ASSUME class = "asyncMysql", NEW o, NEW d, Sound(o, d), Settles(d), NEW owned \in BOOLEAN,
         NEW r, r = AsyncMysqlClose(o, d, owned)
  PROVE  /\ Good(o, d, r) /\ r.obj.cursor # "open" /\ r = Outcome(r.obj, r.db, r.ok)
<1>1. r = MssqlClose(o, d, owned)
  BY DEF AsyncMysqlClose, MssqlClose
<1>2. class \notin Sessions /\ class # "asyncSqlite"
  BY DEF Sessions
<1>3. QED
  BY <1>1, <1>2, MssqlCloseGood

LEMMA AsyncMysqlLeaves ==
  ASSUME class = "asyncMysql", NEW o, NEW d, Sound(o, d), Settles(d), NEW owned \in BOOLEAN,
         NEW r \in AsyncMysqlExit(o, d, owned)
  PROVE  Leaves(o, d, r, owned)
<1> DEFINE rolled == IF o.books.depth > 0 THEN AsyncMysqlExecute(o, d, Rollback(NoName))
                                          ELSE Returned(o, d)
<1>1. PICK a \in rolled : r = [AsyncMysqlClose(a.obj, a.db, owned) EXCEPT !.obj.books.depth = Exited]
  BY DEF AsyncMysqlExit, Leave
<1>2. o \in Object /\ Moved(o, o) /\ class \notin Sessions /\ ~ Working(o, d)
  BY NotMoved DEF Sound, Sessions, Working
<1>3. Good(o, d, a)
  BY <1>1, <1>2, StmtMade, AsyncMysqlIs, NothingSent
<1> HIDE DEF rolled
<1>4. PICK c : c = AsyncMysqlClose(a.obj, a.db, owned)
  OBVIOUS
<1>5. Sound(a.obj, a.db) /\ Settles(a.db)
  BY <1>3 DEF Good
<1>6. Good(a.obj, a.db, c) /\ c.obj.cursor # "open" /\ c = Outcome(c.obj, c.db, c.ok)
  BY <1>4, <1>5, AsyncMysqlCloseGood
<1>7. Good(o, d, c)
  BY <1>2, <1>3, <1>6, GoodTwice
<1>8. r = [c EXCEPT !.obj.books.depth = Exited]
  BY <1>1, <1>4
<1>9. Good(o, d, r)
  BY <1>2, <1>6, <1>7, <1>8, LeaveMarks
<1>10. class \notin Tsql \cup {"asyncSqlite"}
  BY DEF Tsql
<1>11. QED
  BY <1>2, <1>9, <1>10 DEF Leaves

-----------------------------------------------------------------------------
(* ClickHouse: the books are kept, and what is written is there for all. *)

(* What it takes for a connection without transactions to be settled.       *)
LEMMA PlainSettles ==
  ASSUME class \in Sessions \cup NoTransactions, NEW e \in Connection,
         ~ e.open, e.level = 0, e.work = e.durable, e.marks = <<>>
  PROVE  Settles(e)
  BY DEF Settles, Tsql, Sessions, NoTransactions

LEMMA PlainSettled ==
  ASSUME class \in Sessions \cup NoTransactions, NEW d, Settles(d)
  PROVE  /\ d \in Connection /\ d.durable \in SUBSET Row /\ d.work \in SUBSET Row
         /\ d.level = 0 /\ ~ d.open /\ d.work = d.durable /\ d.marks = <<>>
         /\ class \notin Tsql \cup {"asyncSqlite"}
  BY DEF Settles, Connection, Tsql, Sessions, NoTransactions

(* A document or a row that is written.                                     *)
LEMMA Written ==
  ASSUME class \in Sessions \cup NoTransactions, NEW o, NEW d, Settles(d),
         NEW n \in Row, NEW r \in DocumentWrite(o, d, n)
  PROVE  r.obj = o /\ r.ok \in BOOLEAN /\ Settles(r.db) /\ (d.closed => r.db.closed)
<1>1. /\ d \in Connection /\ d.durable \in SUBSET Row /\ d.work \in SUBSET Row
      /\ d.level = 0 /\ ~ d.open /\ d.work = d.durable /\ d.marks = <<>>
  BY PlainSettled
<1> DEFINE s == Insert(n)
           accepts == s.arg \notin d.work
           w == d.work \cup {s.arg}
           results == {Settled(d, w)}
<1>2. PICK t \in Replies(d, s, accepts, results) :
        r = Outcome(o, [t.db EXCEPT !.open = FALSE], t.ok)
  BY DEF DocumentWrite, DocumentReplies
<1>3. s \in Stmt /\ s.op = "insert" /\ accepts \in BOOLEAN /\ w \in SUBSET Row
  BY <1>1, StmtMade DEF Insert
<1> HIDE DEF s, accepts, w
<1>4. \/ t.ok = TRUE /\ ~ d.closed /\ t.db = Settled(d, w)
      \/ t.ok = FALSE /\ t.db = Refuse(d, s)
      \/ t.ok = FALSE /\ t.db = Dead(d)
  <2>1. \A z \in results : z = Settled(d, w)
    OBVIOUS
  <2> HIDE DEF results
  <2>2. \/ t.ok = TRUE /\ accepts /\ ~ d.closed /\ t.db \in results
        \/ /\ t.ok = FALSE /\ t.db = Refuse(d, s)
           /\ s.op = "insert" \/ d.closed \/ ~ accepts
        \/ t.ok = FALSE /\ t.db = Dead(d)
    BY <1>2, <1>3, RepliesAre
  <2>3. QED
    BY <2>1, <2>2
<1>5. r.obj = o /\ r.db = [t.db EXCEPT !.open = FALSE] /\ r.ok = t.ok
  BY <1>2 DEF Outcome
<1> HIDE DEF results
<1>6. \A e \in Connection :
        Is([e EXCEPT !.open = FALSE], e.closed, FALSE, e.durable, e.work, e.marks, e.level)
  BY DEF Connection, Is
<1>7. /\ t.db \in Connection /\ t.db.work = t.db.durable /\ t.db.marks = <<>>
      /\ t.db.level = 0 /\ (d.closed => t.db.closed) /\ t.ok \in BOOLEAN
  <2>1. CASE t.ok = TRUE /\ ~ d.closed /\ t.db = Settled(d, w)
    <3>1. Is(Settled(d, w), d.closed, FALSE, w, w, <<>>, d.level)
      BY <1>1, <1>3, SettledIs
    <3>2. QED
      BY <1>1, <2>1, <3>1 DEF Is
  <2>2. CASE t.ok = FALSE /\ t.db = Refuse(d, s)
    <3>1. CASE d.closed
      <4>1. t.db = d
        BY <1>1, <2>2, <3>1, RefuseIs
      <4>2. QED
        BY <1>1, <2>2, <4>1
    <3>2. CASE ~ d.closed
      <4>1. Is(Refuse(d, s), d.closed, TRUE, d.durable, d.work, d.marks, d.level)
        BY <1>1, <1>3, <3>2, RefuseIs
      <4>2. QED
        BY <1>1, <2>2, <3>2, <4>1 DEF Is
    <3>3. QED
      BY <3>1, <3>2
  <2>3. CASE t.ok = FALSE /\ t.db = Dead(d)
    <3>1. Is(Dead(d), TRUE, FALSE, d.durable, d.durable, <<>>, 0)
      BY <1>1, DeadIs
    <3>2. QED
      BY <1>1, <2>3, <3>1 DEF Is
  <2>4. QED
    BY <1>4, <2>1, <2>2, <2>3
<1>8. Is(r.db, t.db.closed, FALSE, t.db.durable, t.db.work, t.db.marks, t.db.level)
  BY <1>5, <1>6, <1>7
<1>9. Settles(r.db)
  BY <1>7, <1>8, PlainSettles DEF Is
<1>10. QED
  BY <1>5, <1>7, <1>8, <1>9 DEF Is

LEMMA ClickHousePreprocessed ==
  ASSUME NEW x \in Bookkeeping, NEW s \in Stmt, s.op # "rollbackTo",
         NEW p, p = ClickHousePreprocess(x, s)
  PROVE  /\ Preprocessed(x, p)
         /\ p.stmt \notin {Raise, Scrub} => s.op = "insert"
         /\ x.depth > 0 \/ x.depth \in {Committed, RolledBack} =>
              p.books.depth > 0 \/ p.books.depth \in {Committed, RolledBack}
         /\ s.op = "begin" /\ x.depth = 0 => p.books.depth = 1 /\ p.stmt = Scrub
<1>1. /\ x.savepoints \in Seq(Name) /\ x.name \in Name \cup {NoName}
      /\ x.depth \notin Finished => x.depth \in Nat
      /\ x.depth \in {Committed, RolledBack} => x.depth \in Finished
  BY BooksFields DEF Finished
<1>2. /\ \A y, u : Sends(y, u).books = y /\ Sends(y, u).stmt = u
      /\ \A k \in {Committed, RolledBack} :
           FinishedBooks(k) \in Bookkeeping /\ FinishedBooks(k).depth = k
  BY BooksMoves DEF Sends
<1>3. CASE x.depth \in Finished
  <2>1. p = Sends(x, Raise)
    BY <1>3 DEF ClickHousePreprocess
  <2>2. x.depth # 0
    BY <1>3 DEF Finished, Exited, Committed, RolledBack
  <2>3. QED
    BY <1>2, <2>1, <2>2 DEF Preprocessed
<1>4. CASE x.depth \notin Finished /\ s.op = "begin"
  <2>1. /\ p.books = [x EXCEPT !.depth = x.depth + 1, !.name = s.arg] /\ p.stmt = Scrub
        /\ x.depth \in Nat /\ s.arg \in Name \cup {NoName}
    BY <1>1, <1>2, <1>4, StmtKinds DEF ClickHousePreprocess
  <2>2. /\ [x EXCEPT !.depth = x.depth + 1, !.name = s.arg] \in Bookkeeping
        /\ [x EXCEPT !.depth = x.depth + 1, !.name = s.arg].depth = x.depth + 1
    <3>1. x.depth + 1 \in Nat
      BY <2>1
    <3>2. \A k \in Nat : /\ [x EXCEPT !.depth = k, !.name = s.arg] \in Bookkeeping
                         /\ [x EXCEPT !.depth = k, !.name = s.arg].depth = k
      BY <2>1 DEF Bookkeeping
    <3>3. QED
      BY <3>1, <3>2
  <2>3. p.books \in Bookkeeping /\ p.books.depth = x.depth + 1 /\ p.books.depth > 0
    BY <2>1, <2>2
  <2>4. QED
    BY <1>4, <2>1, <2>3 DEF Preprocessed
<1>5. CASE x.depth \notin Finished /\ s.op = "savepoint"
  <2>1. p.books = [x EXCEPT !.savepoints = Append(@, s.arg)] /\ p.stmt = Scrub /\ s.arg \in Name
    BY <1>2, <1>5, StmtKinds DEF ClickHousePreprocess
  <2>2. /\ [x EXCEPT !.savepoints = Append(@, s.arg)] \in Bookkeeping
        /\ [x EXCEPT !.savepoints = Append(@, s.arg)].depth = x.depth
    BY <2>1, BooksMoves
  <2>3. p.books \in Bookkeeping /\ p.books.depth = x.depth
    BY <2>1, <2>2
  <2>4. QED
    BY <1>5, <2>1, <2>3 DEF Preprocessed
<1>6. CASE x.depth \notin Finished /\ s.op = "insert"
  <2>1. p.books = x /\ p.stmt = s
    BY <1>2, <1>6 DEF ClickHousePreprocess
  <2>2. QED
    BY <1>6, <2>1 DEF Preprocessed
<1>7. CASE x.depth \notin Finished /\ s.op = "commit"
  <2>1. p = ClickHouseCommit(x) /\ x.depth \in Nat
    BY <1>1, <1>7 DEF ClickHousePreprocess
  <2>2. CASE x.depth = 0
    <3>1. p = Sends(x, Raise)
      BY <2>1, <2>2 DEF ClickHouseCommit
    <3>2. QED
      BY <1>2, <1>7, <3>1 DEF Preprocessed
  <2>3. CASE x.depth = 1
    <3>1. p = Sends(FinishedBooks(Committed), Scrub)
      BY <2>1, <2>3 DEF ClickHouseCommit
    <3>2. QED
      BY <1>2, <1>7, <3>1 DEF Preprocessed
  <2>4. CASE x.depth > 1
    <3>1. p.books = [x EXCEPT !.depth = x.depth - 1] /\ p.stmt = Scrub
      BY <1>2, <2>1, <2>4 DEF ClickHouseCommit
    <3>2. x.depth - 1 \in Nat /\ x.depth - 1 > 0
      BY <2>1, <2>4
    <3>3. /\ [x EXCEPT !.depth = x.depth - 1] \in Bookkeeping
          /\ [x EXCEPT !.depth = x.depth - 1].depth = x.depth - 1
      BY <3>2, BooksMoves
    <3>4. p.books \in Bookkeeping /\ p.books.depth > 0
      BY <3>1, <3>2, <3>3
    <3>5. QED
      BY <1>7, <3>1, <3>4 DEF Preprocessed
  <2>5. QED
    BY <2>1, <2>2, <2>3, <2>4
<1>8. CASE x.depth \notin Finished /\ s.op = "rollback"
  <2>1. p = ClickHouseRollback(x, s.arg) /\ x.depth \in Nat
    BY <1>1, <1>8 DEF ClickHousePreprocess
  <2>2. CASE x.depth > 0 /\ Occurs(x.savepoints, s.arg)
    <3>1. p.books = [x EXCEPT !.savepoints = PopThrough(@, s.arg)] /\ p.stmt = Scrub
      BY <1>2, <2>1, <2>2 DEF ClickHouseRollback
    <3>2. /\ [x EXCEPT !.savepoints = PopThrough(@, s.arg)] \in Bookkeeping
          /\ [x EXCEPT !.savepoints = PopThrough(@, s.arg)].depth = x.depth
      BY <2>2, BooksMoves
    <3>3. p.books \in Bookkeeping /\ p.books.depth = x.depth
      BY <3>1, <3>2
    <3>4. QED
      BY <1>8, <2>2, <3>1, <3>3 DEF Preprocessed
  <2>3. CASE x.depth > 0 /\ ~ Occurs(x.savepoints, s.arg) /\ s.arg \in {NoName, x.name}
    <3>1. p = Sends(FinishedBooks(RolledBack), Scrub)
      BY <2>1, <2>3 DEF ClickHouseRollback
    <3>2. QED
      BY <1>2, <1>8, <3>1 DEF Preprocessed
  <2>4. CASE ~ (x.depth > 0) \/ (~ Occurs(x.savepoints, s.arg) /\ s.arg \notin {NoName, x.name})
    <3>1. p = Sends(x, Raise)
      BY <2>1, <2>4 DEF ClickHouseRollback
    <3>2. QED
      BY <1>2, <1>8, <3>1 DEF Preprocessed
  <2>5. QED
    BY <2>2, <2>3, <2>4
<1>9. QED
  BY <1>3, <1>4, <1>5, <1>6, <1>7, <1>8, StmtKinds

LEMMA ClickHouseServes ==
  ASSUME class \in NoTransactions, NEW o, NEW d, Sound(o, d), Settles(d),
         NEW s \in Stmt, s.op # "rollbackTo", NEW r \in ClickHouseExecute(o, d, s)
  PROVE  /\ Serves(o, d, r) /\ Moved(o, r.obj)
         /\ s.op # "insert" => r.db = d
         /\ s.op = "begin" /\ o.books.depth = 0 => r.obj.books.depth = 1
<1> DEFINE p == ClickHousePreprocess(o.books, s)
           q == [o EXCEPT !.books = p.books]
<1>1. /\ o \in Object /\ o.books \in Bookkeeping /\ class \notin Sessions
      /\ class # "asyncSqlite" /\ class # "asyncMysql" /\ class \notin Tsql \cup {"asyncSqlite"}
  BY DEF Sound, Object, Sessions, NoTransactions, Tsql
<1>2. /\ Preprocessed(o.books, p)
      /\ p.stmt \notin {Raise, Scrub} => s.op = "insert"
      /\ o.books.depth > 0 \/ o.books.depth \in {Committed, RolledBack} =>
           p.books.depth > 0 \/ p.books.depth \in {Committed, RolledBack}
      /\ s.op = "begin" /\ o.books.depth = 0 => p.books.depth = 1 /\ p.stmt = Scrub
  BY <1>1, ClickHousePreprocessed
<1>3. p.books \in Bookkeeping
  BY <1>2 DEF Preprocessed
<1>4. /\ q \in Object /\ q.books = p.books /\ q.cursor = o.cursor
      /\ (q.gone <=> o.gone) /\ (q.made <=> o.made) /\ (q.delegate <=> o.delegate)
  BY <1>1, <1>3, WithBooks
<1>5. r \in CASE p.stmt \in {Raise, Scrub} -> {Outcome(q, d, p.stmt = Scrub)}
              [] p.stmt \notin {Raise, Scrub} /\ o.gone -> Raised(q, d)
              [] p.stmt \notin {Raise, Scrub} /\ ~ o.gone -> DocumentWrite(q, d, s.arg)
  BY DEF ClickHouseExecute
<1> HIDE DEF p, q
<1>6. Moved(o, q)
  BY <1>2, <1>4 DEF Moved, Preprocessed
<1>7. /\ r.obj = q /\ r.ok \in BOOLEAN /\ Settles(r.db) /\ (d.closed => r.db.closed)
      /\ p.stmt \in {Raise, Scrub} => r.db = d
  <2>1. CASE p.stmt \in {Raise, Scrub}
    <3>1. r = Outcome(q, d, p.stmt = Scrub)
      BY <1>5, <2>1
    <3>2. r.obj = q /\ r.db = d /\ r.ok = (p.stmt = Scrub)
      BY <3>1 DEF Outcome
    <3>3. QED
      BY <3>2
  <2>2. CASE p.stmt \notin {Raise, Scrub} /\ o.gone
    <3>1. r \in Raised(q, d)
      BY <1>5, <2>2
    <3>2. r.obj = q /\ r.db = d /\ r.ok = FALSE
      BY <3>1 DEF Raised, Outcome
    <3>3. QED
      BY <3>2
  <2>3. CASE p.stmt \notin {Raise, Scrub} /\ ~ o.gone
    <3>1. r \in DocumentWrite(q, d, s.arg) /\ s.arg \in Row
      BY <1>2, <1>5, <2>3, StmtKinds
    <3>2. QED
      BY <2>3, <3>1, Written
  <2>4. QED
    BY <2>1, <2>2, <2>3
<1>8. Moved(o, r.obj)
  BY <1>6, <1>7
<1>9. Good(o, d, r)
  BY <1>1, <1>7, <1>8, MovedGood
<1>10. ~ d.open /\ ~ r.db.open
  BY <1>7, PlainSettled
<1>11. Working(o, d) => Working(r.obj, r.db)
  BY <1>1, <1>2, <1>4, <1>7, <1>10 DEF Working
<1>12. QED
  BY <1>1, <1>2, <1>4, <1>7, <1>8, <1>9, <1>11 DEF Serves

LEMMA ClickHouseRawGood ==
  ASSUME class \in NoTransactions, NEW o, NEW d, Sound(o, d), Settles(d),
         NEW s \in Stmt, NEW r \in ClickHouseRaw(o, d, s)
  PROVE  Good(o, d, r)
<1>1. o \in Object /\ Moved(o, o) /\ class \notin Sessions /\ class # "asyncSqlite"
  BY NotMoved DEF Sound, Sessions, NoTransactions
<1>2. CASE o.gone \/ s.op # "insert"
  <2>1. r \in Raised(o, d)
    BY <1>2 DEF ClickHouseRaw
  <2>2. QED
    BY <1>1, <2>1, NothingSent
<1>3. CASE ~ (o.gone \/ s.op # "insert")
  <2>1. r \in DocumentWrite(o, d, s.arg) /\ s.arg \in Row
    BY <1>3, StmtKinds DEF ClickHouseRaw
  <2>2. r.obj = o /\ r.ok \in BOOLEAN /\ Settles(r.db) /\ (d.closed => r.db.closed)
    BY <2>1, Written
  <2>3. Moved(o, r.obj)
    BY <1>1, <2>2
  <2>4. QED
    BY <1>1, <2>2, <2>3, MovedGood
<1>4. QED
  BY <1>2, <1>3

LEMMA ClickHouseCursorServes ==
  ASSUME class \in NoTransactions, NEW o, NEW d, Sound(o, d), Settles(d),
         NEW n \in Row, NEW r \in ClickHouseCursorInsert(o, d, n)
  PROVE  Serves(o, d, r)
<1>1. Insert(n) \in Stmt /\ Insert(n).op = "insert" /\ Insert(n).arg = n
  BY StmtMade DEF Insert
<1>2. r \in ClickHouseRaw(o, d, Insert(n))
  BY <1>1 DEF ClickHouseCursorInsert, ClickHouseRaw
<1>3. Good(o, d, r)
  BY <1>1, <1>2, ClickHouseRawGood
<1>4. r.obj = o
  <2>1. CASE o.gone
    BY <2>1 DEF ClickHouseCursorInsert, Raised, Outcome
  <2>2. CASE ~ o.gone
    BY <2>2, Written DEF ClickHouseCursorInsert
  <2>3. QED
    BY <2>1, <2>2
<1>5. ~ r.db.open /\ class \notin Tsql \cup {"asyncSqlite"}
  BY <1>3, PlainSettled DEF Good
<1>6. Working(o, d) => Working(r.obj, r.db)
  BY <1>4, <1>5 DEF Working
<1>7. QED
  BY <1>3, <1>5, <1>6 DEF Serves

LEMMA ClickHouseScriptGood ==
  ASSUME class \in NoTransactions, NEW o, NEW d, Sound(o, d), Settles(d),
         NEW s \in Stmt, NEW t \in Stmt, s.op # "rollbackTo", t.op # "rollbackTo",
         NEW r \in ClickHouseScript(o, d, s, t)
  PROVE  Good(o, d, r)
<1>1. o \in Object /\ o.books \in Bookkeeping /\ class \notin Sessions /\ class # "asyncSqlite"
  BY DEF Sound, Object, Sessions, NoTransactions
<1> DEFINE p == ClickHousePreprocess(o.books, s)
           a == Line(o, p, s)
           q == ClickHousePreprocess(a.obj.books, t)
           b == Line(a.obj, q, t)
           lines == a.sent \o b.sent
<1>2. r \in CASE ~ a.ok -> Raised(a.obj, d)
              [] a.ok /\ ~ b.ok -> Raised(b.obj, d)
              [] a.ok /\ b.ok /\ lines = <<>> -> Returned(b.obj, d)
              [] a.ok /\ b.ok /\ lines # <<>> ->
                   IF b.obj.gone THEN Raised(b.obj, d) ELSE DocumentWrite(b.obj, d, lines[1].arg)
  BY DEF ClickHouseScript, Script
<1>3. Preprocessed(o.books, p) /\ (p.stmt \notin {Raise, Scrub} => s.op = "insert")
  BY <1>1, ClickHousePreprocessed
<1>4. a.obj \in Object /\ a.obj.books \in Bookkeeping
  BY <1>1, <1>3, LineMoves DEF Moved, Object
<1>5. Preprocessed(a.obj.books, q) /\ (q.stmt \notin {Raise, Scrub} => t.op = "insert")
  BY <1>4, ClickHousePreprocessed
<1>6. a = Line(o, p, s) /\ b = Line(a.obj, q, t) /\ lines = a.sent \o b.sent
  OBVIOUS
<1> HIDE DEF p, a, q, b, lines
<1>7. Lined(o, s, t, p, a, q, b, lines)
  BY <1>3, <1>5, <1>6 DEF Lined
<1>8. /\ Moved(o, a.obj) /\ Moved(o, b.obj) /\ a.ok \in BOOLEAN /\ b.ok \in BOOLEAN
      /\ lines # <<>> =>
           \/ lines[1] = s /\ p.stmt \notin {Raise, Scrub}
           \/ lines[1] = t /\ q.stmt \notin {Raise, Scrub}
  BY <1>1, <1>7, TwoLines
<1>9. CASE r \in Raised(a.obj, d) \cup Raised(b.obj, d) \cup Returned(b.obj, d)
  BY <1>1, <1>8, <1>9, NothingSent
<1>10. CASE lines # <<>> /\ r \in DocumentWrite(b.obj, d, lines[1].arg)
  <2>1. lines[1].arg \in Row
    BY <1>3, <1>5, <1>8, <1>10, StmtKinds
  <2>2. r.obj = b.obj /\ r.ok \in BOOLEAN /\ Settles(r.db) /\ (d.closed => r.db.closed)
    BY <1>10, <2>1, Written
  <2>3. Moved(o, r.obj)
    BY <1>8, <2>2
  <2>4. QED
    BY <1>1, <2>2, <2>3, MovedGood
<1>11. QED
  BY <1>2, <1>8, <1>9, <1>10

LEMMA ClickHouseBegins ==
  ASSUME class \in NoTransactions, NEW o, NEW d, Sound(o, d), Settles(d),
         NEW n \in Name \cup {NoName}, NEW r \in ClickHouseBegin(o, d, n)
  PROVE  Serves(o, d, r) /\ Enters(o, d, r)
<1>1. o \in Object /\ Moved(o, o) /\ class \notin Sessions /\ class # "asyncSqlite"
  BY NotMoved DEF Sound, Sessions, NoTransactions
<1>2. CASE o.gone
  <2>1. r \in Raised(o, d)
    BY <1>2 DEF ClickHouseBegin
  <2>2. Good(o, d, r)
    BY <1>1, <2>1, NothingSent
  <2>3. ~ Working(o, d)
    BY <1>2 DEF Working
  <2>4. QED
    BY <1>2, <2>2, <2>3 DEF Serves, Enters
<1>3. CASE ~ o.gone
  <2>1. r \in ClickHouseExecute(o, d, Begin(n))
    BY <1>3 DEF ClickHouseBegin
  <2>2. Begin(n) \in Stmt /\ Begin(n).op = "begin"
    BY StmtMade DEF Begin
  <2>3. /\ Serves(o, d, r) /\ Moved(o, r.obj) /\ r.db = d
        /\ o.books.depth = 0 => r.obj.books.depth = 1
    BY <2>1, <2>2, ClickHouseServes
  <2>4. ~ d.open /\ class # "asyncMysql" /\ class \notin Tsql
    BY PlainSettled DEF NoTransactions, Sessions, Tsql
  <2>5. o.books.depth = 0 => Working(r.obj, r.db)
    BY <1>1, <1>3, <2>3, <2>4 DEF Working, Moved
  <2>6. QED
    BY <2>3, <2>4, <2>5 DEF Serves, Enters
<1>4. QED
  BY <1>2, <1>3

LEMMA ClickHouseCloseGood ==
  ASSUME class \in NoTransactions, NEW o, NEW d, Sound(o, d), Settles(d), NEW owned \in BOOLEAN,
         NEW r, r = ClickHouseClose(o, d, owned)
  PROVE  /\ Good(o, d, r) /\ r.obj.cursor # "open" /\ r = Outcome(r.obj, r.db, r.ok)
         /\ owned /\ ~ o.gone => r.db.closed
<1>1. /\ o \in Object /\ d \in Connection /\ o.cursor # "open" /\ class \notin Tsql
      /\ class \notin Sessions /\ class # "asyncSqlite"
  BY DEF Sound, Settles, Sessions, NoTransactions, Tsql
<1> DEFINE q == [o EXCEPT !.gone = TRUE]
           e == IF owned /\ ~ o.gone THEN Dead(d) ELSE d
<1>2. q \in Object /\ q.books = o.books /\ q.cursor = o.cursor
  BY <1>1 DEF Object
<1>3. Settles(Dead(d)) /\ Dead(d).closed
  BY <1>1, DeadSettles
<1>4. Settles(e) /\ (d.closed => e.closed) /\ (owned /\ ~ o.gone => e.closed)
  BY <1>3
<1>5. r = Outcome(q, e, TRUE)
  BY DEF ClickHouseClose
<1> HIDE DEF q, e
<1>6. r.obj = q /\ r.db = e /\ r.ok = TRUE
  BY <1>5 DEF Outcome
<1>7. Sound(q, e)
  BY <1>1, <1>2 DEF Sound
<1>8. QED
  BY <1>1, <1>2, <1>4, <1>5, <1>6, <1>7 DEF Good

LEMMA ClickHouseLeaves ==
  ASSUME class \in NoTransactions, NEW o, NEW d, Sound(o, d), Settles(d), NEW owned \in BOOLEAN,
         NEW r \in ClickHouseExit(o, d, owned)
  PROVE  Leaves(o, d, r, owned)
<1> DEFINE rolled == IF o.books.depth > 0 THEN ClickHouseExecute(o, d, Rollback(NoName))
                                          ELSE Returned(o, d)
<1>1. PICK a \in rolled : r = [ClickHouseClose(a.obj, a.db, owned) EXCEPT !.obj.books.depth = Exited]
  BY DEF ClickHouseExit, Leave
<1>2. o \in Object /\ Moved(o, o) /\ class \notin Sessions /\ class # "asyncSqlite"
  BY NotMoved DEF Sound, Sessions, NoTransactions
<1>3. Good(o, d, a) /\ (a.obj.gone <=> o.gone)
  <2>1. CASE o.books.depth > 0
    <3>1. Rollback(NoName) \in Stmt /\ Rollback(NoName).op # "rollbackTo"
      BY StmtMade DEF Rollback
    <3>2. Serves(o, d, a) /\ Moved(o, a.obj)
      BY <1>1, <2>1, <3>1, ClickHouseServes
    <3>3. QED
      BY <3>2 DEF Serves, Moved
  <2>2. CASE ~ (o.books.depth > 0)
    <3>1. a.obj = o
      BY <1>1, <2>2 DEF Returned, Outcome
    <3>2. QED
      BY <1>1, <1>2, <2>2, <3>1, NothingSent
  <2>3. QED
    BY <2>1, <2>2
<1> HIDE DEF rolled
<1>4. PICK c : c = ClickHouseClose(a.obj, a.db, owned)
  OBVIOUS
<1>5. Sound(a.obj, a.db) /\ Settles(a.db)
  BY <1>3 DEF Good
<1>6. /\ Good(a.obj, a.db, c) /\ c.obj.cursor # "open" /\ c = Outcome(c.obj, c.db, c.ok)
      /\ owned /\ ~ a.obj.gone => c.db.closed
  BY <1>4, <1>5, ClickHouseCloseGood
<1>7. Good(o, d, c)
  BY <1>2, <1>3, <1>6, GoodTwice
<1>8. r = [c EXCEPT !.obj.books.depth = Exited]
  BY <1>1, <1>4
<1>9. Good(o, d, r) /\ r.db = c.db
  BY <1>2, <1>6, <1>7, <1>8, LeaveMarks
<1>10. class \notin Tsql \cup {"asyncSqlite"} /\ ~ r.db.open
  BY <1>9, PlainSettled DEF Good
<1>11. Working(o, d) => ~ o.gone
  BY DEF Working
<1>12. QED
  BY <1>3, <1>6, <1>9, <1>10, <1>11 DEF Leaves

-----------------------------------------------------------------------------
(* MongoDB: the books and the client session change together. *)

(* What transaction control may make of an object: a session's transaction  *)
(* is open only while there is a BEGIN to finish.                           *)
Steered(o, q) ==
  /\ q \in Object
  /\ (q.gone <=> o.gone) /\ (q.made <=> o.made) /\ (q.delegate <=> o.delegate)
  /\ q.cursor = "open" => q.books.depth > 0 /\ ~ q.delegate
  /\ o.books.depth \in Finished => q = o
  /\ o.books.depth > 0 \/ o.books.depth \in {Committed, RolledBack} =>
       q.books.depth > 0 \/ q.books.depth \in {Committed, RolledBack}

LEMMA NotSteered ==
  ASSUME NEW o, NEW d, Sound(o, d)
  PROVE  Steered(o, o)
  BY DEF Sound, Steered

LEMMA SteeredTwice ==
  ASSUME NEW o, NEW p, NEW q, Steered(o, p), Steered(p, q)
  PROVE  Steered(o, q)
  BY DEF Steered

LEMMA SteeredServes ==
  ASSUME class \in Sessions, NEW o, NEW d, Sound(o, d), Settles(d),
         NEW r, Steered(o, r.obj), r.ok \in BOOLEAN, Settles(r.db), d.closed => r.db.closed
  PROVE  Serves(o, d, r)
<1>1. class \notin Tsql \cup {"asyncSqlite"} /\ class # "asyncMysql" /\ ~ r.db.open
  BY PlainSettled DEF Sessions
<1>2. Sound(r.obj, r.db)
  BY <1>1 DEF Sound, Steered
<1>3. Good(o, d, r)
  BY <1>2 DEF Good, Steered
<1>4. Working(o, d) => Working(r.obj, r.db)
  BY <1>1 DEF Working, Steered
<1>5. QED
  BY <1>1, <1>3, <1>4 DEF Serves

(* The books change, and a session's transaction starts, ends, or neither.  *)
LEMMA SessionIs ==
  ASSUME NEW o, NEW d, Sound(o, d), o.books.depth \notin Finished,
         NEW y \in Bookkeeping, y.depth > 0 \/ y.depth \in {Committed, RolledBack},
         NEW q, q = [o EXCEPT !.books = y], NEW t,
         \/ t = Unchanged(q) /\ (y.depth > 0 \/ o.delegate)
         \/ t = Start(q) /\ y.depth > 0 /\ ~ o.delegate
         \/ t = Finish(q)
  PROVE  Steered(o, t.obj) /\ t.ok \in BOOLEAN /\ t.obj.books = y
<1>1. o \in Object /\ (o.cursor = "open" => ~ o.delegate)
  BY DEF Sound
<1>2. /\ q \in Object /\ q.books = y /\ q.cursor = o.cursor
      /\ (q.gone <=> o.gone) /\ (q.made <=> o.made) /\ (q.delegate <=> o.delegate)
  BY <1>1, WithBooks
<1>3. \A c \in {"open", "idle"} : LET z == [q EXCEPT !.cursor = c] IN
        /\ z \in Object /\ z.books = y /\ z.cursor = c
        /\ (z.gone <=> q.gone) /\ (z.made <=> q.made) /\ (z.delegate <=> q.delegate)
  BY <1>2 DEF Object
<1>4. CASE t = Unchanged(q) /\ (y.depth > 0 \/ o.delegate)
  <2>1. t.obj = q /\ t.ok = TRUE
    BY <1>4 DEF Unchanged
  <2>2. QED
    BY <1>1, <1>2, <1>4, <2>1 DEF Steered
<1>5. CASE t = Start(q) /\ y.depth > 0 /\ ~ o.delegate
  <2>1. t.obj = q \/ t.obj = [q EXCEPT !.cursor = "open"]
    BY <1>5 DEF Start
  <2>2. t.ok \in BOOLEAN
    BY <1>5 DEF Start
  <2>3. CASE t.obj = q
    BY <1>1, <1>2, <1>5, <2>2, <2>3 DEF Steered
  <2>4. CASE t.obj = [q EXCEPT !.cursor = "open"]
    BY <1>1, <1>2, <1>3, <1>5, <2>2, <2>4 DEF Steered
  <2>5. QED
    BY <2>1, <2>3, <2>4
<1>6. CASE t = Finish(q)
  <2>1. \/ t.obj = q /\ q.cursor # "open"
        \/ t.obj = [q EXCEPT !.cursor = "idle"]
    BY <1>6 DEF Finish
  <2>2. t.ok \in BOOLEAN
    BY <1>6 DEF Finish
  <2>3. CASE t.obj = q /\ q.cursor # "open"
    BY <1>1, <1>2, <2>2, <2>3 DEF Steered
  <2>4. CASE t.obj = [q EXCEPT !.cursor = "idle"]
    BY <1>1, <1>2, <1>3, <2>2, <2>4 DEF Steered
  <2>5. QED
    BY <2>1, <2>3, <2>4
<1>7. QED
  BY <1>4, <1>5, <1>6

(* Transaction control of a context that is not finished.                   *)
LEMMA MongoControlIs ==
  ASSUME NEW o, NEW d, Sound(o, d), o.books.depth \notin Finished,
         NEW s \in Stmt, s.op \notin {"rollbackTo", "insert"}, NEW t, t = MongoControl(o, s)
  PROVE  /\ Steered(o, t.obj) /\ t.ok \in BOOLEAN
         /\ s.op = "begin" /\ o.books.depth = 0 => t.obj.books.depth = 1
<1>1. /\ o \in Object /\ o.books \in Bookkeeping /\ o.books.depth \in Nat /\ Steered(o, o)
      /\ o.books.savepoints \in Seq(Name)
  BY BooksFields, NotSteered DEF Sound, Object
<1> DEFINE x == o.books
<1>2. ASSUME NEW y \in Bookkeeping, y.depth > 0 \/ y.depth \in {Committed, RolledBack},
             NEW q, q = [o EXCEPT !.books = y],
             \/ t = Unchanged(q) /\ (y.depth > 0 \/ o.delegate)
             \/ t = Start(q) /\ y.depth > 0 /\ ~ o.delegate
             \/ t = Finish(q)
      PROVE  Steered(o, t.obj) /\ t.ok \in BOOLEAN /\ t.obj.books = y
  BY <1>2, SessionIs
<1>3. t = [obj |-> o, ok |-> FALSE] => Steered(o, t.obj) /\ t.ok \in BOOLEAN
  <2>1. t = [obj |-> o, ok |-> FALSE] => t.obj = o /\ t.ok = FALSE
    OBVIOUS
  <2>2. QED
    BY <1>1, <2>1
<1>4. \A k \in {Committed, RolledBack} :
        FinishedBooks(k) \in Bookkeeping /\ FinishedBooks(k).depth = k
  BY <1>1, BooksMoves
<1>5. CASE s.op = "begin"
  <2> DEFINE y == [x EXCEPT !.depth = x.depth + 1, !.name = s.arg]
             q == [o EXCEPT !.books = y]
  <2>1. y \in Bookkeeping /\ y.depth = x.depth + 1 /\ y.depth > 0
    <3>1. x.depth + 1 \in Nat /\ x.depth + 1 > 0
      BY <1>1
    <3>2. s.arg \in Name \cup {NoName}
      BY <1>5, StmtKinds
    <3>3. \A k \in Nat : /\ [x EXCEPT !.depth = k, !.name = s.arg] \in Bookkeeping
                         /\ [x EXCEPT !.depth = k, !.name = s.arg].depth = k
      BY <1>1, <3>2 DEF Bookkeeping
    <3>4. QED
      BY <3>1, <3>3
  <2>2. [o EXCEPT !.books.depth = @ + 1, !.books.name = s.arg] = q
    BY <1>1 DEF Object, Bookkeeping
  <2>3. q.books = y
    BY <1>1 DEF Object
  <2>4. t = IF y.depth = 1 /\ ~ o.delegate THEN Start(q) ELSE Unchanged(q)
    <3>1. t = MongoOnBegin(o, s)
      BY <1>5 DEF MongoControl
    <3>2. QED
      BY <2>2, <2>3, <3>1 DEF MongoOnBegin
  <2>5. (t = Start(q) /\ ~ o.delegate) \/ t = Unchanged(q)
    BY <2>4
  <2>6. q = [o EXCEPT !.books = y]
    OBVIOUS
  <2> HIDE DEF y, q
  <2>7. Steered(o, t.obj) /\ t.ok \in BOOLEAN /\ t.obj.books = y
    BY <1>2, <2>1, <2>5, <2>6
  <2>8. QED
    BY <2>1, <2>7
<1>6. CASE s.op = "savepoint"
  <2> DEFINE y == [x EXCEPT !.savepoints = Append(@, s.arg)]
             q == [o EXCEPT !.books = y]
  <2>1. s.arg \in Name
    BY <1>6, StmtKinds
  <2>2. y \in Bookkeeping /\ y.depth = x.depth
    BY <1>1, <2>1, BooksMoves
  <2>3. [o EXCEPT !.books.savepoints = Append(@, s.arg)] = q
    BY <1>1 DEF Object, Bookkeeping
  <2>4. t = Unchanged(q)
    BY <1>6, <2>3 DEF MongoControl
  <2>5. q = [o EXCEPT !.books = y]
    OBVIOUS
  <2>6. CASE x.depth > 0
    <3> HIDE DEF y, q
    <3>1. QED
      BY <1>2, <1>6, <2>2, <2>4, <2>5, <2>6
  <2>7. CASE ~ (x.depth > 0)
    <3>1. x.depth = 0 /\ 0 \notin {Committed, RolledBack}
      BY <1>1, <2>7 DEF Committed, RolledBack
    <3>2. t.obj = q /\ t.ok = TRUE
      BY <2>4 DEF Unchanged
    <3> HIDE DEF y
    <3>3. /\ q \in Object /\ q.books = y /\ q.cursor = o.cursor
          /\ (q.gone <=> o.gone) /\ (q.made <=> o.made) /\ (q.delegate <=> o.delegate)
      BY <1>1, <2>2, WithBooks
    <3>4. o.cursor # "open"
      BY <2>7 DEF Sound
    <3> HIDE DEF q
    <3>5. Steered(o, q)
      BY <2>2, <2>7, <3>1, <3>3, <3>4 DEF Steered
    <3>6. QED
      BY <1>6, <3>2, <3>5
  <2>8. QED
    BY <2>6, <2>7
<1>7. CASE s.op = "commit"
  <2>1. t = MongoOnCommit(o)
    BY <1>7 DEF MongoControl
  <2>2. CASE x.depth = 0
    BY <1>3, <1>7, <2>1, <2>2 DEF MongoOnCommit
  <2>3. CASE x.depth = 1
    <3> DEFINE q == [o EXCEPT !.books = FinishedBooks(Committed)]
    <3>1. [o EXCEPT !.books = IF @.depth = 1 THEN FinishedBooks(Committed)
                                             ELSE [@ EXCEPT !.depth = o.books.depth - 1]] = q
      BY <1>1, <2>3 DEF Object
    <3>2. t = Finish(q) \/ (t = Unchanged(q) /\ o.delegate)
      BY <2>1, <2>3, <3>1 DEF MongoOnCommit
    <3>3. q = [o EXCEPT !.books = FinishedBooks(Committed)]
      OBVIOUS
    <3> HIDE DEF q
    <3>4. QED
      BY <1>2, <1>4, <1>7, <3>2, <3>3
  <2>4. CASE x.depth > 1
    <3> DEFINE y == [x EXCEPT !.depth = x.depth - 1]
               q == [o EXCEPT !.books = y]
    <3>1. y \in Bookkeeping /\ y.depth = x.depth - 1 /\ y.depth > 0
      <4>1. x.depth - 1 \in Nat /\ x.depth - 1 > 0
        BY <1>1, <2>4
      <4>2. \A k \in Nat : /\ [x EXCEPT !.depth = k] \in Bookkeeping
                           /\ [x EXCEPT !.depth = k].depth = k
        BY <1>1 DEF Bookkeeping
      <4>3. QED
        BY <4>1, <4>2
    <3>2. [o EXCEPT !.books = IF @.depth = 1 THEN FinishedBooks(Committed)
                                             ELSE [@ EXCEPT !.depth = o.books.depth - 1]] = q
      <4>1. o.books.depth # 1
        BY <1>1, <2>4
      <4>2. (IF o.books.depth = 1 THEN FinishedBooks(Committed)
                                  ELSE [o.books EXCEPT !.depth = o.books.depth - 1]) = y
        BY <1>1, <4>1 DEF Bookkeeping
      <4>3. QED
        BY <1>1, <4>2 DEF Object
    <3>3. t = Unchanged(q)
      BY <1>1, <2>1, <2>4, <3>2 DEF MongoOnCommit
    <3>4. q = [o EXCEPT !.books = y]
      OBVIOUS
    <3> HIDE DEF y, q
    <3>5. QED
      BY <1>2, <1>7, <3>1, <3>3, <3>4
  <2>5. QED
    BY <1>1, <2>2, <2>3, <2>4
<1>8. CASE s.op = "rollback"
  <2>1. t = MongoOnRollback(o, s.arg)
    BY <1>8 DEF MongoControl
  <2>2. CASE x.depth = 0
    BY <1>3, <1>8, <2>1, <2>2 DEF MongoOnRollback
  <2>3. CASE x.depth > 0 /\ Occurs(x.savepoints, s.arg)
    <3> DEFINE y == [x EXCEPT !.savepoints = PopThrough(@, s.arg)]
               q == [o EXCEPT !.books = y]
    <3>1. y \in Bookkeeping /\ y.depth = x.depth
      BY <1>1, <2>3, BooksMoves
    <3>2. [o EXCEPT !.books.savepoints = PopThrough(@, s.arg)] = q
      BY <1>1 DEF Object, Bookkeeping
    <3>3. t = Unchanged(q)
      BY <2>1, <2>3, <3>2 DEF MongoOnRollback
    <3>4. q = [o EXCEPT !.books = y]
      OBVIOUS
    <3> HIDE DEF y, q
    <3>5. QED
      BY <1>2, <1>8, <2>3, <3>1, <3>3, <3>4
  <2>4. CASE x.depth > 0 /\ ~ Occurs(x.savepoints, s.arg)
    <3> DEFINE q == [o EXCEPT !.books = FinishedBooks(RolledBack)]
    <3>1. t = [obj |-> o, ok |-> FALSE] \/ (t = Unchanged(q) /\ o.delegate) \/ t = Finish(q)
      BY <2>1, <2>4 DEF MongoOnRollback
    <3>2. q = [o EXCEPT !.books = FinishedBooks(RolledBack)]
      OBVIOUS
    <3> HIDE DEF q
    <3>3. QED
      BY <1>2, <1>3, <1>4, <1>8, <3>1, <3>2
  <2>5. QED
    BY <1>1, <2>2, <2>3, <2>4
<1>9. QED
  BY <1>5, <1>6, <1>7, <1>8, StmtKinds

(* A call that only changes the session, or only writes a document.         *)
LEMMA DocumentServes ==
  ASSUME class \in Sessions, NEW o, NEW d, Sound(o, d), Settles(d), NEW q, Steered(o, q),
         NEW n \in Row, NEW r \in Raised(q, d) \cup Returned(q, d) \cup DocumentWrite(q, d, n)
  PROVE  Serves(o, d, r) /\ r.obj = q
<1>1. CASE r \in Raised(q, d)
  <2>1. r.obj = q /\ r.db = d /\ r.ok = FALSE
    BY <1>1 DEF Raised, Outcome
  <2>2. QED
    BY <2>1, SteeredServes
<1>2. CASE r \in Returned(q, d)
  <2>1. r.obj = q /\ r.db = d /\ r.ok = TRUE
    BY <1>2 DEF Returned, Outcome
  <2>2. QED
    BY <2>1, SteeredServes
<1>3. CASE r \in DocumentWrite(q, d, n)
  <2>1. r.obj = q /\ r.ok \in BOOLEAN /\ Settles(r.db) /\ (d.closed => r.db.closed)
    BY <1>3, Written
  <2>2. QED
    BY <2>1, SteeredServes
<1>4. QED
  BY <1>1, <1>2, <1>3

LEMMA MongoServes ==
  ASSUME class \in Sessions, NEW o, NEW d, Sound(o, d), Settles(d),
         NEW s \in Stmt, s.op # "rollbackTo", NEW r \in MongoExecute(o, d, s)
  PROVE  /\ Serves(o, d, r) /\ (r.obj.gone <=> o.gone)
         /\ s.op # "insert" => r.db = d
         /\ s.op = "begin" /\ o.books.depth = 0 => r.obj.books.depth = 1
<1>1. Steered(o, o) /\ o.books \in Bookkeeping
  BY NotSteered DEF Sound, Object
<1>2. CASE o.books.depth \in Finished \/ (s.op = "insert" /\ o.cursor = "none")
  <2>1. r \in Raised(o, d)
    BY <1>2 DEF MongoExecute
  <2>2. r.obj = o /\ r.db = d
    BY <2>1 DEF Raised, Outcome
  <2>3. Serves(o, d, r)
    <3>1. r.obj = o /\ r.db = d /\ r.ok = FALSE
      BY <2>1 DEF Raised, Outcome
    <3>2. QED
      BY <1>1, <3>1, SteeredServes
  <2>4. ~ (s.op = "begin" /\ o.books.depth = 0)
    BY <1>2 DEF Finished, Exited, Committed, RolledBack
  <2>5. QED
    BY <2>2, <2>3, <2>4
<1>3. CASE o.books.depth \notin Finished /\ s.op # "insert"
  <2>1. PICK t : t = MongoControl(o, s)
    OBVIOUS
  <2>2. r = Outcome(t.obj, d, t.ok)
    BY <1>3, <2>1 DEF MongoExecute
  <2>3. r.obj = t.obj /\ r.db = d /\ r.ok = t.ok
    BY <2>2 DEF Outcome
  <2>4. /\ Steered(o, t.obj) /\ t.ok \in BOOLEAN
        /\ s.op = "begin" /\ o.books.depth = 0 => t.obj.books.depth = 1
    BY <1>3, <2>1, MongoControlIs
  <2>5. Serves(o, d, r)
    BY <2>3, <2>4, SteeredServes
  <2>6. QED
    BY <2>3, <2>4, <2>5 DEF Steered
<1>4. CASE o.books.depth \notin Finished /\ s.op = "insert" /\ o.cursor # "none"
  <2>1. r \in DocumentWrite(o, d, s.arg) /\ s.arg \in Row
    BY <1>4, StmtKinds DEF MongoExecute
  <2>2. QED
    BY <1>1, <1>4, <2>1, DocumentServes
<1>5. QED
  BY <1>2, <1>3, <1>4

LEMMA MongoRawServes ==
  ASSUME class \in Sessions, NEW o, NEW d, Sound(o, d), Settles(d),
         NEW s \in Stmt, NEW r \in MongoRaw(o, d, s)
  PROVE  Serves(o, d, r)
<1>1. Steered(o, o)
  BY NotSteered
<1>2. CASE s.op = "insert" /\ o.cursor # "none"
  <2>1. r \in DocumentWrite(o, d, s.arg) /\ s.arg \in Row
    BY <1>2, StmtKinds DEF MongoRaw
  <2>2. QED
    BY <1>1, <2>1, DocumentServes
<1>3. CASE ~ (s.op = "insert" /\ o.cursor # "none")
  <2>1. r.obj = o /\ r.db = d /\ (r.ok = TRUE \/ r.ok = FALSE)
    BY <1>3 DEF MongoRaw, Raised, Returned, Outcome
  <2>2. QED
    BY <1>1, <2>1, SteeredServes
<1>4. QED
  BY <1>2, <1>3

LEMMA MongoCursorServes ==
  ASSUME class \in Sessions, NEW o, NEW d, Sound(o, d), Settles(d),
         NEW n \in Row, NEW r \in MongoCursorInsert(o, d, n)
  PROVE  Serves(o, d, r)
<1>1. Insert(n) \in Stmt /\ Insert(n).op = "insert" /\ Insert(n).arg = n
  BY StmtMade DEF Insert
<1>2. r \in MongoRaw(o, d, Insert(n))
  BY <1>1 DEF MongoCursorInsert, MongoRaw
<1>3. QED
  BY <1>1, <1>2, MongoRawServes

(* A line of a script: of what is sent, every line writes a document.       *)
LEMMA MongoLineIs ==
  ASSUME NEW o, NEW d, Sound(o, d), NEW s \in Stmt, s.op # "rollbackTo",
         NEW a, a = MongoLine(o, s)
  PROVE  /\ Steered(o, a.obj) /\ a.ok \in BOOLEAN
         /\ a.sent \in {<<>>, <<s>>} /\ (a.sent # <<>> => s.op = "insert")
<1>1. Steered(o, o)
  BY NotSteered
<1>2. CASE o.books.depth \in Finished
  <2>1. a.obj = o /\ a.ok = FALSE /\ a.sent = <<>>
    BY <1>2 DEF MongoLine
  <2>2. QED
    BY <1>1, <2>1
<1>3. CASE o.books.depth \notin Finished /\ s.op = "insert"
  <2>1. a.obj = o /\ a.ok = TRUE /\ a.sent = <<s>>
    BY <1>3 DEF MongoLine
  <2>2. QED
    BY <1>1, <1>3, <2>1
<1>4. CASE o.books.depth \notin Finished /\ s.op # "insert"
  <2>1. PICK t : t = MongoControl(o, s)
    OBVIOUS
  <2>2. a.obj = t.obj /\ a.ok = t.ok /\ a.sent = <<>>
    BY <1>4, <2>1 DEF MongoLine
  <2>3. Steered(o, t.obj) /\ t.ok \in BOOLEAN
    BY <1>4, <2>1, MongoControlIs
  <2>4. QED
    BY <2>2, <2>3
<1>5. QED
  BY <1>2, <1>3, <1>4

LEMMA MongoScriptServes ==
  ASSUME class \in Sessions, NEW o, NEW d, Sound(o, d), Settles(d),
         NEW s \in Stmt, NEW t \in Stmt, s.op # "rollbackTo", t.op # "rollbackTo",
         NEW r \in MongoScript(o, d, s, t)
  PROVE  Serves(o, d, r)
<1> DEFINE a == MongoLine(o, s)
           b == MongoLine(a.obj, t)
           lines == a.sent \o b.sent
<1>1. r \in CASE ~ a.ok -> Raised(a.obj, d)
              [] a.ok /\ ~ b.ok -> Raised(b.obj, d)
              [] a.ok /\ b.ok /\ lines = <<>> -> Returned(b.obj, d)
              [] a.ok /\ b.ok /\ lines # <<>> ->
                   IF b.obj.cursor = "none" THEN Raised(b.obj, d)
                                            ELSE DocumentWrite(b.obj, d, lines[1].arg)
  BY DEF MongoScript, Script
<1>2. a = MongoLine(o, s) /\ b = MongoLine(a.obj, t) /\ lines = a.sent \o b.sent
  OBVIOUS
<1> HIDE DEF a, b, lines
<1>3. /\ Steered(o, a.obj) /\ a.ok \in BOOLEAN
      /\ a.sent \in {<<>>, <<s>>} /\ (a.sent # <<>> => s.op = "insert")
  BY <1>2, MongoLineIs
<1>4. Sound(a.obj, d)
  BY <1>3 DEF Sound, Steered, Sessions, Tsql
<1>5. /\ Steered(a.obj, b.obj) /\ b.ok \in BOOLEAN
      /\ b.sent \in {<<>>, <<t>>} /\ (b.sent # <<>> => t.op = "insert")
  BY <1>2, <1>4, MongoLineIs
<1>6. Steered(o, b.obj)
  BY <1>3, <1>5, SteeredTwice
<1>7. CASE r \in Raised(a.obj, d)
  <2>1. r.obj = a.obj /\ r.db = d /\ r.ok = FALSE
    BY <1>7 DEF Raised, Outcome
  <2>2. QED
    BY <1>3, <2>1, SteeredServes
<1>8. CASE r \in Raised(b.obj, d) \cup Returned(b.obj, d)
  <2>1. r.obj = b.obj /\ r.db = d /\ (r.ok = TRUE \/ r.ok = FALSE)
    BY <1>8 DEF Raised, Returned, Outcome
  <2>2. QED
    BY <1>6, <2>1, SteeredServes
<1>9. CASE lines # <<>> /\ r \in DocumentWrite(b.obj, d, lines[1].arg)
  <2>1. \/ lines = <<s>> /\ a.sent # <<>>
        \/ lines = <<t>> /\ b.sent # <<>>
        \/ lines = <<s, t>> /\ a.sent # <<>> /\ b.sent # <<>>
    <3>1. PICK u \in {<<>>, <<s>>} : u = a.sent
      BY <1>3
    <3>2. PICK v \in {<<>>, <<t>>} : v = b.sent
      BY <1>5
    <3>3. lines = u \o v
      BY <1>2, <3>1, <3>2
    <3>4. \/ lines = <<s>> /\ u # <<>>
          \/ lines = <<t>> /\ v # <<>>
          \/ lines = <<s, t>> /\ u # <<>> /\ v # <<>>
      BY <1>9, <3>3, LinesLeft
    <3>5. QED
      BY <3>1, <3>2, <3>4
  <2>2. lines[1].arg \in Row
    <3>1. \/ lines[1] = s /\ a.sent # <<>>
          \/ lines[1] = t /\ b.sent # <<>>
      BY <2>1
    <3>2. /\ a.sent # <<>> => s.arg \in Row
          /\ b.sent # <<>> => t.arg \in Row
      BY <1>3, <1>5, StmtKinds
    <3>3. QED
      BY <3>1, <3>2
  <2>3. QED
    BY <1>6, <1>9, <2>2, DocumentServes
<1>10. QED
  BY <1>1, <1>3, <1>5, <1>7, <1>8, <1>9

(* begin_transaction is execute on an object with a new session.            *)
LEMMA NewSession ==
  ASSUME class \in Sessions, NEW o, NEW d, Sound(o, d), Settles(d),
         NEW k \in {"idle", "ended"}, NEW q, q = [o EXCEPT !.cursor = k],
         NEW n \in Name \cup {NoName}, NEW r \in MongoExecute(q, d, Begin(n))
  PROVE  Serves(o, d, r) /\ (~ o.gone => Enters(o, d, r))
<1>1. o \in Object /\ k # "open" /\ k \in {"none", "idle", "open", "ended"}
  BY DEF Sound
<1>2. /\ q \in Object /\ q.books = o.books /\ q.cursor = k
      /\ (q.gone <=> o.gone) /\ (q.made <=> o.made) /\ (q.delegate <=> o.delegate)
  BY <1>1 DEF Object
<1>3. class \notin Tsql /\ class # "asyncSqlite" /\ class # "asyncMysql"
  BY DEF Sessions, Tsql
<1>4. Sound(q, d)
  BY <1>1, <1>2, <1>3 DEF Sound
<1>5. PICK s \in Stmt : s = Begin(n) /\ s.op = "begin"
  BY StmtMade DEF Begin
<1>6. /\ Serves(q, d, r) /\ (r.obj.gone <=> q.gone) /\ r.db = d
      /\ q.books.depth = 0 => r.obj.books.depth = 1
  <2>1. ASSUME NEW x, Sound(x, d), NEW u \in MongoExecute(x, d, s)
        PROVE  /\ Serves(x, d, u) /\ (u.obj.gone <=> x.gone) /\ u.db = d
               /\ x.books.depth = 0 => u.obj.books.depth = 1
    <3>1. s.op # "rollbackTo"
      BY <1>5
    <3>2. QED
      BY <1>5, <2>1, <3>1, MongoServes
  <2>2. r \in MongoExecute(q, d, s)
    BY <1>5
  <2>3. QED
    BY <1>4, <2>1, <2>2
<1>7. Good(o, d, r)
  BY <1>2, <1>6 DEF Serves, Good
<1>8. Working(o, d) => Working(q, d)
  BY <1>2 DEF Working
<1>9. Serves(o, d, r)
  BY <1>3, <1>6, <1>7, <1>8 DEF Serves
<1>10. o.books.depth = 0 /\ ~ o.gone => Working(r.obj, r.db) /\ r.db = d
  BY <1>2, <1>3, <1>6 DEF Working
<1>11. ~ d.open
  BY PlainSettled
<1>12. QED
  BY <1>7, <1>9, <1>10, <1>11 DEF Enters

LEMMA MongoBegins ==
  ASSUME class \in Sessions, NEW o, NEW d, Sound(o, d), Settles(d),
         NEW n \in Name \cup {NoName}, NEW r \in MongoBegin(o, d, n) \cup AsyncMongoBegin(o, d, n)
  PROVE  Serves(o, d, r) /\ Enters(o, d, r)
<1>1. CASE o.gone \/ d.closed
  <2>1. r \in Raised(o, d)
    BY <1>1 DEF MongoBegin, AsyncMongoBegin
  <2>2. r.obj = o /\ r.db = d /\ r.ok = FALSE
    BY <2>1 DEF Raised, Outcome
  <2>3. Serves(o, d, r)
    BY <2>2, NotSteered, SteeredServes
  <2>4. ~ d.open
    BY PlainSettled
  <2>5. QED
    BY <2>2, <2>3, <2>4 DEF Serves, Enters
<1>2. CASE ~ (o.gone \/ d.closed)
  <2>1. AsyncMongoExecute([o EXCEPT !.cursor = "ended"], d, Begin(n))
          = MongoExecute([o EXCEPT !.cursor = "ended"], d, Begin(n))
    BY DEF AsyncMongoExecute, AsyncMongoControl, MongoExecute
  <2>2. PICK k \in {"idle", "ended"} : r \in MongoExecute([o EXCEPT !.cursor = k], d, Begin(n))
    BY <1>2, <2>1 DEF MongoBegin, AsyncMongoBegin
  <2>3. QED
    BY <1>2, <2>2, NewSession
<1>3. QED
  BY <1>1, <1>2

LEMMA MongoCloseGood ==
  ASSUME class \in Sessions, NEW o, NEW d, Sound(o, d), Settles(d), NEW owned \in BOOLEAN,
         NEW r, r = MongoClose(o, d, owned)
  PROVE  /\ Good(o, d, r) /\ r.obj.cursor # "open" /\ r = Outcome(r.obj, r.db, r.ok)
         /\ owned /\ ~ o.gone => r.db.closed
<1>1. o \in Object /\ d \in Connection /\ class \notin Tsql /\ class # "asyncSqlite"
  BY DEF Sound, Settles, Sessions, Tsql
<1> DEFINE q == [o EXCEPT !.cursor = "none", !.gone = TRUE]
           e == IF owned /\ ~ o.gone THEN Dead(d) ELSE d
<1>2. q \in Object /\ q.books = o.books /\ q.cursor = "none"
  BY <1>1 DEF Object
<1>3. Settles(Dead(d)) /\ Dead(d).closed
  BY <1>1, DeadSettles
<1>4. Settles(e) /\ (d.closed => e.closed) /\ (owned /\ ~ o.gone => e.closed)
  BY <1>3
<1>5. r = Outcome(q, e, TRUE)
  BY DEF MongoClose
<1> HIDE DEF q, e
<1>6. r.obj = q /\ r.db = e /\ r.ok = TRUE
  BY <1>5 DEF Outcome
<1>7. Sound(q, e)
  BY <1>1, <1>2 DEF Sound
<1>8. QED
  BY <1>2, <1>4, <1>5, <1>6, <1>7 DEF Good

LEMMA MongoLeaves ==
  ASSUME class \in Sessions, NEW o, NEW d, Sound(o, d), Settles(d), NEW owned \in BOOLEAN,
         NEW r \in MongoExit(o, d, owned)
  PROVE  Leaves(o, d, r, owned)
<1> DEFINE rolled == IF o.books.depth > 0 THEN MongoExecute(o, d, Rollback(NoName))
                                          ELSE Returned(o, d)
<1>1. PICK a \in rolled : r = [MongoClose(a.obj, a.db, owned) EXCEPT !.obj.books.depth = Exited]
  BY DEF MongoExit, Leave
<1>2. o \in Object
  BY DEF Sound
<1>3. Good(o, d, a) /\ (a.obj.gone <=> o.gone)
  <2>1. CASE o.books.depth > 0
    <3>1. Rollback(NoName) \in Stmt /\ Rollback(NoName).op # "rollbackTo"
      BY StmtMade DEF Rollback
    <3>2. Serves(o, d, a) /\ (a.obj.gone <=> o.gone)
      BY <1>1, <2>1, <3>1, MongoServes
    <3>3. QED
      BY <3>2 DEF Serves
  <2>2. CASE ~ (o.books.depth > 0)
    <3>1. a.obj = o /\ a.db = d /\ a.ok = TRUE
      BY <1>1, <2>2 DEF Returned, Outcome
    <3>2. Serves(o, d, a)
      BY <3>1, NotSteered, SteeredServes
    <3>3. QED
      BY <3>1, <3>2 DEF Serves
  <2>3. QED
    BY <2>1, <2>2
<1> HIDE DEF rolled
<1>4. PICK c : c = MongoClose(a.obj, a.db, owned)
  OBVIOUS
<1>5. Sound(a.obj, a.db) /\ Settles(a.db)
  BY <1>3 DEF Good
<1>6. /\ Good(a.obj, a.db, c) /\ c.obj.cursor # "open" /\ c = Outcome(c.obj, c.db, c.ok)
      /\ owned /\ ~ a.obj.gone => c.db.closed
  BY <1>4, <1>5, MongoCloseGood
<1>7. Good(o, d, c)
  BY <1>2, <1>3, <1>6, GoodTwice
<1>8. r = [c EXCEPT !.obj.books.depth = Exited]
  BY <1>1, <1>4
<1>9. Good(o, d, r) /\ r.db = c.db
  BY <1>2, <1>6, <1>7, <1>8, LeaveMarks
<1>10. class \notin Tsql \cup {"asyncSqlite"} /\ ~ r.db.open
  BY <1>9, PlainSettled DEF Good
<1>11. Working(o, d) => ~ o.gone
  BY DEF Working
<1>12. QED
  BY <1>3, <1>6, <1>9, <1>10, <1>11 DEF Leaves

-----------------------------------------------------------------------------
(* The calls of whatever class it is. *)

LEMMA ClassKinds ==
  ASSUME class \in Classes
  PROVE  class \in Tsql \cup {"asyncSqlite", "asyncMysql"} \cup Sessions \cup NoTransactions
  BY ProviderAssumption DEF Tsql, Sessions, NoTransactions

(* The asynchronous contexts of MongoDB and ClickHouse do what the          *)
(* synchronous ones do.                                                     *)
LEMMA AsyncAsSync ==
  ASSUME NEW o, NEW d, NEW s, NEW n, NEW owned
  PROVE  /\ AsyncMongoExecute(o, d, s) = MongoExecute(o, d, s)
         /\ AsyncMongoExit(o, d, owned) = MongoExit(o, d, owned)
         /\ AsyncClickHouseExecute(o, d, s) = ClickHouseExecute(o, d, s)
         /\ AsyncClickHouseBegin(o, d, n) = ClickHouseBegin(o, d, n)
         /\ AsyncClickHouseExit(o, d, owned) = ClickHouseExit(o, d, owned)
<1>1. \A q, e, u : AsyncMongoExecute(q, e, u) = MongoExecute(q, e, u)
  BY DEF AsyncMongoExecute, AsyncMongoControl, MongoExecute
<1>2. \A q, e, u : AsyncClickHouseExecute(q, e, u) = ClickHouseExecute(q, e, u)
  BY DEF AsyncClickHouseExecute, AsyncClickHousePreprocess, ClickHouseExecute
<1>3. AsyncMongoExit(o, d, owned) = MongoExit(o, d, owned)
  BY <1>1 DEF AsyncMongoExit, MongoExit, AsyncMongoClose
<1>4. AsyncClickHouseExit(o, d, owned) = ClickHouseExit(o, d, owned)
  BY <1>2 DEF AsyncClickHouseExit, ClickHouseExit, AsyncClickHouseClose
<1>5. AsyncClickHouseBegin(o, d, n) = ClickHouseBegin(o, d, n)
  BY <1>2 DEF AsyncClickHouseBegin, ClickHouseBegin
<1>6. QED
  BY <1>1, <1>2, <1>3, <1>4, <1>5

(* A context whose block nothing can be done in.                            *)
LEMMA AsyncMysqlServes ==
  ASSUME class = "asyncMysql", NEW o, NEW d, NEW r, Good(o, d, r)
  PROVE  Serves(o, d, r)
  BY DEF Serves, Working

LEMMA ExecuteServes ==
  ASSUME class \in Classes, NEW o, NEW d, Sound(o, d), Settles(d), NEW s \in Stmt,
         s.op = "rollbackTo" => class \in {"asyncSqlite", "asyncMysql"},
         NEW r \in ExecuteOf(o, d, s)
  PROVE  Serves(o, d, r)
<1>1. CASE class = "mssql"
  <2>1. class \in Tsql /\ s.op # "rollbackTo" /\ r \in MssqlExecute(o, d, s)
    BY <1>1 DEF ExecuteOf, Tsql
  <2>2. QED
    BY <2>1, MssqlServes
<1>2. CASE class = "asyncMssql"
  <2>1. class \in Tsql /\ s.op # "rollbackTo" /\ r \in MssqlExecute(AsyncMssqlInner(o), d, s)
    BY <1>2 DEF ExecuteOf, Tsql
  <2>2. Sound(AsyncMssqlInner(o), d)
    BY <2>1, MadeIs
  <2>3. Serves(AsyncMssqlInner(o), d, r)
    BY <2>1, <2>2, MssqlServes
  <2>4. QED
    BY <2>1, <2>3, ThroughInner
<1>3. CASE class = "asyncSqlite"
  <2>1. r \in AsyncSqliteExecute(o, d, s)
    BY <1>3 DEF ExecuteOf
  <2>2. QED
    BY <1>3, <2>1, AsyncSqliteServes
<1>4. CASE class = "asyncMysql"
  <2>1. r \in AsyncMysqlExecute(o, d, s)
    BY <1>4 DEF ExecuteOf
  <2>2. QED
    BY <1>4, <2>1, AsyncMysqlIs, AsyncMysqlServes
<1>5. CASE class \in Sessions
  <2>1. s.op # "rollbackTo" /\ r \in MongoExecute(o, d, s)
    BY <1>5, AsyncAsSync DEF ExecuteOf, Sessions
  <2>2. QED
    BY <1>5, <2>1, MongoServes
<1>6. CASE class \in NoTransactions
  <2>1. s.op # "rollbackTo" /\ r \in ClickHouseExecute(o, d, s)
    BY <1>6, AsyncAsSync DEF ExecuteOf, NoTransactions
  <2>2. QED
    BY <1>6, <2>1, ClickHouseServes
<1>7. QED
  BY <1>1, <1>2, <1>3, <1>4, <1>5, <1>6, ClassKinds DEF Tsql

LEMMA BeginServes ==
  ASSUME class \in Classes, NEW o, NEW d, Sound(o, d), Settles(d),
         NEW n \in Name \cup {NoName}, NEW r \in BeginOf(o, d, n)
  PROVE  Serves(o, d, r)
<1>1. /\ Begin(n) \in Stmt /\ Begin(n).op # "rollbackTo"
      /\ Begin(NoName) \in Stmt /\ Begin(NoName).op # "rollbackTo"
  BY StmtMade DEF Begin
<1>2. CASE class \in Tsql \cup {"asyncSqlite"}
  <2>1. r \in ExecuteOf(o, d, Begin(n))
    BY <1>2 DEF BeginOf, Tsql
  <2>2. QED
    BY <1>1, <2>1, ExecuteServes
<1>3. CASE class = "asyncMysql"
  <2>1. r \in AsyncMysqlExecute(o, d, Begin(NoName))
    BY <1>3 DEF BeginOf, AsyncMysqlBegin, Tsql, Sessions, NoTransactions
  <2>2. QED
    BY <1>1, <1>3, <2>1, AsyncMysqlIs, AsyncMysqlServes
<1>4. CASE class \in Sessions
  <2>1. r \in MongoBegin(o, d, n) \cup AsyncMongoBegin(o, d, n)
    BY <1>4 DEF BeginOf, Tsql, Sessions, NoTransactions
  <2>2. QED
    BY <1>4, <2>1, MongoBegins
<1>5. CASE class \in NoTransactions
  <2>1. r \in ClickHouseBegin(o, d, n)
    BY <1>5, AsyncAsSync DEF BeginOf, Tsql, Sessions, NoTransactions
  <2>2. QED
    BY <1>5, <2>1, ClickHouseBegins
<1>6. QED
  BY <1>2, <1>3, <1>4, <1>5, ClassKinds

LEMMA EnterEnters ==
  ASSUME class \in Classes, NEW o, NEW d, Sound(o, d), Settles(d), NEW r \in EnterOf(o, d)
  PROVE  Enters(o, d, r)
<1>1. Begin(NoName) \in Stmt /\ Begin(NoName).op = "begin"
  BY StmtMade DEF Begin
<1>2. CASE class = "mssql"
  <2>1. class \in Tsql /\ r \in MssqlExecute(o, d, Begin(NoName))
    BY <1>2 DEF EnterOf, BeginOf, ExecuteOf, Tsql
  <2>2. QED
    BY <2>1, MssqlEnters DEF Enters
<1>3. CASE class = "asyncMssql"
  <2>1. class \in Tsql /\ r \in MssqlExecute(AsyncMssqlInner(o), d, Begin(NoName))
    BY <1>3 DEF EnterOf, BeginOf, ExecuteOf, Tsql
  <2>2. PICK q : q = AsyncMssqlInner(o)
    OBVIOUS
  <2>3. Sound(q, d) /\ q.books = o.books /\ (q.gone <=> o.gone)
    BY <2>1, <2>2, MadeIs
  <2>4. r \in MssqlExecute(q, d, Begin(NoName))
    BY <2>1, <2>2
  <2>5. /\ Good(q, d, r)
        /\ q.books.depth = 0 /\ ~ q.gone /\ ~ d.open =>
             /\ r.db.durable = d.durable
             /\ r.ok => Working(r.obj, r.db)
             /\ ~ r.ok => ~ r.db.open
    BY <2>1, <2>3, <2>4, MssqlEnters
  <2>6. Good(o, d, r)
    BY <2>1, <2>2, <2>5, ThroughInner
  <2>7. QED
    BY <2>3, <2>5, <2>6 DEF Enters
<1>4. CASE class = "asyncSqlite"
  <2>1. r \in AsyncSqliteInner(o, d)
    BY <1>4 DEF EnterOf
  <2>2. QED
    BY <1>4, <2>1, SqliteInnerIs
<1>5. CASE class = "asyncMysql"
  <2>1. r \in AsyncMysqlExecute(o, d, Begin(NoName))
    BY <1>5 DEF EnterOf, BeginOf, AsyncMysqlBegin, Tsql, Sessions, NoTransactions
  <2>2. Good(o, d, r) /\ r.db = d /\ (o.books.depth = 0 => ~ r.ok)
    BY <1>1, <1>5, <2>1, AsyncMysqlIs
  <2>3. QED
    BY <2>2 DEF Enters
<1>6. CASE class \in Sessions
  <2>1. r \in MongoBegin(o, d, NoName) \cup AsyncMongoBegin(o, d, NoName)
    BY <1>6 DEF EnterOf, BeginOf, Tsql, Sessions, NoTransactions
  <2>2. QED
    BY <1>6, <2>1, MongoBegins
<1>7. CASE class \in NoTransactions
  <2>1. r \in ClickHouseBegin(o, d, NoName)
    BY <1>7, AsyncAsSync DEF EnterOf, BeginOf, Tsql, Sessions, NoTransactions
  <2>2. QED
    BY <1>7, <2>1, ClickHouseBegins
<1>8. QED
  BY <1>2, <1>3, <1>4, <1>5, <1>6, <1>7, ClassKinds DEF Tsql

LEMMA RollbackSavepointServes ==
  ASSUME class \in Classes, NEW o, NEW d, Sound(o, d), Settles(d),
         NEW n \in Name, NEW r \in RollbackSavepointOf(o, d, n)
  PROVE  Serves(o, d, r)
<1>1. CASE class = "mssql"
  <2>1. class \in Tsql /\ r \in MssqlRollbackSavepoint(o, d, n)
    BY <1>1 DEF RollbackSavepointOf, Tsql, Sessions, NoTransactions
  <2>2. QED
    BY <2>1, MssqlRollbackSavepointServes
<1>2. CASE class = "asyncMssql"
  <2>1. class \in Tsql /\ r \in MssqlRollbackSavepoint(AsyncMssqlInner(o), d, n)
    BY <1>2 DEF RollbackSavepointOf, Tsql, Sessions, NoTransactions
  <2>2. Sound(AsyncMssqlInner(o), d)
    BY <2>1, MadeIs
  <2>3. Serves(AsyncMssqlInner(o), d, r)
    BY <2>1, <2>2, MssqlRollbackSavepointServes
  <2>4. QED
    BY <2>1, <2>3, ThroughInner
<1>3. CASE class \in {"asyncSqlite", "asyncMysql"}
  <2>1. r \in ExecuteOf(o, d, RollbackTo(n))
    BY <1>3 DEF RollbackSavepointOf, Tsql, Sessions, NoTransactions
  <2>2. QED
    BY <1>3, <2>1, StmtMade, ExecuteServes
<1>4. CASE class \in Sessions \cup NoTransactions
  <2>1. r \in ExecuteOf(o, d, Rollback(n))
    BY <1>4 DEF RollbackSavepointOf, Sessions, NoTransactions
  <2>2. Rollback(n) \in Stmt /\ Rollback(n).op # "rollbackTo"
    BY StmtMade DEF Rollback
  <2>3. QED
    BY <2>1, <2>2, ExecuteServes
<1>5. QED
  BY <1>1, <1>2, <1>3, <1>4, ClassKinds DEF Tsql

LEMMA CursorInsertServes ==
  ASSUME class \in Classes, NEW o, NEW d, Sound(o, d), Settles(d),
         NEW n \in Row, NEW r \in CursorInsertOf(o, d, n)
  PROVE  /\ Good(o, d, r)
         /\ o.books.depth \notin Finished => Serves(o, d, r)
<1>1. CASE class = "mssql"
  <2>1. class \in Tsql /\ r \in MssqlCursorInsert(o, d, n)
    BY <1>1 DEF CursorInsertOf, Tsql, Sessions, NoTransactions
  <2>2. QED
    BY <2>1, MssqlCursorServes
<1>2. CASE class = "asyncMssql"
  <2>1. class \in Tsql
    BY <1>2 DEF Tsql
  <2>2. PICK q : q = AsyncMssqlInner(o) /\ r \in MssqlCursorInsert(q, d, n)
    BY <1>2 DEF CursorInsertOf, Tsql, Sessions, NoTransactions
  <2>3. Sound(q, d) /\ q.books = o.books
    BY <2>1, <2>2, MadeIs
  <2>4. Good(q, d, r) /\ (q.books.depth \notin Finished => Serves(q, d, r))
    BY <2>1, <2>2, <2>3, MssqlCursorServes
  <2>5. QED
    BY <2>1, <2>2, <2>3, <2>4, ThroughInner
<1>3. CASE class = "asyncSqlite"
  <2>1. r \in AsyncSqliteCursorInsert(o, d, n)
    BY <1>3 DEF CursorInsertOf, Sessions, NoTransactions
  <2>2. QED
    BY <1>3, <2>1, AsyncSqliteCursorServes
<1>4. CASE class = "asyncMysql"
  <2>1. r \in AsyncMysqlCursorInsert(o, d, n)
    BY <1>4 DEF CursorInsertOf, Sessions, NoTransactions
  <2>2. QED
    BY <1>4, <2>1, AsyncMysqlCursorGood, AsyncMysqlServes
<1>5. CASE class \in Sessions
  <2>1. r \in MongoCursorInsert(o, d, n)
    BY <1>5 DEF CursorInsertOf, Sessions, NoTransactions
  <2>2. QED
    BY <1>5, <2>1, MongoCursorServes DEF Serves
<1>6. CASE class \in NoTransactions
  <2>1. r \in ClickHouseCursorInsert(o, d, n)
    BY <1>6 DEF CursorInsertOf, Sessions, NoTransactions
  <2>2. QED
    BY <1>6, <2>1, ClickHouseCursorServes DEF Serves
<1>7. QED
  BY <1>1, <1>2, <1>3, <1>4, <1>5, <1>6, ClassKinds DEF Tsql

LEMMA RawIsGood ==
  ASSUME class \in Classes, NEW o, NEW d, Sound(o, d), Settles(d),
         NEW s \in Stmt, NEW r \in RawOf(o, d, s)
  PROVE  Good(o, d, r)
<1>1. CASE class = "mssql"
  <2>1. class \in Tsql /\ r \in MssqlRaw(o, d, s)
    BY <1>1 DEF RawOf, Tsql, Sessions, NoTransactions
  <2>2. QED
    BY <2>1, MssqlRawGood
<1>2. CASE class = "asyncMssql"
  <2>1. class \in Tsql
    BY <1>2 DEF Tsql
  <2>2. PICK q : q = AsyncMssqlInner(o) /\ r \in MssqlRaw(q, d, s)
    BY <1>2 DEF RawOf, Tsql, Sessions, NoTransactions
  <2>3. Sound(q, d)
    BY <2>1, <2>2, MadeIs
  <2>4. Good(q, d, r)
    BY <2>1, <2>2, <2>3, MssqlRawGood
  <2>5. QED
    BY <2>1, <2>2, <2>4, ThroughInner
<1>3. CASE class = "asyncSqlite"
  <2>1. r \in AsyncSqliteRaw(o, d, s)
    BY <1>3 DEF RawOf, Sessions, NoTransactions
  <2>2. QED
    BY <1>3, <2>1, AsyncSqliteRawGood
<1>4. CASE class = "asyncMysql"
  <2>1. r \in Raised(o, d)
    BY <1>4 DEF RawOf, AsyncMysqlRaw, Sessions, NoTransactions
  <2>2. Moved(o, o) /\ class \notin Sessions /\ class # "asyncSqlite"
    BY <1>4, NotMoved DEF Sound, Sessions
  <2>3. QED
    BY <2>1, <2>2, NothingSent
<1>5. CASE class \in Sessions
  <2>1. r \in MongoRaw(o, d, s)
    BY <1>5 DEF RawOf, Sessions, NoTransactions
  <2>2. QED
    BY <1>5, <2>1, MongoRawServes DEF Serves
<1>6. CASE class \in NoTransactions
  <2>1. r \in ClickHouseRaw(o, d, s)
    BY <1>6 DEF RawOf, Sessions, NoTransactions
  <2>2. QED
    BY <1>6, <2>1, ClickHouseRawGood
<1>7. QED
  BY <1>1, <1>2, <1>3, <1>4, <1>5, <1>6, ClassKinds DEF Tsql

LEMMA ScriptIsGood ==
  ASSUME class \in Classes, NEW o, NEW d, Sound(o, d), Settles(d),
         NEW s \in Stmt, NEW t \in Stmt, s.op # "rollbackTo", t.op # "rollbackTo",
         NEW r \in ScriptOf(o, d, s, t)
  PROVE  Good(o, d, r)
<1>1. CASE class = "mssql"
  <2>1. class \in Tsql /\ r \in MssqlScript(o, d, s, t)
    BY <1>1 DEF ScriptOf, Tsql
  <2>2. QED
    BY <2>1, MssqlScriptGood
<1>2. CASE class = "asyncMssql"
  <2>1. class \in Tsql
    BY <1>2 DEF Tsql
  <2>2. PICK q : q = AsyncMssqlInner(o) /\ r \in MssqlScript(q, d, s, t)
    BY <1>2 DEF ScriptOf
  <2>3. Sound(q, d)
    BY <2>1, <2>2, MadeIs
  <2>4. Good(q, d, r)
    BY <2>1, <2>2, <2>3, MssqlScriptGood
  <2>5. QED
    BY <2>1, <2>2, <2>4, ThroughInner
<1>3. CASE class = "asyncSqlite"
  <2>1. r \in AsyncSqliteScript(o, d, s, t)
    BY <1>3 DEF ScriptOf
  <2>2. QED
    BY <1>3, <2>1, AsyncSqliteScriptGood
<1>4. CASE class = "asyncMysql"
  <2>1. r \in AsyncMysqlScript(o, d, s, t)
    BY <1>4 DEF ScriptOf
  <2>2. QED
    BY <1>4, <2>1, AsyncMysqlScriptGood
<1>5. CASE class \in Sessions
  <2>1. r \in MongoScript(o, d, s, t)
    BY <1>5 DEF ScriptOf, AsyncMongoScript, Sessions
  <2>2. QED
    BY <1>5, <2>1, MongoScriptServes DEF Serves
<1>6. CASE class \in NoTransactions
  <2>1. r \in ClickHouseScript(o, d, s, t)
    BY <1>6 DEF ScriptOf, AsyncClickHouseScript, NoTransactions
  <2>2. QED
    BY <1>6, <2>1, ClickHouseScriptGood
<1>7. QED
  BY <1>1, <1>2, <1>3, <1>4, <1>5, <1>6, ClassKinds DEF Tsql

LEMMA CloseIsGood ==
  ASSUME class \in Classes, NEW o, NEW d, Sound(o, d), Settles(d), NEW owned \in BOOLEAN,
         NEW r, r = CloseOf(o, d, owned)
  PROVE  Good(o, d, r)
<1>1. CASE class = "mssql"
  <2>1. /\ class \in Tsql /\ class \notin Sessions /\ class # "asyncSqlite"
        /\ r = MssqlClose(o, d, owned)
    BY <1>1 DEF CloseOf, Tsql, Sessions
  <2>2. QED
    BY <2>1, MssqlCloseGood
<1>2. CASE class = "asyncMssql"
  <2>1. class \in Tsql /\ r = AsyncMssqlClose(o, d, owned)
    BY <1>2 DEF CloseOf, Tsql
  <2>2. QED
    BY <2>1, AsyncMssqlCloseGood
<1>3. CASE class = "asyncSqlite"
  <2>1. r = AsyncSqliteClose(o, d, owned)
    BY <1>3 DEF CloseOf
  <2>2. QED
    BY <1>3, <2>1, AsyncSqliteCloseGood
<1>4. CASE class = "asyncMysql"
  <2>1. r = AsyncMysqlClose(o, d, owned)
    BY <1>4 DEF CloseOf
  <2>2. QED
    BY <1>4, <2>1, AsyncMysqlCloseGood
<1>5. CASE class \in Sessions
  <2>1. r = MongoClose(o, d, owned)
    BY <1>5 DEF CloseOf, AsyncMongoClose, Sessions
  <2>2. QED
    BY <1>5, <2>1, MongoCloseGood
<1>6. CASE class \in NoTransactions
  <2>1. r = ClickHouseClose(o, d, owned)
    BY <1>6 DEF CloseOf, AsyncClickHouseClose, NoTransactions
  <2>2. QED
    BY <1>6, <2>1, ClickHouseCloseGood
<1>7. QED
  BY <1>1, <1>2, <1>3, <1>4, <1>5, <1>6, ClassKinds DEF Tsql

LEMMA ExitLeaves ==
  ASSUME class \in Classes, NEW o, NEW d, Sound(o, d), Settles(d), NEW owned \in BOOLEAN,
         NEW r \in ExitOf(o, d, owned)
  PROVE  Leaves(o, d, r, owned)
<1>1. CASE class \in Tsql
  <2>1. r \in MssqlExit(o, d, owned)
    BY <1>1 DEF ExitOf, AsyncMssqlExit, Tsql
  <2>2. QED
    BY <1>1, <2>1, MssqlLeaves
<1>2. CASE class = "asyncSqlite"
  <2>1. r \in AsyncSqliteExit(o, d, owned)
    BY <1>2 DEF ExitOf
  <2>2. QED
    BY <1>2, <2>1, AsyncSqliteLeaves
<1>3. CASE class = "asyncMysql"
  <2>1. r \in AsyncMysqlExit(o, d, owned)
    BY <1>3 DEF ExitOf
  <2>2. QED
    BY <1>3, <2>1, AsyncMysqlLeaves
<1>4. CASE class \in Sessions
  <2>1. r \in MongoExit(o, d, owned)
    BY <1>4, AsyncAsSync DEF ExitOf, Sessions
  <2>2. QED
    BY <1>4, <2>1, MongoLeaves
<1>5. CASE class \in NoTransactions
  <2>1. r \in ClickHouseExit(o, d, owned)
    BY <1>5, AsyncAsSync DEF ExitOf, NoTransactions
  <2>2. QED
    BY <1>5, <2>1, ClickHouseLeaves
<1>6. QED
  BY <1>1, <1>2, <1>3, <1>4, <1>5, ClassKinds

(* What a last commit() that returned has done.                             *)
LEMMA CommitsAll ==
  ASSUME class \in Classes, NEW o, NEW d, Sound(o, d), Settles(d), Working(o, d),
         NEW r \in ExecuteOf(o, d, Commit), r.ok, r.obj.books.depth = Committed
  PROVE  r.db.durable = r.db.work /\ d.work \subseteq r.db.durable /\ r.db.level = 0
<1>1. Commit \in Stmt /\ Commit.op = "commit" /\ d.work \in SUBSET Row
  BY StmtMade DEF Commit, Settles, Connection
<1>2. Serves(o, d, r) /\ Settles(r.db)
  BY <1>1, ExecuteServes DEF Serves, Good
<1>3. SUFFICES ~ r.db.open /\ d.work \subseteq r.db.durable
  <2>1. ~ r.db.open => r.db.work = r.db.durable /\ r.db.level = 0
    BY <1>2 DEF Settles, Connection
  <2>2. QED
    BY <2>1
<1>4. CASE class = "mssql"
  <2>1. class \in Tsql /\ r \in MssqlExecute(o, d, Commit)
    BY <1>4 DEF ExecuteOf, Tsql
  <2>2. QED
    BY <2>1, MssqlCommits
<1>5. CASE class = "asyncMssql"
  <2>1. class \in Tsql
    BY <1>5 DEF Tsql
  <2>2. PICK q : q = AsyncMssqlInner(o) /\ r \in MssqlExecute(q, d, Commit)
    BY <1>5 DEF ExecuteOf
  <2>3. Sound(q, d) /\ Working(q, d)
    BY <2>1, <2>2, MadeIs
  <2>4. QED
    BY <2>1, <2>2, <2>3, MssqlCommits
<1>6. CASE class = "asyncSqlite"
  <2>1. o.made
    BY <1>6 DEF Working
  <2>2. r \in SqliteExecute(o, d, Commit)
    BY <1>6, <2>1 DEF ExecuteOf, AsyncSqliteExecute, AsyncSqliteInner, Then, Returned, Outcome
  <2>3. QED
    BY <1>1, <1>6, <2>1, <2>2, SqliteServes
<1>7. CASE class \in Sessions \cup NoTransactions
  <2>1. r.db = d
    <3>1. CASE class \in Sessions
      <4>1. r \in MongoExecute(o, d, Commit)
        BY <3>1, AsyncAsSync DEF ExecuteOf, Sessions
      <4>2. QED
        BY <1>1, <3>1, <4>1, MongoServes
    <3>2. CASE class \in NoTransactions
      <4>1. r \in ClickHouseExecute(o, d, Commit)
        BY <3>2, AsyncAsSync DEF ExecuteOf, NoTransactions
      <4>2. QED
        BY <1>1, <3>2, <4>1, ClickHouseServes
    <3>3. QED
      BY <1>7, <3>1, <3>2
  <2>2. QED
    BY <1>7, <2>1, PlainSettled
<1>8. class # "asyncMysql"
  BY DEF Working
<1>9. QED
  BY <1>4, <1>5, <1>6, <1>7, <1>8, ClassKinds DEF Tsql

-----------------------------------------------------------------------------
(* The steps. *)

(* The context c was called, and r is what came of it. *)
Came(c, r) ==
  /\ ctx' = [ctx EXCEPT ![c] = r.obj] /\ db' = r.db /\ ok' = r.ok
  /\ class' = class /\ habits' = habits

(* A block is entered or left, or the context is called where it may be.    *)
CallIs(c, r) ==
  \/ /\ Free(c) /\ scope[c] = "new" /\ Enters(ctx[c], db, r)
     /\ scope' = [scope EXCEPT ![c] = IF r.ok THEN "inside" ELSE "refused"]
  \/ /\ Inside(c) /\ Leaves(ctx[c], db, r, c \in Owners)
     /\ scope' = [scope EXCEPT ![c] = "left"]
  \/ /\ Usable(c) /\ scope' = scope
     /\ Good(ctx[c], db, r)
     /\ habits = {} => Serves(ctx[c], db, r)

LEMMA HappensIs ==
  ASSUME NEW c, NEW outs, Happens(c, outs)
  PROVE  \E r \in outs : Came(c, r)
  BY DEF Happens, Came

(* A call that is not about the block.                                      *)
LEMMA DoesIs ==
  ASSUME NEW c, NEW outs, Does(c, outs),
         \A r \in outs : Good(ctx[c], db, r) /\ (habits = {} => Serves(ctx[c], db, r))
  PROVE  \E r : Came(c, r) /\ CallIs(c, r)
<1>1. PICK r \in outs : Came(c, r)
  BY HappensIs DEF Does
<1>2. CallIs(c, r)
  BY DEF CallIs, Does
<1>3. QED
  BY <1>1, <1>2

LEMMA LinesAre ==
  ASSUME NEW s \in Lines
  PROVE  s \in Stmt /\ s.op # "rollbackTo"
<1>1. \/ s \in {Begin(NoName), Commit, Rollback(NoName)}
      \/ \E r \in Row : s = Insert(r)
      \/ \E n \in Name : s = Savepoint(n) \/ s = Rollback(n)
  BY DEF Lines
<1>2. s \in Stmt
  BY <1>1, StmtMade
<1>3. s.op # "rollbackTo"
  BY <1>1 DEF Begin, Commit, Rollback, Insert, Savepoint
<1>4. QED
  BY <1>2, <1>3

(* Every call of Next, by its outcome.                                      *)
LEMMA EveryCall ==
  ASSUME CallsInv, NEW c \in Ctx, Call(c)
  PROVE  \E r : Came(c, r) /\ CallIs(c, r)
<1> DEFINE o == ctx[c]
<1>1. class \in Classes /\ Sound(o, db) /\ Settles(db) /\ (c \in Owners) \in BOOLEAN
  BY DEF CallsInv
<1>2. CASE Enter(c)
  <2>1. PICK r \in EnterOf(o, db) :
          /\ Happens(c, {r})
          /\ scope' = [scope EXCEPT ![c] = IF r.ok THEN "inside" ELSE "refused"]
    BY <1>2 DEF Enter
  <2>2. Came(c, r)
    BY <2>1, HappensIs
  <2>3. Enters(o, db, r)
    BY <1>1, EnterEnters
  <2>4. CallIs(c, r)
    BY <1>2, <2>1, <2>3 DEF Enter, CallIs
  <2>5. QED
    BY <2>2, <2>4
<1>3. CASE Exit(c)
  <2>1. PICK r \in ExitOf(o, db, c \in Owners) : Came(c, r)
    BY <1>3, HappensIs DEF Exit
  <2>2. Leaves(o, db, r, c \in Owners)
    BY <1>1, ExitLeaves
  <2>3. CallIs(c, r)
    BY <1>3, <2>2 DEF Exit, CallIs, Inside
  <2>4. QED
    BY <2>1, <2>3
<1>4. ASSUME NEW s \in Stmt, s.op = "rollbackTo" => class \in {"asyncSqlite", "asyncMysql"},
             Does(c, ExecuteOf(o, db, s))
      PROVE  \E r : Came(c, r) /\ CallIs(c, r)
  <2>1. \A r \in ExecuteOf(o, db, s) : Serves(o, db, r)
    BY <1>1, <1>4, ExecuteServes
  <2>2. \A r : Serves(o, db, r) => Good(o, db, r)
    BY DEF Serves
  <2>3. QED
    BY <1>4, <2>1, <2>2, DoesIs
<1>5. CASE Close(c)
  <2>1. "outside" \in habits /\ Does(c, {CloseOf(o, db, c \in Owners)})
    BY <1>5 DEF Close
  <2>2. Good(o, db, CloseOf(o, db, c \in Owners))
    BY <1>1, CloseIsGood
  <2>3. QED
    BY <2>1, <2>2, DoesIs
<1>6. CASE CommitScope(c)
  BY <1>4, <1>6, StmtMade DEF CommitScope, Commit
<1>7. ASSUME NEW n \in Name, CreateSavepoint(c, n) PROVE \E r : Came(c, r) /\ CallIs(c, r)
  BY <1>4, <1>7, StmtMade DEF CreateSavepoint, Savepoint
<1>8. ASSUME NEW n \in Name, RollbackSavepoint(c, n) PROVE \E r : Came(c, r) /\ CallIs(c, r)
  <2>1. Does(c, RollbackSavepointOf(o, db, n))
    BY <1>8 DEF RollbackSavepoint
  <2>2. \A r \in RollbackSavepointOf(o, db, n) : Serves(o, db, r) /\ Good(o, db, r)
    BY <1>1, RollbackSavepointServes DEF Serves
  <2>3. QED
    BY <2>1, <2>2, DoesIs
<1>9. ASSUME NEW n \in Name \cup {NoName}, BeginTransaction(c, n)
      PROVE  \E r : Came(c, r) /\ CallIs(c, r)
  <2>1. Does(c, BeginOf(o, db, n))
    BY <1>9 DEF BeginTransaction
  <2>2. \A r \in BeginOf(o, db, n) : Serves(o, db, r) /\ Good(o, db, r)
    BY <1>1, BeginServes DEF Serves
  <2>3. QED
    BY <2>1, <2>2, DoesIs
<1>10. ASSUME NEW n \in Name \cup {NoName}, RollbackScope(c, n)
       PROVE  \E r : Came(c, r) /\ CallIs(c, r)
  BY <1>4, <1>10, StmtMade DEF RollbackScope, Rollback
<1>11. ASSUME NEW n \in Row, ExecuteInsert(c, n) PROVE \E r : Came(c, r) /\ CallIs(c, r)
  BY <1>4, <1>11, StmtMade DEF ExecuteInsert, Insert
<1>12. ASSUME NEW n \in Row, CursorInsert(c, n) PROVE \E r : Came(c, r) /\ CallIs(c, r)
  <2>1. Does(c, CursorInsertOf(o, db, n)) /\ (habits = {} => o.books.depth \notin Finished)
    BY <1>12 DEF CursorInsert
  <2>2. \A r \in CursorInsertOf(o, db, n) :
          Good(o, db, r) /\ (habits = {} => Serves(o, db, r))
    BY <1>1, <2>1, CursorInsertServes
  <2>3. QED
    BY <2>1, <2>2, DoesIs
<1>13. ASSUME NEW s \in Lines, ExecuteRaw(c, s) PROVE \E r : Came(c, r) /\ CallIs(c, r)
  <2>1. habits # {} /\ Does(c, RawOf(o, db, s))
    BY <1>13 DEF ExecuteRaw
  <2>2. \A r \in RawOf(o, db, s) : Good(o, db, r)
    BY <1>1, LinesAre, RawIsGood
  <2>3. QED
    BY <2>1, <2>2, DoesIs
<1>14. ASSUME NEW s \in Lines, NEW t \in Lines, ExecuteScript(c, s, t)
       PROVE  \E r : Came(c, r) /\ CallIs(c, r)
  <2>1. habits # {} /\ Does(c, ScriptOf(o, db, s, t))
    BY <1>14 DEF ExecuteScript
  <2>2. \A r \in ScriptOf(o, db, s, t) : Good(o, db, r)
    BY <1>1, LinesAre, ScriptIsGood
  <2>3. QED
    BY <2>1, <2>2, DoesIs
<1> HIDE DEF o
<1>15. QED
  BY <1>2, <1>3, <1>5, <1>6, <1>7, <1>8, <1>9, <1>10, <1>11, <1>12, <1>13, <1>14 DEF Call

(* Whatever the call was, its outcome is good.                              *)
LEMMA CallIsGood ==
  ASSUME NEW c, NEW r, CallIs(c, r)
  PROVE  Good(ctx[c], db, r)
  BY DEF CallIs, Enters, Leaves

-----------------------------------------------------------------------------
(* CallsInv is an invariant. *)

LEMMA FreshSettles ==
  ASSUME Init
  PROVE  Settles(db)
<1>1. <<>> \in Seq(Mark)
  OBVIOUS
<1>2. \A m \in Seq(Mark) :
        LET e == [closed |-> FALSE, open |-> FALSE, durable |-> {}, work |-> {},
                  marks |-> m, level |-> 0]
        IN  /\ e \in Connection /\ ~ e.closed /\ ~ e.open /\ e.work = e.durable
            /\ e.marks = m /\ e.level = 0
  BY DEF Connection
<1>3. /\ db \in Connection /\ ~ db.closed /\ ~ db.open /\ db.work = db.durable
      /\ db.marks = <<>> /\ db.level = 0
  BY <1>1, <1>2 DEF Init, FreshConnection
<1>4. QED
  BY <1>3 DEF Settles

LEMMA FreshIsSound ==
  ASSUME Init, NEW c \in Ctx
  PROVE  /\ Sound(ctx[c], db) /\ Settles(db)
         /\ ctx[c].books.depth = 0 /\ ~ ctx[c].gone /\ ~ ctx[c].made
<1>1. PICK g \in Delegates : ctx[c] = FreshObject(g)
  BY DEF Init
<1>2. g \in BOOLEAN
  BY <1>1 DEF Delegates
<1>3. FreshBooks \in Bookkeeping /\ FreshBooks.depth = 0
  <2>1. <<>> \in Seq(Name)
    OBVIOUS
  <2>2. QED
    BY <2>1 DEF FreshBooks, Bookkeeping
<1>4. \A x \in Bookkeeping :
        LET q == [books |-> x, cursor |-> "none", gone |-> FALSE, made |-> FALSE, delegate |-> g]
        IN  /\ q \in Object /\ q.books = x /\ q.cursor = "none" /\ ~ q.gone /\ ~ q.made
  BY <1>2 DEF Object
<1>5. /\ ctx[c] \in Object /\ ctx[c].books.depth = 0 /\ ctx[c].cursor = "none"
      /\ ~ ctx[c].gone /\ ~ ctx[c].made
  BY <1>1, <1>3, <1>4 DEF FreshObject
<1>6. Sound(ctx[c], db)
  BY <1>5 DEF Sound
<1>7. QED
  BY <1>5, <1>6, FreshSettles

LEMMA CallsInit == Init => CallsInv
<1> SUFFICES ASSUME Init PROVE CallsInv
  OBVIOUS
<1>1. \A c \in Ctx : Sound(ctx[c], db)
  BY FreshIsSound
<1>2. ctx \in [Ctx -> Object]
  <2>1. DOMAIN ctx = Ctx /\ ctx = [c \in Ctx |-> ctx[c]]
    BY DEF Init
  <2>2. \A c \in Ctx : ctx[c] \in Object
    BY <1>1 DEF Sound
  <2>3. QED
    BY <2>1, <2>2
<1>3. Settles(db)
  BY FreshSettles
<1>4. QED
  BY <1>1, <1>2, <1>3 DEF Init, CallsInv

LEMMA CallsStep == CallsInv /\ [Next]_all => CallsInv'
<1> SUFFICES ASSUME CallsInv, [Next]_all PROVE CallsInv'
  OBVIOUS
<1>1. CASE UNCHANGED all
  BY <1>1 DEF CallsInv, all, Settles, Sound
<1>2. ASSUME NEW c \in Ctx, Call(c) PROVE CallsInv'
  <2>1. PICK r : Came(c, r) /\ CallIs(c, r)
    BY <1>2, EveryCall
  <2>2. Good(ctx[c], db, r)
    BY <2>1, CallIsGood
  <2>3. /\ r.ok \in BOOLEAN /\ Sound(r.obj, r.db) /\ Settles(r.db)
        /\ db.closed => r.db.closed
    BY <2>2 DEF Good
  <2>4. class' \in Classes /\ habits' \in Disciplines /\ ok' \in BOOLEAN
    BY <2>1, <2>3 DEF CallsInv, Came
  <2>5. r.obj \in Object
    BY <2>3 DEF Sound
  <2>6. ctx' \in [Ctx -> Object]
    BY <2>1, <2>5 DEF CallsInv, Came
  <2>7. scope' \in [Ctx -> {"new", "refused", "inside", "left"}]
    BY <2>1 DEF CallsInv, CallIs
  <2>8. Settles(db)'
    BY <2>1, <2>3 DEF Settles, Came
  <2>9. ASSUME NEW e \in Ctx PROVE Sound(ctx[e], db)'
    <3>1. CASE e = c
      <4>1. ctx'[e] = r.obj
        BY <2>1, <3>1 DEF CallsInv, Came
      <4>2. QED
        BY <2>1, <2>3, <4>1 DEF Sound, Came
    <3>2. CASE e # c
      <4>1. ctx'[e] = ctx[e]
        BY <2>1, <3>2 DEF CallsInv, Came
      <4>2. Sound(ctx[e], db)
        BY DEF CallsInv
      <4>3. QED
        BY <2>1, <2>3, <4>1, <4>2 DEF Sound, Came
    <3>3. QED
      BY <3>1, <3>2
  <2>10. QED
    BY <2>4, <2>6, <2>7, <2>8, <2>9 DEF CallsInv
<1>3. QED
  BY <1>1, <1>2 DEF Next

(* Every reachable state satisfies CallsInv: whatever is called on however  *)
(* many contexts.                                                           *)
LEMMA CallsAlways == Spec => []CallsInv
  BY CallsInit, CallsStep, PTL DEF Spec

(* Whatever is called, every variable keeps its type.                       *)
THEOREM TypeCorrect == Spec => []TypeOK
<1>1. CallsInv => TypeOK
  BY DEF CallsInv, TypeOK, Settles
<1>2. QED
  BY <1>1, CallsAlways, PTL

(* No call of the API, in the block, outside of it or after it, leaves a    *)
(* transaction open on the client session of a context that has no BEGIN to *)
(* finish: none that nobody will end.                                       *)
THEOREM SessionsHaveScopes == Spec => []OpenSessionHasScope
<1>1. CallsInv => OpenSessionHasScope
  BY DEF CallsInv, OpenSessionHasScope, Sound
<1>2. QED
  BY <1>1, CallsAlways, PTL

(* Whatever the class and whatever is called, on however many contexts: one *)
(* that was committed, rolled back or left never begins another             *)
(* transaction.                                                             *)
THEOREM FinishedStays == Spec => FinishedForGood
<1> DEFINE Stays(e) == ctx[e].books.depth \in Finished =>
                         ctx'[e].books \in {ctx[e].books, [ctx[e].books EXCEPT !.depth = Exited]}
<1>1. ASSUME CallsInv, NEW c \in Ctx, Call(c), NEW e \in Ctx PROVE Stays(e)
  <2>1. PICK r : Came(c, r) /\ CallIs(c, r)
    BY <1>1, EveryCall
  <2>2. Good(ctx[c], db, r)
    BY <2>1, CallIsGood
  <2>3. CASE e = c
    <3>1. ctx'[e] = r.obj
      BY <1>1, <2>1, <2>3 DEF CallsInv, Came
    <3>2. QED
      BY <2>2, <2>3, <3>1 DEF Good
  <2>4. CASE e # c
    BY <1>1, <2>1, <2>4 DEF CallsInv, Came
  <2>5. QED
    BY <2>3, <2>4
<1>2. CallsInv /\ [Next]_all => [\A c \in Ctx : Stays(c)]_all
  BY <1>1 DEF Next
<1>3. QED
  BY <1>2, CallsAlways, PTL DEF Spec, FinishedForGood

(* A connection whose transaction is not open.                              *)
LEMMA NothingOpen ==
  ASSUME NEW d, Settles(d), ~ d.open
  PROVE  d.work = d.durable /\ d.level = 0
  BY DEF Settles, Connection

(* Whatever was called before, and whether or not the connection is lost on *)
(* the way: leaving an unfinished scope of MSSQL or of the shim over SQLite *)
(* keeps nothing of it and leaves nothing open on the server.               *)
THEOREM ExitAlwaysRollsBack == Spec => ExitRollsBack
<1> DEFINE Gone(c) ==
       Exit(c) /\ ctx[c].books.depth > 0 /\ class \in Tsql \cup {"asyncSqlite"} =>
         db'.durable = db.durable /\ db'.work = db.durable /\ db'.level = 0 /\ ~ db'.open
<1>1. ASSUME CallsInv, NEW c \in Ctx PROVE Gone(c)
  <2>1. HAVE Exit(c) /\ ctx[c].books.depth > 0 /\ class \in Tsql \cup {"asyncSqlite"}
  <2>2. PICK r \in ExitOf(ctx[c], db, c \in Owners) : Came(c, r)
    BY <2>1, HappensIs DEF Exit
  <2>3. class \in Classes /\ Sound(ctx[c], db) /\ Settles(db) /\ (c \in Owners) \in BOOLEAN
    BY <1>1 DEF CallsInv
  <2>4. Leaves(ctx[c], db, r, c \in Owners)
    BY <2>3, ExitLeaves
  <2>5. ~ r.db.open /\ r.db.durable = db.durable /\ Settles(r.db)
    BY <2>1, <2>4 DEF Leaves, Good
  <2>6. r.db.work = r.db.durable /\ r.db.level = 0
    BY <2>5, NothingOpen
  <2>7. QED
    BY <2>2, <2>5, <2>6 DEF Came
<1>2. CallsInv /\ [Next]_all => [\A c \in Ctx : Gone(c)]_all
  BY <1>1
<1>3. QED
  BY <1>2, CallsAlways, PTL DEF Spec, ExitRollsBack

-----------------------------------------------------------------------------
(* WithInv is an invariant. *)

LEMMA WithInit == Init => WithInv
<1> SUFFICES ASSUME Init, habits = {} PROVE WithInv
  BY DEF WithInv
<1>1. \A c \in Ctx : ctx[c].books.depth = 0 /\ ~ ctx[c].gone /\ ~ ctx[c].made
  BY FreshIsSound
<1>2. \A c \in Ctx : scope[c] = "new"
  BY DEF Init
<1>3. ~ db.open
  BY DEF Init, FreshConnection
<1>4. \A c \in Owners : scope[c] # "left"
  BY <1>2, ProviderAssumption
<1>5. QED
  BY <1>1, <1>2, <1>3, <1>4 DEF WithInv, Inside

(* Work of an unfinished scope is kept by its last commit alone: what a     *)
(* call of clients that keep to `with` does to the invariant and to what is *)
(* durable.                                                                 *)
LEMMA WithCall ==
  ASSUME CallsInv, WithInv, habits = {}, NEW c \in Ctx, NEW r, Came(c, r), CallIs(c, r)
  PROVE  /\ WithInv'
         /\ class \in Tsql \cup {"asyncSqlite"} /\ db'.durable # db.durable =>
              ctx[c].books.depth > 0 /\ ctx'[c].books.depth = Committed
<1>1. /\ \A e \in Ctx : ctx'[e] = IF e = c THEN r.obj ELSE ctx[e]
      /\ db' = r.db /\ class' = class /\ habits' = {}
  BY DEF Came, CallsInv
<1>2. /\ \A e, f \in Ctx : Inside(e) /\ Inside(f) => e = f
      /\ \A e \in Ctx : scope[e] = "new" =>
           ctx[e].books.depth = 0 /\ ~ ctx[e].gone /\ ~ ctx[e].made
      /\ \A e \in Ctx : Inside(e) => Working(ctx[e], db)
      /\ (\A e \in Ctx : ~ Inside(e)) => ~ db.open
      /\ \A e \in Owners : scope[e] = "left" => db.closed
  BY DEF WithInv
<1>3. Good(ctx[c], db, r)
  BY CallIsGood
<1>4. db.closed => r.db.closed
  BY <1>3 DEF Good
<1>5. Owners \subseteq Ctx
  BY ProviderAssumption
<1>6. DOMAIN scope = Ctx
  BY DEF CallsInv
<1>7. SUFFICES /\ \A e, f \in Ctx : scope'[e] = "inside" /\ scope'[f] = "inside" => e = f
               /\ \A e \in Ctx : scope'[e] = "new" => scope[e] = "new" /\ e # c
               /\ \A e \in Ctx : scope'[e] = "inside" => e = c /\ Working(r.obj, r.db)
               /\ (\A e \in Ctx : scope'[e] # "inside") => ~ r.db.open
               /\ \A e \in Owners : scope'[e] = "left" => r.db.closed
               /\ class \in Tsql \cup {"asyncSqlite"} /\ r.db.durable # db.durable =>
                    ctx[c].books.depth > 0 /\ r.obj.books.depth = Committed
  <2>1. \A e \in Ctx : scope'[e] = "inside" => Working(ctx[e], db)'
    BY <1>1, <1>7 DEF Working
  <2>2. \A e \in Ctx : scope'[e] = "new" =>
           ctx'[e].books.depth = 0 /\ ~ ctx'[e].gone /\ ~ ctx'[e].made
    BY <1>1, <1>2, <1>7
  <2>3. WithInv'
    BY <1>1, <1>7, <2>1, <2>2 DEF WithInv, Inside
  <2>4. QED
    BY <1>1, <1>7, <2>3
<1>8. CASE /\ Free(c) /\ scope[c] = "new" /\ Enters(ctx[c], db, r)
           /\ scope' = [scope EXCEPT ![c] = IF r.ok THEN "inside" ELSE "refused"]
  <2>1. \A e \in Ctx : ~ Inside(e)
    BY <1>8 DEF Free, Inside
  <2>2. /\ r.db.durable = db.durable
        /\ r.ok => Working(r.obj, r.db)
        /\ ~ r.ok => ~ r.db.open
    BY <1>2, <1>8, <2>1 DEF Enters
  <2>3. \A e \in Ctx : scope'[e] = IF e = c THEN IF r.ok THEN "inside" ELSE "refused" ELSE scope[e]
    BY <1>6, <1>8
  <2>4. QED
    BY <1>2, <1>4, <1>5, <2>1, <2>2, <2>3 DEF Inside
<1>9. CASE /\ Inside(c) /\ Leaves(ctx[c], db, r, c \in Owners)
           /\ scope' = [scope EXCEPT ![c] = "left"]
  <2>1. Working(ctx[c], db)
    BY <1>2, <1>9
  <2>2. /\ ~ r.db.open /\ (c \in Owners => r.db.closed)
        /\ class \in Tsql \cup {"asyncSqlite"} => r.db.durable = db.durable
    BY <1>9, <2>1 DEF Leaves
  <2>3. \A e \in Ctx : scope'[e] = IF e = c THEN "left" ELSE scope[e]
    BY <1>6, <1>9
  <2>4. \A e \in Ctx : scope'[e] # "inside"
    BY <1>2, <1>9, <2>3 DEF Inside
  <2>5. QED
    BY <1>2, <1>4, <1>5, <2>2, <2>3, <2>4
<1>10. CASE Usable(c) /\ scope' = scope /\ (habits = {} => Serves(ctx[c], db, r))
  <2>1. Inside(c) /\ Working(ctx[c], db)
    BY <1>2, <1>10 DEF Usable, Inside
  <2>2. /\ Working(r.obj, r.db)
        /\ class \in Tsql \cup {"asyncSqlite"} /\ r.db.durable # db.durable =>
             ctx[c].books.depth > 0 /\ r.obj.books.depth = Committed
    BY <1>10, <2>1 DEF Serves
  <2>3. QED
    BY <1>2, <1>4, <1>10, <2>1, <2>2 DEF Inside
<1>11. QED
  BY <1>8, <1>9, <1>10 DEF CallIs

LEMMA WithStep == CallsInv /\ WithInv /\ [Next]_all => WithInv'
<1> SUFFICES ASSUME CallsInv, WithInv, [Next]_all PROVE WithInv'
  OBVIOUS
<1>1. CASE UNCHANGED all
  BY <1>1 DEF WithInv, all, Inside, Working
<1>2. ASSUME NEW c \in Ctx, Call(c) PROVE WithInv'
  <2>1. PICK r : Came(c, r) /\ CallIs(c, r)
    BY <1>2, EveryCall
  <2>2. CASE habits = {}
    BY <2>1, <2>2, WithCall
  <2>3. CASE habits # {}
    BY <2>1, <2>3 DEF Came, WithInv
  <2>4. QED
    BY <2>2, <2>3
<1>3. QED
  BY <1>1, <1>2 DEF Next

(* Every reachable state satisfies WithInv.                                 *)
LEMMA WithAlways == Spec => []WithInv
  BY WithInit, WithStep, CallsAlways, PTL DEF Spec

(* For every class, and for any number of scopes one after the other: the   *)
(* connection is clean between them, and closed once its owner was left.    *)
THEOREM ConnectionIsClean == Spec => []CleanBetweenScopes
<1>1. CallsInv /\ WithInv => CleanBetweenScopes
  <2> SUFFICES ASSUME CallsInv, WithInv, habits = {}, \A c \in Ctx : ~ Inside(c)
               PROVE  /\ ~ db.open /\ db.level = 0 /\ db.work = db.durable
                      /\ \A c \in Owners : scope[c] = "left" => db.closed
    BY DEF CleanBetweenScopes
  <2>1. Settles(db) /\ ~ db.open /\ \A c \in Owners : scope[c] = "left" => db.closed
    BY DEF CallsInv, WithInv
  <2>2. QED
    BY <2>1, NothingOpen
<1>2. QED
  BY <1>1, CallsAlways, WithAlways, PTL

(* For every class: a last commit() that returns has made all the scope sees*)
(* durable and has left no level open, at whatever level the driver's own   *)
(* transaction was.                                                         *)
THEOREM CommitsAreDone == Spec => CommitIsDone
<1> DEFINE Done(c) ==
       habits = {} /\ CommitScope(c) /\ ok' /\ ctx'[c].books.depth = Committed =>
         db'.durable = db'.work /\ db.work \subseteq db'.durable /\ db'.level = 0
<1>1. ASSUME CallsInv, WithInv, NEW c \in Ctx PROVE Done(c)
  <2>1. HAVE habits = {} /\ CommitScope(c) /\ ok' /\ ctx'[c].books.depth = Committed
  <2>2. Usable(c) /\ Happens(c, ExecuteOf(ctx[c], db, Commit))
    BY <2>1 DEF CommitScope, Does
  <2>3. PICK r \in ExecuteOf(ctx[c], db, Commit) : Came(c, r)
    BY <2>2, HappensIs
  <2>4. class \in Classes /\ Sound(ctx[c], db) /\ Settles(db)
    BY <1>1 DEF CallsInv
  <2>5. Working(ctx[c], db)
    BY <1>1, <2>1, <2>2 DEF Usable, WithInv, Inside
  <2>6. r.ok /\ r.obj.books.depth = Committed
    BY <1>1, <2>1, <2>3 DEF Came, CallsInv
  <2>7. r.db.durable = r.db.work /\ db.work \subseteq r.db.durable /\ r.db.level = 0
    BY <2>4, <2>5, <2>6, CommitsAll
  <2>8. QED
    BY <2>3, <2>7 DEF Came
<1>2. CallsInv /\ WithInv /\ [Next]_all => [\A c \in Ctx : Done(c)]_all
  BY <1>1
<1>3. QED
  BY <1>2, CallsAlways, WithAlways, PTL DEF Spec, CommitIsDone

(* With a server that counts levels, a driver that begins by itself and a   *)
(* shim that is entered lazily: nothing but a scope's last commit makes work*)
(* durable.                                                                 *)
THEOREM LastCommitOnly == Spec => DurableOnlyByLastCommit
<1> DEFINE Kept == habits = {} => KeepsNothingElse(Tsql \cup {"asyncSqlite"})
<1>1. ASSUME CallsInv, WithInv, NEW c \in Ctx, Call(c) PROVE Kept
  <2>1. HAVE habits = {}
  <2>2. PICK r : Came(c, r) /\ CallIs(c, r)
    BY <1>1, EveryCall
  <2>3. class \in Tsql \cup {"asyncSqlite"} /\ db'.durable # db.durable =>
          ctx[c].books.depth > 0 /\ ctx'[c].books.depth = Committed
    BY <1>1, <2>1, <2>2, WithCall
  <2>4. QED
    BY <2>3 DEF KeepsNothingElse
<1>2. CallsInv /\ WithInv /\ [Next]_all => [Kept]_all
  BY <1>1 DEF Next
<1>3. QED
  BY <1>2, CallsAlways, WithAlways, PTL DEF Spec, DurableOnlyByLastCommit
=============================================================================
