------------------------------ MODULE DbSession ------------------------------
(***************************************************************************)
(* External: the parts of a database connection that SQLite and MySQL have *)
(* in common.  The driver opens a transaction by itself before a write,    *)
(* and closing the connection drops what was not committed.                *)
(*                                                                         *)
(* Writes are insertions of a row that is not there yet, so that a refused *)
(* statement (a unique constraint) is part of the model.                   *)
(***************************************************************************)
EXTENDS TxnContext

Mark == [name : Name, rows : SUBSET Row]

Session == [closed  : BOOLEAN,       \* the connection was closed
            open    : BOOLEAN,       \* a transaction is in progress
            durable : SUBSET Row,    \* what another connection would see
            work    : SUBSET Row,    \* what this connection sees
            marks   : Seq(Mark)]     \* the server's savepoint stack

FreshSession ==
  [closed |-> FALSE, open |-> FALSE, durable |-> {}, work |-> {}, marks |-> <<>>]

MarkNames(db) == [i \in 1..Len(db.marks) |-> db.marks[i].name]

(* What the names in a context's list stand for on the server. *)
MarkedAs(names, db) ==
  [i \in 1..Len(names) |->
     [name |-> names[i], rows |-> db.marks[LastOf(MarkNames(db), names[i])].rows]]

Settled(db, rows) ==
  [db EXCEPT !.open = FALSE, !.durable = rows, !.work = rows, !.marks = <<>>]

Discard(db) == Settled(db, db.durable)

Shut(db) == [Discard(db) EXCEPT !.closed = TRUE]

(* ROLLBACK TO keeps the savepoint it goes back to. *)
ReturnTo(db, i) ==
  [db EXCEPT !.work = db.marks[i].rows, !.marks = SubSeq(db.marks, 1, i)]

(* A refused write leaves the transaction the driver opened for it. *)
Refuse(db, s) ==
  IF s.op = "insert" /\ ~ db.closed THEN [db EXCEPT !.open = TRUE] ELSE db
=============================================================================
