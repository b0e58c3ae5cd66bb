----------------------------- MODULE TxnContext -----------------------------
(***************************************************************************)
(* What the transaction contexts of the five providers share: the numbers  *)
(* they keep in __transaction_depth once a scope is finished, the          *)
(* transaction-control statements their __preprocess_sql tells apart, and  *)
(* the LIFO list of savepoint names.                                       *)
(*                                                                         *)
(* A statement is a record [op, arg].  Its text, and the regular           *)
(* expressions of common/tlc_parser.py that take the name out of it, are   *)
(* abstracted: arg is the name the parser returns.                         *)
(***************************************************************************)
EXTENDS Integers, Sequences

CONSTANTS Name,      \* transaction and savepoint names
          NoName,    \* None: a statement that carries no name
          Row        \* what clients write

ASSUME NoNameAssumption == NoName \notin Name

-----------------------------------------------------------------------------
(* __transaction_depth: 0 before the first BEGIN, then the number of BEGINs *)
(* not yet matched by a COMMIT, then one of three sentinels.                *)

Exited     == -1
Committed  == -2
RolledBack == -3

Finished == {Exited, Committed, RolledBack}

(* Statements a client can hand to execute(). *)
Begin(n)      == [op |-> "begin",      arg |-> n]
Savepoint(n)  == [op |-> "savepoint",  arg |-> n]
Commit        == [op |-> "commit",     arg |-> NoName]
Rollback(n)   == [op |-> "rollback",   arg |-> n]
RollbackTo(n) == [op |-> "rollbackTo", arg |-> n]
Insert(r)     == [op |-> "insert",     arg |-> r]

Stmt == [op : {"begin", "rollback"}, arg : Name \cup {NoName}]
          \cup [op : {"savepoint", "rollbackTo"}, arg : Name]
          \cup {Commit}
          \cup [op : {"insert"}, arg : Row]

(* What __preprocess_sql hands back instead of a statement: None, or the    *)
(* DbError it raises.                                                       *)
Scrub == [op |-> "scrub", arg |-> NoName]
Raise == [op |-> "raise", arg |-> NoName]

-----------------------------------------------------------------------------
(* The bookkeeping of one context. *)

Bookkeeping ==
  [depth : Nat \cup Finished, savepoints : Seq(Name), name : Name \cup {NoName}]

FreshBooks == [depth |-> 0, savepoints |-> <<>>, name |-> NoName]

(* commit() of the last open BEGIN and a full rollback() both forget the    *)
(* savepoints and the name.                                                 *)
FinishedBooks(outcome) ==
  [depth |-> outcome, savepoints |-> <<>>, name |-> NoName]

Occurs(seq, n) == \E i \in 1..Len(seq) : seq[i] = n

LastOf(seq, n) ==
  CHOOSE i \in 1..Len(seq) :
    seq[i] = n /\ \A j \in 1..Len(seq) : seq[j] = n => j <= i

(* Mutant of PopThrough: the loop stops before it has popped n. *)
PopAfter(seq, n) == SubSeq(seq, 1, LastOf(seq, n))

(* The while loop that pops savepoints until it has popped n. *)
PopThrough(seq, n) == SubSeq(seq, 1, LastOf(seq, n) - 1)

(* f places the tracked names, in their order, among the server's. *)
Embeds(f, names, marks) ==
  /\ \A i \in 1..Len(names) : marks[f[i]].name = names[i]
  /\ \A i, j \in 1..Len(names) : i < j => f[i] < f[j]

Embedded(names, marks) ==
  \E f \in [1..Len(names) -> 1..Len(marks)] : Embeds(f, names, marks)
=============================================================================
