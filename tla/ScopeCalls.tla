----------------------------- MODULE ScopeCalls -----------------------------
(***************************************************************************)
(* What the contexts of MSSQL, MongoDB and ClickHouse and the asynchronous *)
(* contexts have in common.  A call on a context is the set of its         *)
(* outcomes: the object and the connection after it, and whether it        *)
(* returned (ok) or raised.  Calls compose, as the shims' do.              *)
(***************************************************************************)
EXTENDS DbSession

CONSTANT Faults     \* statements the server may refuse for reasons of its
                    \* own, and "lost": a statement may lose the connection

(* The fields of a context object that its methods look at. *)
Object == [books    : Bookkeeping,
           cursor   : {"none", "idle", "open", "ended"},  \* MongoDB: its session
           gone     : BOOLEAN,    \* __context is None
           made     : BOOLEAN,    \* the shim has its inner context
           delegate : BOOLEAN]    \* __delegate_mode

FreshObject(delegate) ==
  [books |-> FreshBooks, cursor |-> "none", gone |-> FALSE, made |-> FALSE,
   delegate |-> delegate]

(* @@level is T-SQL's @@TRANCOUNT; the other servers do not count. *)
Connection == [closed : BOOLEAN, open : BOOLEAN, durable : SUBSET Row,
               work : SUBSET Row, marks : Seq(Mark), level : Nat]

FreshConnection ==
  [closed |-> FALSE, open |-> FALSE, durable |-> {}, work |-> {},
   marks |-> <<>>, level |-> 0]

Leveled(d, n) == [d EXCEPT !.level = n, !.open = n > 0]

Quiet(d) == [Discard(d) EXCEPT !.level = 0]

Dead(d) == [Quiet(d) EXCEPT !.closed = TRUE]

Outcome(o, d, ok) == [obj |-> o, db |-> d, ok |-> ok]

Raised(o, d) == {Outcome(o, d, FALSE)}

Returned(o, d) == {Outcome(o, d, TRUE)}

Sends(x, s) == [books |-> x, stmt |-> s]

Reply(d, ok) == [db |-> d, ok |-> ok]

(* The server's answers to s, results being what it may do if it accepts. *)
Replies(d, s, accepts, results) ==
  {Reply(e, TRUE) : e \in IF accepts /\ ~ d.closed THEN results ELSE {}}
    \cup {Reply(Refuse(d, s), FALSE) : f \in IF accepts /\ ~ d.closed
                                             THEN Faults \cap {s.op} ELSE {s.op}}
    \cup {Reply(Dead(d), FALSE) : f \in Faults \cap {"lost"}}

(* One call after another; the second is not made when the first raises. *)
Then(first, Second(_, _)) ==
  UNION {IF r.ok THEN Second(r.obj, r.db) ELSE {r} : r \in first}

(* A line of a script, preprocessed to p.  A line that is not scrubbed is   *)
(* sent as it was written.                                                  *)
Line(o, p, s) ==
  [obj  |-> [o EXCEPT !.books = p.books],
   ok   |-> p.stmt # Raise,
   sent |-> IF p.stmt \in {Raise, Scrub} THEN <<>> ELSE <<s>>]

(* execute_script of two lines: both are preprocessed before anything is    *)
(* sent, and what is left of them is sent in one call.                      *)
Script(o, d, s, t, LineOf(_, _), SendLines(_, _, _)) ==
  LET a == LineOf(o, s)
      b == LineOf(a.obj, t)
      lines == a.sent \o b.sent
  IN  CASE ~ a.ok -> Raised(a.obj, d)
        [] a.ok /\ ~ b.ok -> Raised(b.obj, d)
        [] a.ok /\ b.ok /\ lines = <<>> -> Returned(b.obj, d)
        [] a.ok /\ b.ok /\ lines # <<>> -> SendLines(b.obj, d, lines)

(* The end of __exit__: whatever rollback() did, the object is marked left. *)
Leave(outs) ==
  {[r EXCEPT !.obj.books.depth = Exited] : r \in outs}
=============================================================================
