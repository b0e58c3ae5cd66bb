------------------------------ MODULE MongoTxn ------------------------------
(***************************************************************************)
(* MongoTransactionContext (src/deev/mongodb/mongo_transaction_context.py) *)
(* and AsyncMongoTransactionContext.  The cursor of a context carries a    *)
(* client session; transaction control acts on the session, and writes of  *)
(* the cursor (mongo_proxy_cursor.py) are made without it.                 *)
(***************************************************************************)
EXTENDS ScopeCalls

(* External: the client session. *)
Start(o) == [obj |-> IF o.cursor = "idle" THEN [o EXCEPT !.cursor = "open"] ELSE o,
             ok |-> o.cursor = "idle"]

Finish(o) == [obj |-> IF o.cursor = "open" THEN [o EXCEPT !.cursor = "idle"] ELSE o,
              ok |-> o.cursor = "open"]

Unchanged(o) == [obj |-> o, ok |-> TRUE]

(* A document that is written without a session is there for everybody. *)
DocumentReplies(d, s) ==
  Replies(d, s, s.arg \notin d.work, {Settled(d, d.work \cup {s.arg})})

(* No transaction was opened for a document that was refused. *)
DocumentWrite(o, d, r) ==
  {Outcome(o, [t.db EXCEPT !.open = FALSE], t.ok) : t \in DocumentReplies(d, Insert(r))}

-----------------------------------------------------------------------------
(* __preprocess_sql: every statement of transaction control is scrubbed,    *)
(* its effect is on the books and on the session.                           *)

MongoOnBegin(o, s) ==
  LET q == [o EXCEPT !.books.depth = @ + 1, !.books.name = s.arg]
  IN  IF q.books.depth = 1 /\ ~ o.delegate THEN Start(q) ELSE Unchanged(q)

MongoOnCommit(o) ==
  LET q == [o EXCEPT !.books = IF @.depth = 1 THEN FinishedBooks(Committed)
                                              ELSE [@ EXCEPT !.depth = o.books.depth - 1]]
  IN  CASE o.books.depth = 0 -> [obj |-> o, ok |-> FALSE]
        [] o.books.depth = 1 /\ ~ o.delegate -> Finish(q)
        [] o.books.depth > 1 \/ (o.books.depth = 1 /\ o.delegate) -> Unchanged(q)

(* Mutant of MongoOnRollback: the session's transaction is forgotten. *)
SilentMongoRollback(o, n) ==
  IF o.books.depth = 0 \/ n \notin {NoName, o.books.name}
  THEN [obj |-> o, ok |-> FALSE]
  ELSE Unchanged([o EXCEPT !.books = FinishedBooks(RolledBack)])

MongoOnRollback(o, n) ==
  LET full == [o EXCEPT !.books = FinishedBooks(RolledBack)]
  IN  CASE o.books.depth = 0 -> [obj |-> o, ok |-> FALSE]
        [] o.books.depth > 0 /\ Occurs(o.books.savepoints, n) ->
             Unchanged([o EXCEPT !.books.savepoints = PopThrough(@, n)])
        [] o.books.depth > 0 /\ ~ Occurs(o.books.savepoints, n) ->
             CASE n \notin {NoName, o.books.name} -> [obj |-> o, ok |-> FALSE]
               [] n \in {NoName, o.books.name} /\ o.delegate -> Unchanged(full)
               [] n \in {NoName, o.books.name} /\ ~ o.delegate -> Finish(full)

MongoControl(o, s) ==
  CASE s.op = "begin"     -> MongoOnBegin(o, s)
    [] s.op = "savepoint" -> Unchanged([o EXCEPT !.books.savepoints = Append(@, s.arg)])
    [] s.op = "commit"    -> MongoOnCommit(o)
    [] s.op = "rollback"  -> MongoOnRollback(o, s.arg)

-----------------------------------------------------------------------------
MongoExecute(o, d, s) ==
  CASE o.books.depth \in Finished -> Raised(o, d)
    [] o.books.depth \notin Finished /\ s.op # "insert" ->
         {Outcome(MongoControl(o, s).obj, d, MongoControl(o, s).ok)}
    [] o.books.depth \notin Finished /\ s.op = "insert" ->
         IF o.cursor = "none" THEN Raised(o, d) ELSE DocumentWrite(o, d, s.arg)

(* raw=True: the cursor passes over what is not a statement on documents. *)
MongoRaw(o, d, s) ==
  CASE o.cursor = "none" -> Raised(o, d)
    [] o.cursor # "none" /\ s.op = "insert" -> DocumentWrite(o, d, s.arg)
    [] o.cursor # "none" /\ s.op # "insert" -> Returned(o, d)

(* A script writes at most one document. *)
MongoLine(o, s) ==
  IF o.books.depth \in Finished THEN [obj |-> o, ok |-> FALSE, sent |-> <<>>]
  ELSE IF s.op = "insert" THEN [obj |-> o, ok |-> TRUE, sent |-> <<s>>]
  ELSE [obj |-> MongoControl(o, s).obj, ok |-> MongoControl(o, s).ok, sent |-> <<>>]

MongoScript(o, d, s, t) ==
  Script(o, d, s, t, MongoLine,
         LAMBDA q, e, lines : IF q.cursor = "none" THEN Raised(q, e)
                              ELSE DocumentWrite(q, e, lines[1].arg))

(* begin_transaction: a new cursor, and so a new session, for every BEGIN.  *)
MongoBegin(o, d, n) ==
  IF o.gone \/ d.closed THEN Raised(o, d)
  ELSE MongoExecute([o EXCEPT !.cursor = "idle"], d, Begin(n))

MongoCursorInsert(o, d, r) ==
  IF o.cursor = "none" THEN Raised(o, d) ELSE DocumentWrite(o, d, r)

(* close() lets go of the context whether it is owned or not. *)
MongoClose(o, d, owned) ==
  Outcome([o EXCEPT !.cursor = "none", !.gone = TRUE],
          IF owned /\ ~ o.gone THEN Dead(d) ELSE d, TRUE)

MongoExit(o, d, owned) ==
  LET rolled == IF o.books.depth > 0 THEN MongoExecute(o, d, Rollback(NoName))
                                     ELSE Returned(o, d)
  IN  Leave({MongoClose(r.obj, r.db, owned) : r \in rolled})
-----------------------------------------------------------------------------
(* AsyncMongoTransactionContext awaits what the synchronous one calls.  Its *)
(* delegate mode stays None, for it never asks the server.                  *)

AsyncMongoControl(o, s) == MongoControl(o, s)

AsyncMongoExecute(o, d, s) ==
  CASE o.books.depth \in Finished -> Raised(o, d)
    [] o.books.depth \notin Finished /\ s.op # "insert" ->
         LET t == AsyncMongoControl(o, s) IN {Outcome(t.obj, d, t.ok)}
    [] o.books.depth \notin Finished /\ s.op = "insert" ->
         IF o.cursor = "none" THEN Raised(o, d) ELSE DocumentWrite(o, d, s.arg)

AsyncMongoScript(o, d, s, t) == MongoScript(o, d, s, t)

(* begin_transaction leaves `async with ... as session` before the session  *)
(* is used.                                                                 *)
AsyncMongoBegin(o, d, n) ==
  IF o.gone \/ d.closed THEN Raised(o, d)
  ELSE AsyncMongoExecute([o EXCEPT !.cursor = "ended"], d, Begin(n))

AsyncMongoClose(o, d, owned) == MongoClose(o, d, owned)

AsyncMongoExit(o, d, owned) ==
  LET rolled == IF o.books.depth > 0 THEN AsyncMongoExecute(o, d, Rollback(NoName))
                                     ELSE Returned(o, d)
  IN  Leave({AsyncMongoClose(r.obj, r.db, owned) : r \in rolled})
=============================================================================
