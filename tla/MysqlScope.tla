----------------------------- MODULE MysqlScope -----------------------------
(***************************************************************************)
(* A MySQL context with a connection of its own keeps the promise of       *)
(* TxnScope: a BEGIN inside the scope is invisible to the caller, COMMIT   *)
(* keeps everything, every other end keeps nothing, and a tracked savepoint*)
(* stands for the rows of the server's mark of that name.                  *)
(*                                                                         *)
(* Names are used once while they are live, and there is no DDL (Uses has  *)
(* neither "reuse" nor "ddl").                                             *)
(***************************************************************************)
EXTENDS MysqlTxn

Active == ~ db.closed /\ \E c \in Ctx : Holds(c)

Phase == IF Active THEN "active" ELSE "idle"

(* The rows rollback_savepoint() would bring back, savepoint by savepoint. *)
Points ==
  IF ~ Active THEN <<>>
  ELSE MarkedAs(ctx[CHOOSE c \in Ctx : Holds(c)].savepoints, db)

Promise ==
  INSTANCE TxnScope WITH phase <- Phase, stored <- db.durable,
                         pending <- db.work, points <- Points

(* Every step of the contexts, seen through this mapping, is a step of      *)
(* TxnScope or none: the caller can reason with TxnScope alone.             *)
ScopePromise == Promise!Spec
=============================================================================
