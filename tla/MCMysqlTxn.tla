----------------------------- MODULE MCMysqlTxn -----------------------------
(***************************************************************************)
(* The instances of MysqlTxn that TLC checks.                              *)
(***************************************************************************)
EXTENDS MysqlTxn

Everything == {"outside", "late", "reuse", "ddl", "raw", "script", "connection"}

EveryFault == {"begin", "savepoint", "commit", "insert", "abort"}
=============================================================================
