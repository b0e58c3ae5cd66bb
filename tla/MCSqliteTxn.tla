----------------------------- MODULE MCSqliteTxn -----------------------------
(***************************************************************************)
(* The instances of SqliteTxn that TLC checks.                             *)
(***************************************************************************)
EXTENDS SqliteTxn

(* What a client does by hand, beyond `with` and the table adapters. *)
Everything == {"outside", "late", "reuse", "raw", "script", "connection"}

EveryFault == {"begin", "savepoint", "commit", "insert", "abort"}
=============================================================================
