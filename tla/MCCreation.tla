----------------------------- MODULE MCCreation -----------------------------
(***************************************************************************)
(* The instances of the creation of tables that TLC checks, and what the   *)
(* documentation says of it that the code does not do.                     *)
(***************************************************************************)
EXTENDS TableCreation

CONSTANTS i1, i2

TwoIndexes == {<<>>, <<i1, i2>>}

(* With create_table=True an operation finds its table, where nothing has   *)
(* failed: "Whether to create the table if it does not exist" on MSSQL,     *)
(* "Whether to auto-create the table on first operation" on MySQL.          *)
LazyMeansCreated ==
  [][\A t \in Task : Operate(t) /\ site.lazy /\ past = {}
       => "table" \in Sees(site.home[t])]_creation
=============================================================================
