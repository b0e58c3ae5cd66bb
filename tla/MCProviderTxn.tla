---------------------------- MODULE MCProviderTxn ----------------------------
(***************************************************************************)
(* The instance of ProviderTxn that TLC checks.                            *)
(***************************************************************************)
EXTENDS ProviderTxn, TLC

EveryHabit == {{}, {"outside", "late"}, {"script"}, {"raw"}}
RowsAlike == Permutations(Row)
=============================================================================
