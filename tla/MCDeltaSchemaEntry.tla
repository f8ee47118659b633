------------------------- MODULE MCDeltaSchemaEntry -------------------------
(***************************************************************************)
(* Small instances of DeltaSchemaEntry for TLC.                            *)
(***************************************************************************)
EXTENDS DeltaSchemaEntry, TLC

\* Transactions are only told apart by what they do.
TxnSymmetry == Permutations(Txn)
============================================================================
