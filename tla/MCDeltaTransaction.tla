------------------------- MODULE MCDeltaTransaction -------------------------
(***************************************************************************)
(* Small instances of DeltaTransaction for TLC.                            *)
(***************************************************************************)
EXTENDS DeltaTransactionRefinement, TLC

\* Data files are only told apart by their writer.
FileSymmetry == Permutations(File)
============================================================================
