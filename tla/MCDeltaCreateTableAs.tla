------------------------ MODULE MCDeltaCreateTableAs ------------------------
(***************************************************************************)
(* DeltaCreateTableAs for TLC: no definition tells one statement from      *)
(* another of its kind, and nothing is claimed once a directory was        *)
(* removed that was no longer empty.                                       *)
(***************************************************************************)
EXTENDS DeltaCreateTableAs, TLC

StmtSymmetry == Permutations(Stmt)

NotOvertaken == ~overtaken
============================================================================
