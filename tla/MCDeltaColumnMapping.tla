------------------------ MODULE MCDeltaColumnMapping ------------------------
(* The physical names of DeltaColumnMapping, for TLC.                      *)
EXTENDS DeltaColumnMapping

MCFreshPhysicalName == <<"col-1", "col-2", "col-3", "col-4">>
=============================================================================
