CONSTANTS
  Name = {"a", "b", "c", "d"}
  FreshPhysicalName <- MCFreshPhysicalName
  MaxColumns = 4
  MaxFiles = 1
SPECIFICATION Spec
INVARIANTS
  TypeOK
  ReadsItsOwnColumn
  ReadsItsOwnPartition
  LenientReadsWholeFiles
  ConstraintsFollowTheirColumn
CHECK_DEADLOCK FALSE
