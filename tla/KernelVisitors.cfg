CONSTANTS
  MaxExpressionNodes = 4
  MaxSchemaNodes = 4
SPECIFICATION Spec
INVARIANTS
  TypeOK
  ResultMirrorsTree
  ThrowsExactlyWhenUnreadable
  AbortsOnlyInMapLiterals
  SchemaReportsFirstProblem
CHECK_DEADLOCK FALSE
