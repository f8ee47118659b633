\* Two scans of a table with two files and up to two versions.
SPECIFICATION Spec
CONSTANTS
    Scan = {s1, s2}
    Filtered = {s1}
    File = {f1, f2}
    Deleted = {f1}
    Col = {c}
    Filter = {{f1}, {f1, f2}}
    None = None
    Pushdown = "all"
    MaxVersion = 2
    MaxFailures = 1
    MaySkip = TRUE
INVARIANTS
    TypeOK
    ScansAreExact
PROPERTIES
    LogicallyConst
\* The bounds on versions is reached: the system may stop.
CHECK_DEADLOCK FALSE
