\* Two scans of a table with deleted rows, and one failure.
SPECIFICATION Spec
CONSTANTS
    Scan = {s1, s2}
    Filtered = {}
    File = {f1, f2}
    Deleted = {f1}
    Col = {c}
    Filter = {{f1}}
    None = None
    Pushdown = "none"
    MaxVersion = 1
    MaxFailures = 1
    MaySkip = FALSE
INVARIANTS
    ScansAreAlwaysExact
\* The bound on versions is reached: the system may stop.
CHECK_DEADLOCK FALSE
