\* A path attachment of a catalog-managed table.
SPECIFICATION Spec
CONSTANTS
    Txn = {t1, t2}
    File = {f1, f2}
    App = {app}
    AppVersion = {1}
    NoVersion = NoVersion
    Other = Other
    ParentCommit = {}
    ReadOnly = {}
    MaxVersion = 3
    ManagedAtStart = TRUE
    CommitMayLie = FALSE
    AppReadMayFail = FALSE
SYMMETRY FileSymmetry
INVARIANTS
    RefusedBeforeWriting
\* Every transaction ends and the log is full: the system may stop.
CHECK_DEADLOCK FALSE
