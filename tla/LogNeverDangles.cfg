\* A commit that reports an error after it wrote its entry.
SPECIFICATION Spec
CONSTANTS
    Txn = {t1, t2}
    File = {f1, f2}
    App = {app}
    AppVersion = {1}
    NoVersion = NoVersion
    Other = Other
    ParentCommit = {}
    ReadOnly = {}
    MaxVersion = 3
    ManagedAtStart = FALSE
    CommitMayLie = TRUE
    AppReadMayFail = FALSE
SYMMETRY FileSymmetry
INVARIANTS
    LogNeverDangles
\* Every transaction ends and the log is full: the system may stop.
CHECK_DEADLOCK FALSE
