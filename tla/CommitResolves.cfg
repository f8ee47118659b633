\* A writer, a read-only transaction and another engine: liveness.
SPECIFICATION FairSpec
CONSTANTS
    Txn = {t1, t2}
    File = {f1, f2}
    App = {}
    AppVersion = {1}
    NoVersion = NoVersion
    Other = Other
    ParentCommit = {}
    ReadOnly = {t2}
    MaxVersion = 3
    ManagedAtStart = FALSE
    CommitMayLie = TRUE
    AppReadMayFail = FALSE
PROPERTIES
    CommitResolves
\* Every transaction ends and the log is full: the system may stop.
CHECK_DEADLOCK FALSE
