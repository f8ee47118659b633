\* A path attachment and a catalog's, both idempotent writers, next to another engine; commits may lie.
SPECIFICATION Spec
CONSTANTS
    Txn = {t1, t3}
    File = {f1, f2}
    App = {app}
    AppVersion = {1}
    NoVersion = NoVersion
    Other = Other
    ParentCommit = {t3}
    ReadOnly = {}
    MaxVersion = 3
    ManagedAtStart = FALSE
    CommitMayLie = TRUE
    AppReadMayFail = TRUE
SYMMETRY FileSymmetry
INVARIANTS
    TypeOK
    AllOrNothing
    CommitsOnPinnedSnapshot
    CompareAndSwap
    CommittedFilesExist
    NoOrphans
    CatalogOrdersCommits
    ManagerEntries
    CallbackHasItsEntries
PROPERTIES
    ImplementsPromise
    OnlyOwnFilesRemoved
\* Every transaction ends and the log is full: the system may stop.
CHECK_DEADLOCK FALSE
