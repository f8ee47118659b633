\* Two statements of any kind at one path.
SPECIFICATION Spec
CONSTANTS
    Stmt = {s1, s2}
    Part = {p}
    TableDir = TableDir
    LogDir = LogDir
    Other = Other
    NoTable = NoTable
    MaxRuns = 2
    CommitMayLie = TRUE
SYMMETRY StmtSymmetry
CONSTRAINT NotOvertaken
INVARIANTS
    TypeOK
    TableKeepsItsFiles
    LeavesNothing
    SuccessIsTheTable
PROPERTIES
    TouchesOnlyItsOwn
    DirectoryThereBeforeStays
\* Every statement ends: the system may stop.
CHECK_DEADLOCK FALSE
