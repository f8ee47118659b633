------------------------- MODULE DeltaCreateTableAs -------------------------
(***************************************************************************)
(* Statements that create a Delta table at one path: CREATE TABLE AS and   *)
(* COPY TO, which write the first data files too (storage/delta_insert.cpp *)
(* and storage/delta_create_table.cpp), and the plain CREATE TABLE of      *)
(* storage/delta_schema_entry.cpp.  They run in one process or in several, *)
(* next to other engines, and none of them takes a lock: storage decides.  *)
(*                                                                         *)
(* A statement that fails undoes what it did when its query ends.  A       *)
(* prepared one is planned by a query of its own, at the end of which the  *)
(* plan is undone, and then executed by others.                            *)
(*                                                                         *)
(* A data file is known by the statement whose write_uuid is in its name   *)
(* and by its directory.  On an object store there are no directories.     *)
(***************************************************************************)
EXTENDS Naturals

CONSTANTS
    Stmt,         \* the statements
    Part,         \* partition directories
    TableDir,     \* the table's directory
    LogDir,       \* its _delta_log
    Other,        \* another engine, or whoever makes directories
    NoTable,      \* there is no version 0
    MaxRuns,      \* bound: a prepared statement is executed this many times
    CommitMayLie  \* whether a commit may report an error after it wrote version 0

Place == Part \cup {TableDir, LogDir}

DataFile == [by : Stmt \cup {Other}, dir : Part \cup {TableDir}]

\* The log entry of version 0
Version == [by : Stmt \cup {Other}, files : SUBSET DataFile]

ASSUME PlacesAssumption == TableDir # LogDir /\ {TableDir, LogDir} \cap Part = {}
ASSUME OthersAssumption == Other \notin Stmt \cup Place /\ NoTable \notin Version
ASSUME RunsAssumption == MaxRuns \in Nat /\ CommitMayLie \in BOOLEAN

VARIABLES
    local,      \* whether the path is on a local file system
    kind,       \* what a statement is: see Kinds
    dirs,       \* the directories there are
    files,      \* the data files there are
    zero,       \* version 0 of the table
    phase,      \* how far a statement got
    created,    \* created_directory
    kernel,     \* the create transaction: not built, open, or consumed by its commit
    attempted,  \* commit_attempted
    committed,  \* committed
    written,    \* the data files the copy of this execution wrote
    todo,       \* the directories CleanUp still has to try
    seen,       \* the directory it just found empty; Other if none
    runs,       \* how often a statement was executed
    older,      \* history: statements planned when the table directory there is was there
    spoiled,    \* history: statements whose CleanUp failed
    overtaken   \* history: a directory was removed that was no longer empty

ownVars == <<created, kernel, attempted, committed, written, runs>>
cleanVars == <<todo, seen>>
storageVars == <<dirs, files, zero>>
setting == <<local, kind>>
vars == <<setting, storageVars, phase, ownVars, cleanVars, older, spoiled, overtaken>>

----------------------------------------------------------------------------
\* A CREATE TABLE AS or COPY TO that runs at once or is prepared first, and a CREATE TABLE
\* without a query.
Kinds == {"direct", "prepared", "plain"}
Plain(s) == kind[s] = "plain"
Prepared(s) == kind[s] = "prepared"

Phases == {"new", "ensure", "make", "build", "planned", "copying", "committing",
           "putting", "probe", "remove", "list", "idle", "ended", "crashed"}

Init ==
    /\ local \in BOOLEAN
    /\ kind \in [Stmt -> Kinds]
    /\ dirs = {} /\ files = {} /\ zero = NoTable
    /\ phase = [s \in Stmt |-> "new"]
    /\ created = [s \in Stmt |-> FALSE]
    /\ kernel = [s \in Stmt |-> "none"]
    /\ attempted = [s \in Stmt |-> FALSE]
    /\ committed = [s \in Stmt |-> FALSE]
    /\ written = [s \in Stmt |-> {}]
    /\ todo = [s \in Stmt |-> {}]
    /\ seen = [s \in Stmt |-> Other]
    /\ runs = [s \in Stmt |-> 0]
    /\ older = {} /\ spoiled = {} /\ overtaken = FALSE

\* DeltaTableExistsAt: a _delta_log directory, or anything below that prefix.
DeltaTableExistsAt == IF local THEN LogDir \in dirs ELSE zero # NoTable

FilesOf(s) == {f \in files : f.by = s}
FilesIn(p) == {f \in files : f.dir = p}

\* Mutant of Empty: subdirectories do not count.
EmptyOfFiles(p) == FilesIn(p) = {} /\ (p = LogDir => zero = NoTable)

\* What fs.ListFiles says of a directory.
Empty(p) ==
    /\ FilesIn(p) = {}
    /\ p = LogDir => zero = NoTable
    /\ p = TableDir => dirs \subseteq {TableDir}

\* The directories after some were made.
WithDirs(new) == IF local THEN dirs \cup new ELSE dirs

Become(s, p) == phase' = [phase EXCEPT ![s] = p]

\* What the memory of a process held of a statement is gone.
Forget(s) ==
    /\ created' = [created EXCEPT ![s] = FALSE]
    /\ kernel' = [kernel EXCEPT ![s] = "none"]
    /\ attempted' = [attempted EXCEPT ![s] = FALSE]
    /\ written' = [written EXCEPT ![s] = {}]
    /\ runs' = [runs EXCEPT ![s] = 0]
    /\ todo' = [todo EXCEPT ![s] = {}]
    /\ seen' = [seen EXCEPT ![s] = Other]

\* The query of a statement is over.  A prepared statement keeps its plan, if it was made.
Rest(s) ==
    IF Prepared(s) /\ kernel[s] # "none"
    THEN /\ Become(s, "idle")
         /\ written' = [written EXCEPT ![s] = {}]
         /\ todo' = [todo EXCEPT ![s] = {}]
         /\ seen' = [seen EXCEPT ![s] = Other]
         /\ UNCHANGED <<created, kernel, attempted, runs>>
    ELSE Become(s, "ended") /\ Forget(s)

\* A query that failed ends with CleanUp, if one is registered.
FailWith(s, registered) ==
    IF registered /\ ~Plain(s)
    THEN /\ Become(s, "probe")
         /\ UNCHANGED <<created, kernel, attempted, written, runs, cleanVars>>
    ELSE Rest(s)

Resting(s) == phase[s] \in {"new", "idle", "ended"}

----------------------------------------------------------------------------
(* The environment.                                                        *)

OtherMakesDirectory ==
    /\ local /\ TableDir \notin dirs
    /\ dirs' = dirs \cup {TableDir}
    /\ UNCHANGED <<setting, files, zero, phase, ownVars, cleanVars, older, spoiled, overtaken>>

\* Another engine creates a table with one file at the path.
OtherCreatesTable ==
    LET f == [by |-> Other, dir |-> TableDir]
    IN  /\ zero = NoTable
        /\ zero' = [by |-> Other, files |-> {f}]
        /\ files' = files \cup {f}
        /\ dirs' = WithDirs({TableDir, LogDir})
        /\ UNCHANGED <<setting, phase, ownVars, cleanVars, older, spoiled, overtaken>>

\* The process of a statement dies.
Crash(s) ==
    /\ ~Resting(s) /\ phase[s] # "crashed"
    /\ Become(s, "crashed")
    /\ Forget(s)
    /\ UNCHANGED <<setting, storageVars, committed, older, spoiled, overtaken>>

----------------------------------------------------------------------------
(* Planning: PlanCreateTableAs, or the first half of CreateTable.          *)

\* Everything that can be refused without touching storage was not; a CREATE TABLE
\* leaves it to the kernel to find an existing table.
Plan(s) ==
    /\ phase[s] = "new"
    /\ Plain(s) \/ ~DeltaTableExistsAt
    /\ Become(s, "ensure")
    /\ older' = IF TableDir \in dirs THEN older \cup {s} ELSE older
    /\ UNCHANGED <<setting, storageVars, ownVars, cleanVars, spoiled, overtaken>>

\* EnsureTableDirectory comes before the transaction is built and, as planning may have
\* been a query of its own, again when the plan is executed.
Ensured(s) == Become(s, IF kernel[s] = "none" THEN "build" ELSE "copying")

\* Mutant of FindDirectory: the directory counts as made by the statement.
ClaimDirectory(s) ==
    /\ phase[s] = "ensure"
    /\ local => TableDir \in dirs
    /\ created' = [created EXCEPT ![s] = TRUE]
    /\ Ensured(s)
    /\ UNCHANGED <<setting, storageVars, kernel, attempted, committed, written, runs,
                   cleanVars, older, spoiled, overtaken>>

\* EnsureTableDirectory finds the directory, or needs none.  created_directory keeps
\* what it was.
FindDirectory(s) ==
    /\ phase[s] = "ensure"
    /\ local => TableDir \in dirs
    /\ Ensured(s)
    /\ UNCHANGED <<setting, storageVars, ownVars, cleanVars, older, spoiled, overtaken>>

\* EnsureTableDirectory finds no directory.
MissDirectory(s) ==
    /\ phase[s] = "ensure"
    /\ local /\ TableDir \notin dirs
    /\ Become(s, "make")
    /\ UNCHANGED <<setting, storageVars, ownVars, cleanVars, older, spoiled, overtaken>>

\* ... and makes it, whether or not someone else did meanwhile.
MakeDirectory(s) ==
    /\ phase[s] = "make"
    /\ dirs' = dirs \cup {TableDir}
    /\ created' = [created EXCEPT ![s] = TRUE]
    /\ Ensured(s)
    /\ UNCHANGED <<setting, files, zero, kernel, attempted, committed, written, runs,
                   cleanVars, older, spoiled, overtaken>>

\* The DeltaCreateTableTransaction is built, which kernel refuses where there is a table.
\* A CREATE TABLE commits it at once.
BuildTransaction(s) ==
    /\ phase[s] = "build"
    /\ zero = NoTable
    /\ IF Plain(s)
       THEN Become(s, "committing") /\ kernel' = [kernel EXCEPT ![s] = "spent"]
       ELSE Become(s, "planned") /\ kernel' = [kernel EXCEPT ![s] = "open"]
    /\ UNCHANGED <<setting, storageVars, created, attempted, committed, written, runs,
                   cleanVars, older, spoiled, overtaken>>

\* Kernel refuses to build it.  A CREATE TABLE then removes a directory it made, unless
\* there is a table; the end of the query does so for the others.
BuildRefused(s) ==
    /\ phase[s] = "build"
    /\ IF Plain(s) /\ created[s] /\ ~DeltaTableExistsAt
       THEN /\ Become(s, "list")
            /\ todo' = [todo EXCEPT ![s] = {TableDir}]
            /\ UNCHANGED <<created, kernel, attempted, written, runs, seen>>
       ELSE FailWith(s, TRUE)
    /\ UNCHANGED <<setting, storageVars, committed, older, spoiled, overtaken>>

\* PREPARE and EXPLAIN end after planning.
EndPlanning(s) ==
    /\ phase[s] = "planned"
    /\ Prepared(s)
    /\ Become(s, "probe")
    /\ UNCHANGED <<setting, storageVars, ownVars, cleanVars, older, spoiled, overtaken>>

----------------------------------------------------------------------------
(* Execution.                                                              *)

\* GetGlobalSinkState refuses a plan whose create transaction is spent.
MayExecute(s) == kernel[s] = "open"

\* GetGlobalSinkState registers the cleanup.
Execute(s) ==
    /\ phase[s] = IF Prepared(s) THEN "idle" ELSE "planned"
    /\ runs[s] < MaxRuns
    /\ MayExecute(s)
    /\ runs' = [runs EXCEPT ![s] = @ + 1]
    /\ Become(s, "ensure")
    /\ UNCHANGED <<setting, storageVars, created, kernel, attempted, committed, written,
                   cleanVars, older, spoiled, overtaken>>

\* The copy writes a file, over one of the same name; it makes partition directories but
\* not the table's.
WriteFile(s) ==
    /\ phase[s] = "copying"
    /\ local => TableDir \in dirs
    /\ \E d \in Part \cup {TableDir} :
          LET f == [by |-> s, dir |-> d]
          IN  /\ f \notin written[s]
              /\ files' = files \cup {f}
              /\ written' = [written EXCEPT ![s] = @ \cup {f}]
              /\ dirs' = WithDirs({d})
    /\ UNCHANGED <<setting, zero, phase, created, kernel, attempted, committed, runs,
                   cleanVars, older, spoiled, overtaken>>

\* A directory cannot be made, the query or the copy fails, a file cannot be opened for
\* its modification time, or the client interrupts.  Planning registered the cleanup for
\* its own query, and GetGlobalSinkState does so after EnsureTableDirectory.
QueryFails(s) ==
    /\ phase[s] \in {"ensure", "make", "planned", "copying"}
    /\ FailWith(s, phase[s] \in {"planned", "copying"} \/ kernel[s] = "none"
                      \/ ~Prepared(s))
    /\ UNCHANGED <<setting, storageVars, committed, older, spoiled, overtaken>>

\* Finalize: the files are there and are added, and the commit takes the transaction.
Finalize(s) ==
    /\ phase[s] = "copying"
    /\ written[s] \subseteq files
    /\ attempted' = [attempted EXCEPT ![s] = TRUE]
    /\ kernel' = [kernel EXCEPT ![s] = "spent"]
    /\ Become(s, "committing")
    /\ UNCHANGED <<setting, storageVars, created, committed, written, runs, cleanVars,
                   older, spoiled, overtaken>>

\* The kernel makes the log directory.
MakeLogDirectory(s) ==
    /\ phase[s] = "committing"
    /\ local
    /\ dirs' = dirs \cup {TableDir, LogDir}
    /\ Become(s, "putting")
    /\ UNCHANGED <<setting, files, zero, ownVars, cleanVars, older, spoiled, overtaken>>

\* The kernel writes version 0 unless there is one, with the directories it lacks.
PutVersionZero(s) ==
    /\ phase[s] = IF local THEN "putting" ELSE "committing"
    /\ zero = NoTable
    /\ zero' = [by |-> s, files |-> written[s]]
    /\ dirs' = WithDirs({TableDir, LogDir})
    /\ UNCHANGED <<setting, files, older, spoiled, overtaken>>

\* The commit succeeds, and QueryEnd has nothing to do.
CommitSucceeds(s) ==
    /\ PutVersionZero(s)
    /\ committed' = [committed EXCEPT ![s] = TRUE]
    /\ Rest(s)

\* The commit reports an error although version 0 is written.
CommitLies(s) ==
    /\ CommitMayLie
    /\ PutVersionZero(s)
    /\ FailWith(s, TRUE)
    /\ UNCHANGED committed

\* The commit reports an error and wrote no version 0.  CREATE TABLE leaves it at that.
CommitFails(s) ==
    /\ phase[s] \in {"committing", "putting"}
    /\ FailWith(s, TRUE)
    /\ UNCHANGED <<setting, storageVars, committed, older, spoiled, overtaken>>

----------------------------------------------------------------------------
(* DeltaCreateTableAsState::CleanUp, at the end of a query that did not    *)
(* commit.                                                                 *)

\* Mutant of VersionZeroIsOurs: a commit that reported an error is believed.
VersionZeroNeverOurs(s) == FALSE

\* Version 0 names a file of this write.  Without files there is none to name.
VersionZeroIsOurs(s) ==
    /\ attempted[s] /\ DeltaTableExistsAt
    /\ zero # NoTable
    /\ \E f \in zero.files : f.by = s

\* The table is there after all: its files stay.
KeepFiles(s) ==
    /\ phase[s] = "probe"
    /\ VersionZeroIsOurs(s)
    /\ Rest(s)
    /\ UNCHANGED <<setting, storageVars, committed, older, spoiled, overtaken>>

DecideToRemove(s) ==
    /\ phase[s] = "probe"
    /\ ~VersionZeroIsOurs(s)
    /\ Become(s, "remove")
    /\ UNCHANGED <<setting, storageVars, ownVars, cleanVars, older, spoiled, overtaken>>

\* Mutant of Removed: what the copy reported is removed, and not what carries the name.
RemovedReported(s) == IF attempted[s] THEN written[s] ELSE {}

\* Mutant of Removed: everything the table does not name is removed.
RemovedUnknown(s) == IF zero = NoTable THEN files ELSE files \ zero.files

\* The files the glob for write_uuid finds.
Removed(s) == FilesOf(s)

\* Mutant of DirectoriesToTry: the files themselves are taken for their directories.
FilesToTry(s) == Removed(s) \cup {LogDir}

\* The directories the files were in, the log, and the table's if it is this statement's.
DirectoriesToTry(s) ==
    ({f.dir : f \in Removed(s)} \ {TableDir}) \cup {LogDir}
        \cup (IF created[s] THEN {TableDir} ELSE {})

RemoveFiles(s) ==
    /\ phase[s] = "remove"
    /\ files' = files \ Removed(s)
    /\ IF local
       THEN /\ Become(s, "list")
            /\ todo' = [todo EXCEPT ![s] = DirectoriesToTry(s)]
            /\ UNCHANGED <<created, kernel, attempted, written, runs, seen>>
       ELSE Rest(s)
    /\ UNCHANGED <<setting, dirs, zero, committed, older, spoiled, overtaken>>

\* Partition directories come before the log, and the table's comes last.
NextToTry(s, p) ==
    /\ p \in todo[s]
    /\ p = LogDir => todo[s] \cap Part = {}
    /\ p = TableDir => todo[s] = {TableDir}

\* TryRemoveEmptyDirectory finds the directory empty.
ListEmpty(s) ==
    /\ phase[s] = "list" /\ seen[s] = Other
    /\ \E p \in dirs : NextToTry(s, p) /\ Empty(p) /\ seen' = [seen EXCEPT ![s] = p]
    /\ UNCHANGED <<setting, storageVars, phase, ownVars, todo, older, spoiled, overtaken>>

\* CleanUp is done with a directory.
Tried(s, p) ==
    IF todo[s] = {p}
    THEN Rest(s)
    ELSE /\ todo' = [todo EXCEPT ![s] = @ \ {p}]
         /\ seen' = [seen EXCEPT ![s] = Other]
         /\ UNCHANGED <<phase, created, kernel, attempted, written, runs>>

\* It is not there, or it is not empty.
LeaveDirectory(s) ==
    /\ phase[s] = "list" /\ seen[s] = Other
    /\ \E p \in Place : NextToTry(s, p) /\ (p \in dirs => ~Empty(p)) /\ Tried(s, p)
    /\ UNCHANGED <<setting, storageVars, committed, older, spoiled, overtaken>>

\* RemoveDirectory takes the directory with whatever is in it by now.
RemoveDirectory(s) ==
    LET p == seen[s]
    IN  /\ phase[s] = "list" /\ p # Other
        /\ dirs' = IF p = TableDir THEN {} ELSE dirs \ {p}
        /\ files' = IF p = TableDir THEN {} ELSE files \ FilesIn(p)
        /\ zero' = IF p \in {TableDir, LogDir} THEN NoTable ELSE zero
        /\ older' = IF p = TableDir THEN {} ELSE older
        /\ overtaken' = (overtaken \/ ~Empty(p))
        /\ Tried(s, p)
        /\ UNCHANGED <<setting, committed, spoiled>>

\* A step of CleanUp throws, which is only logged.
CleanUpFails(s) ==
    /\ phase[s] \in {"probe", "remove", "list"}
    /\ \/ UNCHANGED files
       \/ phase[s] = "remove" /\ \E gone \in SUBSET FilesOf(s) : files' = files \ gone
    /\ spoiled' = spoiled \cup {s}
    /\ Rest(s)
    /\ UNCHANGED <<setting, dirs, zero, committed, older, overtaken>>

----------------------------------------------------------------------------
CleanUpStep(s) ==
    \/ KeepFiles(s) \/ DecideToRemove(s) \/ RemoveFiles(s)
    \/ ListEmpty(s) \/ LeaveDirectory(s) \/ RemoveDirectory(s) \/ CleanUpFails(s)

Next ==
    \/ \E s \in Stmt :
          \/ Plan(s) \/ FindDirectory(s) \/ MissDirectory(s) \/ MakeDirectory(s)
          \/ BuildTransaction(s) \/ BuildRefused(s) \/ EndPlanning(s)
          \/ Execute(s) \/ WriteFile(s) \/ QueryFails(s) \/ Finalize(s)
          \/ MakeLogDirectory(s) \/ CommitSucceeds(s) \/ CommitLies(s) \/ CommitFails(s)
          \/ CleanUpStep(s)
          \/ Crash(s)
    \/ OtherMakesDirectory
    \/ OtherCreatesTable

Spec == Init /\ [][Next]_vars

----------------------------------------------------------------------------
(* Properties.                                                             *)

\* Every variable has the type its comment says.
TypeOK ==
    /\ local \in BOOLEAN /\ kind \in [Stmt -> Kinds]
    /\ dirs \in SUBSET Place
    /\ files \in SUBSET DataFile
    /\ zero \in Version \cup {NoTable}
    /\ phase \in [Stmt -> Phases]
    /\ created \in [Stmt -> BOOLEAN]
    /\ kernel \in [Stmt -> {"none", "open", "spent"}]
    /\ attempted \in [Stmt -> BOOLEAN]
    /\ committed \in [Stmt -> BOOLEAN]
    /\ written \in [Stmt -> SUBSET DataFile]
    /\ todo \in [Stmt -> SUBSET Place]
    /\ seen \in [Stmt -> Place \cup {Other}]
    /\ runs \in [Stmt -> 0..MaxRuns]
    /\ older \in SUBSET Stmt
    /\ spoiled \in SUBSET Stmt
    /\ overtaken \in BOOLEAN

\* The files of version 0 are on storage: neither the statement that committed it, whose
\* commit may have reported an error, nor a CleanUp of one that lost the race removes
\* them.  The exception is a directory that was empty when CleanUp listed it and not when
\* RemoveDirectory took it.
TableKeepsItsFiles == zero # NoTable /\ ~overtaken => zero.files \subseteq files

\* When a query is over, the files that carry its write_uuid are those of version 0, if
\* the statement wrote it, and none otherwise: failed executions of a prepared statement
\* leave nothing behind, also when a later one succeeds.
LeavesNothing ==
    \A s \in Stmt : Resting(s) /\ s \notin spoiled /\ ~overtaken =>
        FilesOf(s) = IF zero # NoTable /\ zero.by = s THEN zero.files ELSE {}

\* A statement that succeeds made the table, and it stays: nobody else succeeds at the
\* same path, before or after, and no CleanUp takes the log away.
SuccessIsTheTable ==
    \A s \in Stmt : committed[s] /\ ~overtaken => zero # NoTable /\ zero.by = s

\* A statement that fails touches neither the table someone else made nor the files of
\* another statement, however their steps interleave with its CleanUp.
TouchesOnlyItsOwn ==
    [][~overtaken' =>
          /\ zero # NoTable => zero' = zero
          /\ \A f \in files \ files' : f.by \in Stmt /\ phase[f.by] = "remove"]_vars

\* What create_table_as.test says of a failing statement: a directory that was there
\* before it was planned stays, whatever its PREPARE, its executions and their CleanUps do
\* and whoever else makes and removes directories meanwhile.
DirectoryThereBeforeStays ==
    [][\A s \in older :
          TableDir \in dirs \ dirs' => ~(phase[s] = "list" /\ seen'[s] # seen[s])]_vars
============================================================================
