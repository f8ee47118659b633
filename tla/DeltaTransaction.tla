-------------------------- MODULE DeltaTransaction --------------------------
(***************************************************************************)
(* Transactions that append to one Delta table, as DuckDB's Delta          *)
(* extension runs them: DeltaTransaction (storage/delta_transaction.cpp),  *)
(* DeltaTransactionManager (storage/delta_transaction_manager.cpp) and the *)
(* INSERT operator that feeds them (storage/delta_insert.cpp).             *)
(*                                                                         *)
(* Shared by everyone: the table's log and the data files on storage.      *)
(* Private to a transaction: the snapshot it pinned, the files it wrote,   *)
(* the kernel transaction handle and the application versions registered   *)
(* with it.  The Delta kernel, the catalog that orders the commits of a    *)
(* catalog-managed table, and DuckDB's own transaction handling are        *)
(* external: they are modelled by what the extension relies on.            *)
(*                                                                         *)
(* Snapshot number n is the table after the first n log entries, so Delta  *)
(* version 0 is snapshot 1; number 0 stands for a null table entry.        *)
(***************************************************************************)
EXTENDS Naturals, Sequences

CONSTANTS
    Txn,             \* the transactions that are ever started
    File,            \* data file names; the copy names every file by a UUID
    App,             \* application ids of idempotent writers
    AppVersion,      \* version numbers an application may register
    NoVersion,       \* SQL NULL: an application version that is not set
    Other,           \* a writer that is not this extension
    ParentCommit,    \* transactions whose commits go through a parent catalog
    ReadOnly,        \* transactions on a READ_ONLY, VERSION or TIMESTAMP attachment
    MaxVersion,      \* bound: the log holds at most this many entries
    ManagedAtStart,  \* whether the table is catalog-managed from its first entry on
    CommitMayLie,    \* whether a commit may report an error after it wrote its entry
    AppReadMayFail   \* whether reading an application version may fail

ASSUME RolesAssumption == ParentCommit \subseteq Txn /\ ReadOnly \subseteq Txn
ASSUME OtherAssumption == Other \notin Txn
ASSUME NoVersionAssumption == NoVersion \notin AppVersion
ASSUME BoundAssumption == MaxVersion \in Nat \ {0}
ASSUME SwitchAssumption == {ManagedAtStart, CommitMayLie, AppReadMayFail} \subseteq BOOLEAN

VARIABLES
    log,          \* the Delta log: one record per version
    disk,         \* the data files on storage
    writer,       \* which transaction wrote a file; Other if nobody has yet
    phase,        \* what DuckDB is doing with the transaction
    state,        \* transaction_state
    entry,        \* table_entry: the snapshot the transaction pinned, 0 if null
    written,      \* written_files of the INSERT that is running
    outstanding,  \* outstanding_appends
    kernel,       \* kernel_transaction: its base snapshot (0: null) and its adds
    registered,   \* app_versions
    parent,       \* whether parent_table_entry is set
    transactions, \* the manager's map of transactions
    appended,     \* history: every file that ever was in outstanding_appends
    spoiled       \* history: transactions whose files could not all be removed

vars == <<log, disk, writer, phase, state, entry, written, outstanding, kernel,
          registered, parent, transactions, appended, spoiled>>

----------------------------------------------------------------------------
MaybeVersion == AppVersion \cup {NoVersion}

LogEntry == [by : Txn \cup {Other}, adds : SUBSET File,
             apps : [App -> MaybeVersion], managed : BOOLEAN]

\* DeltaTransactionState
States == {"NOT_YET_STARTED", "STARTED", "FINISHED"}

\* The transaction has left DuckDB: its COMMIT returned, it was rolled back, its
\* commit returned an error, or the process died with it.
Ended == {"acknowledged", "rolledBack", "refused", "crashed"}

Phases == {"none", "active", "copying", "invalid", "committing", "written",
           "cleanup"} \cup Ended

\* TransactionVersion; a null new version stands for "not registered".
Registration == [new : MaybeVersion, expected : MaybeVersion]
NotRegistered == [new |-> NoVersion, expected |-> NoVersion]
IsRegistered(t, a) == registered[t][a].new # NoVersion

KernelTxn == [base : Nat, adds : SUBSET File]
NoKernelTxn == [base |-> 0, adds |-> {}]

FirstEntry == [by |-> Other, adds |-> {}, apps |-> [a \in App |-> NoVersion],
               managed |-> ManagedAtStart]

\* Mutant of Start: transaction_state is left as it was allocated.
StartForgotten == [t \in Txn |-> "UNINITIALIZED"]

\* DeltaTransaction::Start, which the manager calls on every new transaction.
Start == [t \in Txn |-> "NOT_YET_STARTED"]

\* The constructor's initial values, for a table that has its version 0.
Init ==
    /\ log = <<FirstEntry>>
    /\ disk = {}
    /\ writer = [f \in File |-> Other]
    /\ phase = [t \in Txn |-> "none"]
    /\ state = Start
    /\ entry = [t \in Txn |-> 0]
    /\ written = [t \in Txn |-> {}]
    /\ outstanding = [t \in Txn |-> {}]
    /\ kernel = [t \in Txn |-> NoKernelTxn]
    /\ registered = [t \in Txn |-> [a \in App |-> NotRegistered]]
    /\ parent = [t \in Txn |-> FALSE]
    /\ transactions = {}
    /\ appended = [t \in Txn |-> {}]
    /\ spoiled = {}

privateVars == <<state, entry, written, outstanding, kernel, registered, parent>>
storageVars == <<log, disk, writer>>
historyVars == <<appended, spoiled>>

Become(t, p) == phase' = [phase EXCEPT ![t] = p]

----------------------------------------------------------------------------
(* The environment: other writers of the table.                            *)

\* The application versions another engine's commit may leave.
ForeignApps(apps) == {apps} \cup {[apps EXCEPT ![a] = v] : a \in App, v \in AppVersion}

\* Another engine commits: it may move an application version, and it may turn
\* the table into a catalog-managed one.
OtherCommit ==
    /\ Len(log) < MaxVersion
    /\ \E apps \in ForeignApps(log[Len(log)].apps),
          managed \in {log[Len(log)].managed, TRUE} :
          log' = Append(log, [by |-> Other, adds |-> {}, apps |-> apps,
                              managed |-> managed])
    /\ UNCHANGED <<disk, writer, phase, privateVars, transactions, historyVars>>

----------------------------------------------------------------------------
(* The life of a transaction up to its COMMIT or ROLLBACK.                 *)

\* DeltaTransactionManager::StartTransaction
StartTransaction(t) ==
    /\ phase[t] = "none"
    /\ Become(t, "active")
    /\ transactions' = transactions \cup {t}
    /\ UNCHANGED <<storageVars, privateVars, historyVars>>

\* The snapshots a lookup may open.  Straight from storage it is the head of the
\* log; a catalog-managed table opens only at the max_catalog_version its ATTACH
\* names, which may be behind the head.
OpenableSnapshots(t) ==
    IF log[Len(log)].managed
    THEN {n \in 1..Len(log) : log[n].managed}
    ELSE IF t \in ParentCommit THEN {} ELSE {Len(log)}

\* InitializeTableEntry for the latest version: the first lookup of the
\* transaction pins the snapshot, later ones find it.  A lookup of a specific version
\* leaves table_entry null; only a read-only attachment can do with that.
InitializeTableEntry(t) ==
    /\ phase[t] = "active"
    /\ entry[t] = 0
    /\ \E n \in OpenableSnapshots(t) : entry' = [entry EXCEPT ![t] = n]
    /\ UNCHANGED <<storageVars, phase, state, written, outstanding, kernel,
                   registered, parent, transactions, historyVars>>

\* SetTransactionVersion, called by delta_set_transaction_version after its bind
\* looked up the table: the map's insert keeps a registration that is there.
SetTransactionVersion(t) ==
    /\ phase[t] = "active"
    /\ entry[t] # 0
    /\ \E a \in App, new \in AppVersion, expected \in MaybeVersion :
          /\ ~IsRegistered(t, a)
          /\ registered' = [registered EXCEPT
                 ![t] = [@ EXCEPT ![a] = [new |-> new, expected |-> expected]]]
    /\ UNCHANGED <<storageVars, phase, state, entry, written, outstanding, kernel,
                   parent, transactions, historyVars>>

\* Mutant of PlanInsert: the parent's table entry is not passed on.
PlanInsertWithoutParent(t) ==
    /\ phase[t] = "active"
    /\ entry[t] # 0 \/ t \in ReadOnly
    /\ Become(t, "copying")
    /\ UNCHANGED <<storageVars, privateVars, transactions, historyVars>>

\* PlanInsert and the start of the copy it plans.  A transaction that commits
\* through its parent catalog is told which entry of the parent it writes to.
PlanInsert(t) ==
    /\ phase[t] = "active"
    /\ entry[t] # 0 \/ t \in ReadOnly
    /\ Become(t, "copying")
    /\ parent' = [parent EXCEPT ![t] = @ \/ t \in ParentCommit]
    /\ UNCHANGED <<storageVars, state, entry, written, outstanding, kernel, registered,
                   transactions, historyVars>>

\* The copy finishes a data file and reports it to the sink (AddWrittenFiles).
WriteFile(t) ==
    /\ phase[t] = "copying"
    /\ \E f \in File :
          /\ writer[f] = Other
          /\ writer' = [writer EXCEPT ![f] = t]
          /\ disk' = disk \cup {f}
          /\ written' = [written EXCEPT ![t] = @ \cup {f}]
    /\ UNCHANGED <<log, phase, state, entry, outstanding, kernel, registered, parent,
                   transactions, historyVars>>

\* The query, the copy or a NOT NULL check fails while the INSERT runs.  DuckDB
\* then only lets the transaction be rolled back.
InsertFails(t) ==
    /\ phase[t] = "copying"
    /\ Become(t, "invalid")
    /\ written' = [written EXCEPT ![t] = {}]
    /\ UNCHANGED <<storageVars, state, entry, outstanding, kernel, registered, parent,
                   transactions, historyVars>>

----------------------------------------------------------------------------
(* DeltaInsert::Finalize and DeltaTransaction::Append.                     *)

\* Mutant of BypassesCatalog: InitializeTransaction does not look at the protocol.
BypassUnnoticed(t) == FALSE

\* A path-based write to a catalog-managed table, which InitializeTransaction
\* refuses.
BypassesCatalog(t) == t \notin ParentCommit /\ log[entry[t]].managed

\* What InitializeTransaction makes of transaction_state when it throws: the
\* read-only check comes before the assignment, every other check after it.
StateAfterRefusal(t) == IF t \in ReadOnly THEN state[t] ELSE "STARTED"

\* Append whose InitializeTransaction throws: read-only, catalog-managed, or an
\* error of the kernel's transaction builder or committer.
AppendRefused(t) ==
    /\ phase[t] = "copying"
    /\ state[t] = "NOT_YET_STARTED"
    /\ state' = [state EXCEPT ![t] = StateAfterRefusal(t)]
    /\ Become(t, "invalid")
    /\ written' = [written EXCEPT ![t] = {}]
    /\ UNCHANGED <<storageVars, entry, outstanding, kernel, registered, parent,
                   transactions, historyVars>>

\* InitializeTransaction succeeds or was done by an earlier append.
CanInitialize(t) ==
    state[t] = "NOT_YET_STARTED" => t \notin ReadOnly /\ ~BypassesCatalog(t)

\* Mutant of InitializedKernel: every append builds its kernel transaction anew.
KernelPerAppend(t) == [base |-> entry[t], adds |-> {}]

\* Mutant of InitializedKernel: it is built from a fresh snapshot of the table.
KernelAtHead(t) ==
    IF state[t] = "NOT_YET_STARTED"
    THEN [base |-> Len(log), adds |-> {}]
    ELSE kernel[t]

\* The kernel transaction after InitializeTransaction: built from table_entry.
InitializedKernel(t) ==
    IF state[t] = "NOT_YET_STARTED"
    THEN [base |-> entry[t], adds |-> {}]
    ELSE kernel[t]

\* Append's first half: the kernel transaction exists and the files of the
\* statement are outstanding.
RecordAppends(t) ==
    /\ phase[t] = "copying"
    /\ CanInitialize(t)
    /\ state' = [state EXCEPT ![t] = "STARTED"]
    /\ outstanding' = [outstanding EXCEPT ![t] = @ \cup written[t]]
    /\ appended' = [appended EXCEPT ![t] = @ \cup written[t]]
    /\ written' = [written EXCEPT ![t] = {}]

\* Opening one of the new files for its modification time throws: they are
\* outstanding, but the kernel transaction never hears of them.
AppendStatFails(t) ==
    /\ RecordAppends(t)
    /\ written[t] # {}
    /\ kernel' = [kernel EXCEPT ![t] = InitializedKernel(t)]
    /\ Become(t, "invalid")
    /\ UNCHANGED <<storageVars, entry, registered, parent, transactions, spoiled>>

\* CreateAddFilesEngineData and WriteMetaData: one add action for each new file.
AddFiles(k, files) == [base |-> k.base, adds |-> k.adds \cup files]

\* The whole of Append: update_table_txn_add_files hands the files to the kernel
\* transaction and the INSERT returns.
AppendFiles(t) ==
    /\ RecordAppends(t)
    /\ kernel' = [kernel EXCEPT ![t] = AddFiles(InitializedKernel(t), written[t])]
    /\ Become(t, "active")
    /\ UNCHANGED <<storageVars, entry, registered, parent, transactions, spoiled>>

----------------------------------------------------------------------------
(* DeltaTransactionManager::CommitTransaction.                             *)

\* Mutant of VersionMayMatch: the expected version is not looked at.
VersionIgnored(t, a) == TRUE

\* The expected version is compared with what the pinned snapshot says.  A failed
\* read counts as a mismatch unless NULL is expected; then the comparison reads an
\* OptionalValue nobody initialised, and may go either way.
VersionMayMatch(t, a) ==
    \/ log[entry[t]].apps[a] = registered[t][a].expected
    \/ AppReadMayFail /\ registered[t][a].expected = NoVersion

VersionMayDiffer(t, a) ==
    \/ log[entry[t]].apps[a] # registered[t][a].expected
    \/ AppReadMayFail

RegisteredApps(t) == {a \in App : IsRegistered(t, a)}

Finish(t) == state' = [state EXCEPT ![t] = "FINISHED"]

\* Commit with nothing to write: the transaction never started, or it started and
\* has no appends.  Registered application versions are dropped.
CommitNothing(t) ==
    /\ phase[t] = "active"
    /\ state[t] = "STARTED" => outstanding[t] = {}
    /\ state' = [state EXCEPT ![t] = IF @ = "STARTED" THEN "FINISHED" ELSE @]
    /\ Become(t, "acknowledged")
    /\ transactions' = transactions \ {t}
    /\ UNCHANGED <<storageVars, entry, written, outstanding, kernel, registered, parent,
                   historyVars>>

\* Commit throws because an application version is not the expected one.
CommitVersionMismatch(t) ==
    /\ phase[t] = "active"
    /\ state[t] = "STARTED" /\ outstanding[t] # {}
    /\ \E a \in RegisteredApps(t) : VersionMayDiffer(t, a)
    /\ Finish(t)
    /\ Become(t, "cleanup")
    /\ UNCHANGED <<storageVars, entry, written, outstanding, kernel, registered, parent,
                   transactions, historyVars>>

\* Commit passes its checks and calls update_table_txn_commit.
CommitChecked(t) ==
    /\ phase[t] = "active"
    /\ state[t] = "STARTED" /\ outstanding[t] # {}
    /\ \A a \in RegisteredApps(t) : VersionMayMatch(t, a)
    /\ Finish(t)
    /\ Become(t, "committing")
    /\ UNCHANGED <<storageVars, entry, written, outstanding, kernel, registered, parent,
                   transactions, historyVars>>

\* The entry the kernel writes: put-if-absent at the version after its base, on
\* storage or, through CommitCallback, at the catalog.
NewEntry(t) ==
    [by |-> t, adds |-> kernel[t].adds,
     apps |-> [a \in App |-> IF IsRegistered(t, a) THEN registered[t][a].new
                                                   ELSE log[kernel[t].base].apps[a]],
     managed |-> log[kernel[t].base].managed]

WriteEntry(t) ==
    /\ Len(log) = kernel[t].base
    /\ Len(log) < MaxVersion
    /\ log' = Append(log, NewEntry(t))

\* What CommitCallback insists on before it asks the catalog: write_entry, which
\* InitializeTransaction set, and parent_table_entry.
CallbackReady(t) == kernel[t].base # 0 /\ parent[t]

\* A path-based commit is accepted by storage, one of a catalog's transaction
\* by the catalog's commit function.
CommitAccepted(t) == t \in ParentCommit => CallbackReady(t)

\* The kernel commit succeeds.
KernelCommit(t) ==
    /\ phase[t] = "committing"
    /\ CommitAccepted(t)
    /\ WriteEntry(t)
    /\ Become(t, "written")
    /\ UNCHANGED <<disk, writer, privateVars, transactions, historyVars>>

\* Mutant of KernelCommitFails: the commit is tried again for as long as it fails.
KernelCommitRetries(t) ==
    /\ phase[t] = "committing"
    /\ UNCHANGED vars

\* The kernel commit reports an error and wrote nothing: another commit took the
\* version, or the request, the catalog or CommitCallback failed.
KernelCommitFails(t) ==
    /\ phase[t] = "committing"
    /\ Become(t, "cleanup")
    /\ UNCHANGED <<storageVars, privateVars, transactions, historyVars>>

\* The kernel commit reports an error although its entry was written.
KernelCommitLies(t) ==
    /\ CommitMayLie
    /\ phase[t] = "committing"
    /\ CommitAccepted(t)
    /\ WriteEntry(t)
    /\ Become(t, "cleanup")
    /\ UNCHANGED <<disk, writer, privateVars, transactions, historyVars>>

\* Mutant of CommitReturns: the manager keeps the transaction.
CommitReturnsWithoutErase(t) ==
    /\ phase[t] = "written"
    /\ Become(t, "acknowledged")
    /\ UNCHANGED <<storageVars, privateVars, transactions, historyVars>>

\* CommitTransaction erases the transaction and returns no error.
CommitReturns(t) ==
    /\ phase[t] = "written"
    /\ Become(t, "acknowledged")
    /\ transactions' = transactions \ {t}
    /\ UNCHANGED <<storageVars, privateVars, historyVars>>

----------------------------------------------------------------------------
(* CleanUpFiles, and the two ways into it.                                 *)

\* Mutant of RemoveAll: the list is cleared before the files are removed.
ClearThenRemove(t) ==
    /\ outstanding' = [outstanding EXCEPT ![t] = {}]
    /\ UNCHANGED <<disk, spoiled>>

\* Mutant of RemoveAll: everything the pinned snapshot does not know is removed.
RemoveUnknown(t) ==
    /\ disk' = disk \cap UNION {log[i].adds : i \in 1..entry[t]}
    /\ outstanding' = [outstanding EXCEPT ![t] = {}]
    /\ UNCHANGED spoiled

\* Every outstanding file is removed.
RemoveAll(t) ==
    /\ disk' = disk \ outstanding[t]
    /\ outstanding' = [outstanding EXCEPT ![t] = {}]
    /\ UNCHANGED spoiled

\* Removing a file throws: the files before it are gone, the rest stays.
RemoveSome(t) ==
    /\ \E gone \in SUBSET outstanding[t] :
          /\ gone # outstanding[t]
          /\ disk' = disk \ gone
    /\ spoiled' = spoiled \cup {t}
    /\ UNCHANGED outstanding

\* The client context is gone: the list is cleared and no file is removed.
RemoveNone(t) ==
    /\ outstanding' = [outstanding EXCEPT ![t] = {}]
    /\ spoiled' = spoiled \cup {t}
    /\ UNCHANGED disk

\* CommitTransaction's catch: HandleConflict cleans up and the error is returned,
\* before the line that erases the transaction from the manager's map.
HandleConflict(t) ==
    /\ phase[t] = "cleanup"
    /\ RemoveAll(t) \/ RemoveSome(t)
    /\ Become(t, "refused")
    /\ UNCHANGED <<log, writer, state, entry, written, kernel, registered, parent,
                   transactions, appended>>

\* RollbackTransaction of a transaction that started its kernel transaction.  An
\* exception leaves it in the map; the last alternative is a rollback by the
\* destructor of the client context.
Rollback(t) ==
    /\ phase[t] \in {"active", "invalid"}
    /\ state[t] = "STARTED"
    /\ Finish(t)
    /\ \/ RemoveAll(t) /\ transactions' = transactions \ {t}
       \/ RemoveSome(t) /\ UNCHANGED transactions
       \/ RemoveNone(t) /\ transactions' = transactions \ {t}
    /\ Become(t, "rolledBack")
    /\ UNCHANGED <<log, writer, entry, written, kernel, registered, parent, appended>>

\* RollbackTransaction of any other transaction only erases it.
RollbackUnstarted(t) ==
    /\ phase[t] \in {"active", "invalid"}
    /\ state[t] # "STARTED"
    /\ transactions' = transactions \ {t}
    /\ Become(t, "rolledBack")
    /\ UNCHANGED <<storageVars, privateVars, historyVars>>

Live(t) == phase[t] \notin Ended \cup {"none"}

\* The process dies: whatever was in memory is gone, storage stays as it is.
Crash ==
    /\ \E t \in Txn : Live(t)
    /\ phase' = [t \in Txn |-> IF Live(t) THEN "crashed" ELSE phase[t]]
    /\ transactions' = {}
    /\ UNCHANGED <<storageVars, privateVars, historyVars>>

----------------------------------------------------------------------------
\* What the extension does by itself once DuckDB asked it to commit.
CommitStep(t) ==
    \/ KernelCommit(t) \/ KernelCommitFails(t) \/ KernelCommitLies(t)
    \/ CommitReturns(t) \/ HandleConflict(t)

Next ==
    \/ \E t \in Txn :
          \/ StartTransaction(t) \/ InitializeTableEntry(t) \/ SetTransactionVersion(t)
          \/ PlanInsert(t) \/ WriteFile(t) \/ InsertFails(t)
          \/ AppendRefused(t) \/ AppendStatFails(t) \/ AppendFiles(t)
          \/ CommitNothing(t) \/ CommitVersionMismatch(t) \/ CommitChecked(t)
          \/ CommitStep(t)
          \/ Rollback(t) \/ RollbackUnstarted(t)
    \/ OtherCommit
    \/ Crash

\* A commit runs on the thread that asked for it and blocks nobody, so it is
\* carried through; when and whether a client commits is up to the client.
Fairness == \A t \in Txn : WF_vars(CommitStep(t))

Spec == Init /\ [][Next]_vars
FairSpec == Spec /\ Fairness

----------------------------------------------------------------------------
(* Properties.                                                             *)

\* Every variable has the type its comment says.
TypeOK ==
    /\ log \in Seq(LogEntry)
    /\ disk \in SUBSET File
    /\ writer \in [File -> Txn \cup {Other}]
    /\ phase \in [Txn -> Phases]
    /\ state \in [Txn -> States]
    /\ entry \in [Txn -> Nat]
    /\ written \in [Txn -> SUBSET File]
    /\ outstanding \in [Txn -> SUBSET File]
    /\ kernel \in [Txn -> KernelTxn]
    /\ registered \in [Txn -> [App -> Registration]]
    /\ parent \in [Txn -> BOOLEAN]
    /\ transactions \in SUBSET Txn
    /\ appended \in [Txn -> SUBSET File]
    /\ spoiled \in SUBSET Txn

\* The files a log entry adds are on storage, whatever other transactions roll back
\* or lose a conflict.  The one exception is a commit that reported an error after it
\* wrote its entry: HandleConflict then removes files the log refers to.
CommittedFilesExist ==
    \A i \in DOMAIN log :
        \/ log[i].adds \subseteq disk
        \/ CommitMayLie /\ log[i].by \in Txn /\ phase[log[i].by] = "refused"

\* A transaction is in the log with exactly the files of all its INSERTs, or not at
\* all, and never twice: outstanding_appends and the kernel transaction's adds agree.
AllOrNothing ==
    \A i \in DOMAIN log : log[i].by \in Txn =>
        /\ log[i].adds = appended[log[i].by]
        /\ log[i].adds # {}
        /\ \A j \in DOMAIN log : log[j].by = log[i].by => j = i

\* A write commits directly on top of the snapshot its transaction read first; a commit
\* that lands in between is never written over or skipped past.
CommitsOnPinnedSnapshot ==
    \A i \in DOMAIN log : log[i].by \in Txn => i = entry[log[i].by] + 1

\* Registering an application version is a compare-and-swap against the version before
\* the commit, not against some older one.  Only a failed read under an expected NULL
\* lets a commit through that found another version.
CompareAndSwap ==
    \A i \in DOMAIN log : \A a \in App :
        log[i].by \in Txn /\ IsRegistered(log[i].by, a) =>
            /\ log[i].apps[a] = registered[log[i].by][a].new
            /\ \/ log[i - 1].apps[a] = registered[log[i].by][a].expected
               \/ AppReadMayFail /\ registered[log[i].by][a].expected = NoVersion

\* A transaction that rolled back or whose commit failed leaves none of the files it
\* appended, earlier successful INSERTs of a transaction that failed later included,
\* unless removing them failed or the connection was already gone.
NoOrphans ==
    \A t \in Txn : phase[t] \in {"rolledBack", "refused"} /\ t \notin spoiled =>
        appended[t] \cap disk = {}

\* Once a table is catalog-managed, this extension adds to its log only through the
\* catalog, also when the table became so after the transaction pinned its snapshot.
CatalogOrdersCommits ==
    \A i \in DOMAIN log :
        i > 1 /\ log[i].by \in Txn /\ log[i - 1].managed => log[i].by \in ParentCommit

\* DuckDB never calls into a transaction the manager dropped, and the manager keeps an
\* ended one only after a failed commit or a rollback that threw.
ManagerEntries ==
    \A t \in Txn :
        /\ Live(t) => t \in transactions
        /\ t \in transactions =>
              Live(t) \/ phase[t] = "refused" \/ (phase[t] = "rolledBack" /\ t \in spoiled)

\* CommitCallback never raises its InternalExceptions: a commit through the catalog has
\* its write entry and its parent table entry by then.
CallbackHasItsEntries ==
    \A t \in ParentCommit : phase[t] = "committing" => CallbackReady(t)

RemovesOnlyOwnFiles ==
    \A f \in disk \ disk' : /\ writer[f] \in Txn
                            /\ phase[writer[f]] # "acknowledged"
                            /\ phase'[writer[f]] \in {"rolledBack", "refused"}

\* A step removes data files of one transaction only, as that transaction ends
\* unsuccessfully; a file of a running or an acknowledged one is never removed.
OnlyOwnFilesRemoved == [][RemovesOnlyOwnFiles]_vars

\* A COMMIT that was asked for is carried to its end, or the process dies.
CommitResolves ==
    \A t \in Txn : phase[t] \in {"committing", "written", "cleanup"} ~> phase[t] \in Ended

\* What a commit that reports an error owes its files: no file of a log entry is ever
\* removed, as DeltaCreateTableAsState::CleanUp ensures for a table it creates.
LogNeverDangles == \A i \in DOMAIN log : log[i].adds \subseteq disk

\* What refuse_path_write.test says of a write to a catalog-managed table: it is
\* refused before any data file is written.
RefusedBeforeWriting ==
    \A t \in Txn : entry[t] # 0 /\ t \notin ReadOnly /\ BypassesCatalog(t) =>
        \A f \in disk : writer[f] # t
============================================================================
