# Delta tables in DuckDB: a TLA+ verification project

This project specifies and checks the parts of DuckDB's Delta extension in which
order matters: transactions that append to a Delta table, the snapshots those
transactions read, the tables that `CREATE TABLE AS` creates, the file lists that
scans build lazily, the trees the Delta kernel hands over callback by callback, the
names and ids a column goes by while the schema changes, and the statistics and filters
that decide which files a scan leaves out. TLC checks the specifications on small
instances. TLAPS proves every safety property that TLC checks, for any number of
transactions, statements, scans, columns, files and versions, and for trees of any shape
and size.

Paths are relative to the repository root, which holds the extension's own code in
`src/`; the entries of `PROJECT.json` carry one more leading `src/`.

## 1. The system

The extension attaches a Delta table as a DuckDB catalog (or scans it with
`delta_scan`). The Delta kernel, a Rust library, reads and writes the log; DuckDB's
Parquet copy writes data files; the extension connects them. It keeps no state of
its own on storage besides the data files and log entries it has the kernel write.

| Component | Source | State | Operations |
|---|---|---|---|
| Transaction | `storage/delta_transaction.cpp` | `transaction_state`, `table_entry`, `versioned_table_entries`, `timestamp_versions`, `outstanding_appends`, `kernel_transaction`, `app_versions`, `parent_table_entry` | start, pin a snapshot, append, register an application version, commit, roll back, clean up files |
| Transaction manager | `storage/delta_transaction_manager.cpp` | `transactions` | start, commit (with `HandleConflict`), roll back, checkpoint |
| INSERT | `storage/delta_insert.cpp` | `written_files` of a statement, a not-null check | plan, collect the files the copy reports, finalize into `Append` |
| Catalog, schema | `storage/delta_catalog.cpp`, `delta_schema_entry.cpp`, `delta_table_entry.cpp` | `use_specific_version`, `use_cache`, the shared `cached_table` and its lock | attach, look up at a version or timestamp, create |
| CREATE TABLE AS, COPY | `storage/delta_create_table.cpp`, `delta_insert.cpp`, `functions/delta_copy.cpp` | the create transaction, the directories it made, whether the commit ran | bind, create directories, write, commit version 0, clean up |
| File list | `functions/delta_scan/delta_multi_file_list.cpp` | snapshot, scan iterator, `resolved_files`, `files_exhausted`, partition values, deletion vectors | open a snapshot, list lazily, push filters down, pin |
| Reader | `functions/delta_scan/delta_multi_file_reader.cpp` | column mapping of a file, delete filter | map columns, apply constants and deletion vectors |
| Kernel bindings | `delta_utils.cpp`, `include/delta_utils.hpp` | `inflight_lists`, `next_id`, `error`, `refused_path` of a visitor | visit an expression, visit a schema, build a predicate from filters, read the mapping mode, fill in ids |
| Idempotent writes | `functions/delta_transaction_utils/` | none of its own | get and set an application version |
| Metadata functions, macros, logging, secrets | the rest | none, or process-wide settings | pass-through |

**How they interact.** A query names a table; `LookupEntry` chooses a version and finds
or creates a snapshot in the transaction or in the schema's shared `cached_table`.
`PlanInsert` plans a Parquet copy below a `DeltaInsert` sink; the copy reports finished
files; `Finalize` passes them to `DeltaTransaction::Append`, which builds the kernel
transaction from `table_entry` on first use. `COMMIT` reaches the manager, which calls
`DeltaTransaction::Commit`. That checks application versions against the pinned
snapshot and calls the kernel's commit: put-if-absent of the next log entry, or, for a
table that a parent catalog manages, a call back into `CommitCallback`, which asks
the parent catalog. An error runs `HandleConflict`, which removes the files.

**What is hard.** Writers from other engines commit at any point. Files are on storage
before the log knows of them, so every failure has files to remove, and removing the
wrong ones corrupts the table. A commit can fail after it took effect. The snapshot
that is checked, the one that is committed on and the one that was read have to be the
same. A lookup gives up its lock halfway. A process can die anywhere.
A column has up to three names and an id, and every hand-over between log, copy, kernel
and reader has to use the right one. A visitor must not throw while the kernel is on the
stack, so it walks on after an error. `PROJECT.json`
lists the hazards one by one, at their lines, with the properties aimed at them.

## 2. Modules

| Module | Models |
|---|---|
| `DeltaTransaction` | the transaction, its manager, the INSERT that feeds it, other writers, crashes |
| `OptimisticAppend` | abstract: what appending to a log optimistically promises |
| `DeltaTransactionRefinement` | the mapping under which `DeltaTransaction` implements it |
| `DeltaTransactionProofs` | the inductive invariant, the theorems, the refinement |
| `MCDeltaTransaction` | file symmetry, for TLC |
| `DeltaSchemaEntry` | version choice, shared and own snapshots, time travel, CHECKPOINT |
| `DeltaSchemaEntryProofs` | its inductive invariant and theorems |
| `MCDeltaSchemaEntry` | transaction symmetry, for TLC |
| `DeltaCreateTableAs` | CREATE TABLE AS, COPY TO and CREATE TABLE at one path, their cleanup, other creators |
| `DeltaCreateTableAsProofs` | its inductive invariant and theorems |
| `MCDeltaCreateTableAs` | statement symmetry, for TLC |
| `DeltaMultiFileList` | scans, the file lists they share and filter, failures halfway |
| `DeltaMultiFileListProofs` | its inductive invariant and theorems |
| `KernelVisitors` | the expression visitor and the schema visitor, callback by callback |
| `KernelVisitorsProofs` | its inductive invariant and theorems |
| `DeltaColumnMapping` | names, ids and partition values of columns: written, looked up and read while the schema changes |
| `DeltaColumnMappingProofs` | its inductive invariant and theorems |
| `MCDeltaColumnMapping` | the physical names, for TLC |
| `FilterPushdown` | the statistics an INSERT records and the predicate a scan hands to the kernel |
| `FilterPushdownProofs` | its inductive invariant and theorems |
| `NaturalLemmas` | least and greatest elements of sets of numbers, for the proofs |

### DeltaTransaction

One table; `log[n]` is Delta version `n - 1`, so `entry[t] = n` says that transaction
`t` pinned the snapshot after `n` entries and 0 says that `table_entry` is null. A log
entry keeps who wrote it, the files it adds, the application versions after it, and
whether the table is catalog-managed. `state` is `transaction_state` as the code has
it. `phase` is where DuckDB is with the transaction: idle between statements, running
the copy, only able to roll back after an error, inside `CommitTransaction`, or ended.
`appended` and `spoiled` are history variables: no action reads them.

Each action is a whole handler up to the next point at which another process can act.
`Commit` is cut where the kernel commits: `CommitNothing`, `CommitVersionMismatch` and
`CommitChecked` are its three outcomes before that call; `KernelCommit`,
`KernelCommitFails` and `KernelCommitLies` are the call, the last one writing the
entry and reporting an error; `CommitReturns` and `HandleConflict` are the two ways back
through the manager. `Rollback` includes the three ways `CleanUpFiles` can go: all files
removed, an exception at some file, or a client context that is already gone.

Details of the code that the model keeps on purpose:

* `InitializeTransaction` sets `transaction_state` to `STARTED` after the read-only
  check and before every other check, so a refused append leaves the two cases in
  different states (`StateAfterRefusal`), and only one of them cleans up on rollback.
* `Append` extends `outstanding_appends` before it opens the files for their
  modification time. When that throws, a file is outstanding and the kernel transaction
  has no add for it (`AppendStatFails`). The statement failed, so DuckDB can only roll
  the transaction back.
* The files of a statement that fails before `Append` are not in
  `outstanding_appends`; nothing removes them (`InsertFails`, `AppendRefused`).
* `app_versions` is an unordered map filled with `insert`: the first registration of an
  application stands.
* A failed read of the application version leaves an `OptionalValue` uninitialised and
  the comparison with an expected NULL may go either way (`VersionMayMatch` and
  `VersionMayDiffer` are then both true).
* `CommitTransaction` returns from its `catch` before it erases the transaction from
  the manager's map, and an exception in `CleanUpFiles` during a rollback skips the
  erase too.

External, marked so in the map: other engines' commits, the kernel's put-if-absent, the
parent catalog (assumed to order commits as put-if-absent does), the Parquet copy
(assumed to name files uniquely), and DuckDB's rule that a failed transaction can only
be rolled back.

### OptimisticAppend

Knows only the versions of a table and, per client, the version it read, the files it
staged and whether it is over. A client stages files nobody else staged; they become
part of the table all at once, directly on top of the version it read, at most once,
and never after it is over. `DeltaTransactionRefinement` maps the log,
`entry`, `appended` and `phase` to these; storage, kernel handle and cleanup are gone.

### DeltaSchemaEntry

The attachment is chosen once in `Init`: plain, PIN_SNAPSHOT, VERSION or TIMESTAMP.
A lookup is a small state machine per transaction (`lookup[t].step`), cut where the
code takes or gives up the schema's lock: `BeginLookup` reads
`use_specific_version` without the lock; `FoundBound` and `BindTimestamp` read it again
with the lock; `ChooseVersion`, `ReuseTimestamp` and `ResolveTimestamp` settle the
version; `FindEntry`, `NoTable`, `ProvideCached` and `ProvideOwn` are the second critical
section. `ResolveFails` and `LookupFails` are the exceptions, with the snapshots that
were created before the throw left behind. `commits` holds the commit time of every version, which is what a
timestamp is resolved against; another writer may commit at any step.

### DeltaCreateTableAs

Storage at one path is `dirs`, `files` and `zero`, the log entry of version 0. `Init`
chooses whether the path is local, where directories exist and can be in the way, or an
object store, and what each statement is: a CREATE TABLE AS or COPY TO that runs at once
(`direct`), one that is prepared and then executed up to `MaxRuns` times (`prepared`), or
a CREATE TABLE without a query (`plain`). A statement's variables are the fields of
`DeltaCreateTableAsState` and of the create transaction; `phase` says how far its query
is. Nothing takes a lock, so every access to storage is a step of its own:
`EnsureTableDirectory` is `FindDirectory`, or `MissDirectory` followed by
`MakeDirectory`; the commit makes the log directory before it puts version 0;
`TryRemoveEmptyDirectory` lists (`ListEmpty`) before it removes (`RemoveDirectory`).
A query that did not commit ends in `CleanUp`: `KeepFiles` or `DecideToRemove`, then
`RemoveFiles` by the `write_uuid` in the names, then the directories, innermost first.
`CommitLies` is a commit that wrote version 0 and reports an error.

DuckDB's `RemoveDirectory` on a local file system is recursive. Between the listing and
the removal another creator can put something into the directory, and it is lost. The
history variable `overtaken` marks this race and the properties hold up to it;
`spoiled` marks statements whose `CleanUp` threw, which is only logged; `older` has the
statements that were planned when the present table directory was there already.

### DeltaMultiFileList

`shared` is the list of a catalog table (`DeltaTableEntry::snapshot`), bound and with its
snapshot, which `CreateFileList` hands to every scan. A scan's `plan` is the list filter
pushdown put into its bind data and `exec` the one `DynamicFilterPushdown` made for one
execution; `None` stands for the list before it. A list used by one scan only, as
`delta_scan` makes it, behaves as `shared` does with a single scan.

The methods that open, fill or count a list hold its lock while they do, so the module
gives each method as the set of lists that can be the result (`PushdownInternal` takes the
lock for the snapshot only; the filters and columns it reads before do not change once a
list is bound): `Opened`, `Advanced` and `Expanded` for calls
that return, `OpenFailures`, `AdvanceFailures` and `ExpandFailures` for calls that throw.
The actions are the calls of a scan: `GetCardinality`, `ComplexFilterPushdown` and
`DynamicFilterPushdown` with `ReportFilterPushdown`, `GetFile`. `VisitCallback` keeps the
order of the code: the file is listed first, then its deletion vector is fetched, then
its partition values are found; an error stops at the point it happens and the
rest of the batch is still visited. `Opened` keeps that `partition_ids` is never
emptied: a list whose `InitializeScan` failed after filling it can never be opened.
A filter is the set of files with rows for it, and the kernel may deliver any set of files
between those and all.

### KernelVisitors

One walk of the kernel over one tree, with the visitor the walk calls back. `v` is the
C++ object: the lists in flight by id, `next_id`, the error and the refused field. The
kernel's part (`stack`, `tree`) is external: it allocates the lists of a node (`Enter`),
visits its children into them and then the node itself (`LeaveExpression`, `LeaveField`),
in any order of roles. Every callback is an operator from visitor to visitor
(`VisitBinaryExpression`, `VisitStructPatchExpression`, `RefuseType`,
`ExtendRefusedPath`, ...), and it keeps the order in which the code takes lists, checks
their sizes, records errors and appends. `Finish` is the end of the walk, where the error
is thrown or the list of the result is returned. `first` is a ghost: the first problem of
the tree in walk order.

Nothing can be thrown through the kernel's frames, so a callback that throws or reads a
child that is not there ends in `result = "aborted"`. One callback can: `VisitLiteralMap`
never compares the number of keys with that of values before it builds `Value::MAP`,
and a refused key or value appends nothing. With fewer values than keys the walk ends
there. `Value::MAP` (external, `MayReject`) may also reject what it gets, as it does a NULL or
a duplicate key; with more values than keys it ignores the rest, unless it is a debug
build. `VisitStructLiteral` compares the two, and `HasChildren` guards the lists and maps of
a schema.

The two visitors treat errors differently and the model keeps that: the schema visitor's
`RecordError` keeps the first error, the expression visitor overwrites.

### DeltaColumnMapping

A column of the table has a logical name, and maybe a physical name and an id. Its data is
known by `of`, which no schema records. Actions are what changes the table: `Insert` by
this extension (with `AcceptsStatistics` for the copy's report against NOT NULL),
`OtherWriter` with each layout another engine may leave behind (by the protocol; with
physical names and no ids; legacy, with logical names), and another engine's `AddColumn`,
`RenameColumn`, `DropColumn` and `EnableNameMapping`. Reading changes nothing, so it is an
operator: `ReadColumn` follows `InitializeReader` and `ResolveFileWithoutFieldIds` for
stored columns, and `FindPartitionValues` over the kernel's transform for partition
columns. Column 1 is a map of lists: its entries have ids from the log (`nested_ids`) or
ones that `FillContainerChildIds` derives for reading and `FieldIdTree` keeps out of
what is written.

### FilterPushdown

Two halves that meet in the log. `AddWrittenFile` is a file the copy finished, with the
statistics it reported, which may lack bounds, counts or whole columns; `WriteMetaData`
turns the outstanding files into log entries through `ColumnStats` and
`CreateStatsValue`, into a buffer that has the shape of the first file's statistics; a file
that has no path in common with it throws (`Mismatch`). What reaches the log is `Logged`: the
kernel's log writer rounds the bounds of timestamps down to milliseconds
(`test/sql/main/writing/timestamp_stats_truncation.test`), so a value may lie above its
file's recorded maximum. `grain` says whether x is such a column, and `Millisecond` how
many of its units a millisecond has. On the reading
side `VisitPredicate`, `VisitFilterExpression`, `VisitSimple`
and `VisitConstantFilter` translate DuckDB's filters, with the two
ways a translation can stop: a filter that is dropped, and one that ends the
conjunction. `Refutes` is the kernel's data skipping, external: it is assumed to take the
maximum of a timestamp for the last value that rounds down to it, which the same test
shows by the file it keeps and the one it skips. The extension relies on it: it hands the
kernel constants in microseconds as they are. `Passes` and `Matches` are
the reference: what the filter means to DuckDB on one row, NULL included. The state
is three variables whose shape follows from two assignments, so there is no type invariant.

## 3. Runs

| Run | Checks | Shows |
|---|---|---|
| `transactions` | `TypeOK`, `AllOrNothing`, `CommitsOnPinnedSnapshot`, `CompareAndSwap`, `CommittedFilesExist`, `NoOrphans`, `CatalogOrdersCommits`, `ManagerEntries`, `CallbackHasItsEntries`, `ImplementsPromise`, `OnlyOwnFilesRemoved` | an idempotent writer by path, one through a catalog and another engine, with crashes, failing removals and ambiguous commits: a transaction's INSERTs are logged together, once, on top of the snapshot it read; a registered version is a compare-and-swap; no cleanup touches another transaction's files and failed transactions leave none; a table that becomes catalog-managed is no longer written by path; `DeltaTransaction` refines `OptimisticAppend` |
| `resolution` | `CommitResolves` | a requested commit comes to an end, next to a read-only transaction and another engine |
| `lookups` | `OneHistory`, `OnePinnedVersion`, `TimestampExact`, `BindsOnce` | reads by timestamp and of the latest version agree, whichever comes first; racing lookups pin one version |
| `versions` | `TypeOK`, `RepeatableRead`, `FreshSnapshot` | reads repeat; the shared snapshot is never an answer that is too old |
| `creators` | `TypeOK`, `TableKeepsItsFiles`, `LeavesNothing`, `SuccessIsTheTable`, `TouchesOnlyItsOwn`, `DirectoryThereBeforeStays` | two statements of any kind and another engine at one path: one of them makes the table; the others' cleanup removes what is theirs and nothing else, also after a commit that only seemed to fail |
| `scans` | `TypeOK`, `ScansAreExact`, `LogicallyConst` | a scan with filters and one without share a list while the table changes and one call fails: they read the files of their snapshot, each once, with deletion vector and partition values; filters lose no file |
| `visitors` | `TypeOK`, `ResultMirrorsTree`, `ThrowsExactlyWhenUnreadable`, `AbortsOnlyInMapLiterals`, `SchemaReportsFirstProblem` | every walk over a small expression or schema, with unsupported nodes and bad annotations anywhere: the visitor returns the kernel's tree, or throws after the walk exactly when a node cannot be read; only a map literal can end the process before that; the schema visitor names the first such field by its path |
| `columns` | `TypeOK`, `ReadsItsOwnColumn`, `ReadsItsOwnPartition`, `LenientReadsWholeFiles`, `ConstraintsFollowTheirColumn` | a file written in any mapping mode, by this extension or another engine, before and after the schema changes: a column reads its own data and partition value or NULL; NOT NULL holds for the column it was declared on |
| `pushdown` | `StatisticsDescribeTheirFile`, `NoMatchingRowLost` | statistics are true of their file, those of timestamps to a millisecond, however the files of a commit differ; no file with a row that passes the filters is left out |
| `refused_before_writing`, `log_never_dangles`, `scans_always_exact` | one property each | the disagreements of section 6 |

Each property of a passing run has a mutant in `PROJECT.json`: a plausible bug in one
mapped definition that makes TLC report the property violated.

**Bounds.** `MaxVersion = 3` leaves room for two commits after the table was created:
a transaction's own and one that gets in its way, before or after; a third adds no
new order between two writers. Two transactions race for one version, in `transactions` one by path
and one through a catalog, in `resolution` one of them read-only. Two files let a transaction
append twice, or each transaction hold a file of its own. One application with one
version distinguishes set from not set, and the other engine sets it too. In
`DeltaSchemaEntry`, two versions and two times separate before, at and after a
commit, and `MaxClauses = 2` lets a transaction read with any two of the AT clauses, each as
often as it likes. Named versions and timestamps are in separate runs, since the
properties relate each of them to the latest version only. File names are symmetric in `transactions`
(no definition tells them apart); the run with liveness uses no symmetry. In `DeltaCreateTableAs`, two statements of any two kinds, one
partition directory besides the table's and the log's, and `MaxRuns = 2` let each
statement fail and run again while the other is anywhere; behaviours are followed up to
the first `overtaken`, after which nothing is claimed. In `DeltaMultiFileList`, two
files make batches, orders and filters differ, one of them has deleted rows, and a second
version lacks a file or more rows; one column with two filters, one inside the other,
lets a later pass replace an earlier one with a weaker or a stronger one; one failure
(`MaxFailures`) is what it takes to damage a list, and `MaySkip` lets it cost files too.
In `KernelVisitors`, four nodes are enough for a node with a refused child and siblings on
both sides of it, for a list inside a list inside a struct, and for a struct patch with
something in two of its roles; five nodes add minutes and no new callback order.
In `DeltaColumnMapping`, three columns (the map of lists and two that may be partition
columns, one of them maybe NOT NULL) in three orders and one that is added later (`MaxColumns = 4`) let a name
be given up and taken again; one file at a time (`MaxFiles = 1`) is no restriction, since a
file is read by itself. In `FilterPushdown`, `MaxBatch = 2` lets the files of a commit
differ in what the copy reported; three values and NULL separate below, at and above a
bound, and with two units to a millisecond (`Millisecond = 2`) two of them share one, so a
value lies above its file's recorded maximum and a comparison lies between the two; and the filters are enumerated by kind: each comparison from either side, typed or
not, IS NULL, IS NOT NULL and expressions that cannot be translated, alone and under
AND and OR.

**Deadlock** is not checked: when all transactions have ended and the log is at its
bound the system rests, as the program does; so does a walk that is over.

**Fairness.** `FairSpec` has weak fairness on `CommitStep(t)` only. `CommitTransaction`
runs on the thread of the client that asked for it and holds no lock while the kernel
commits, so it continues whatever others do. Nothing is assumed about clients, other
engines or crashes.

## 4. Proofs

Every theorem holds for all values of the constants that satisfy the `ASSUME`s of its
module. The bounds that TLC needs are constants among them, so the results do not depend
on them.

| Module | Theorem | States |
|---|---|---|
| `DeltaTransactionProofs` | `TypeCorrect` | `Spec => []TypeOK` |
| | `Atomicity` | `Spec => []AllOrNothing` |
| | `SnapshotCommit` | `Spec => []CommitsOnPinnedSnapshot` |
| | `IdempotentWrites` | `Spec => []CompareAndSwap` |
| | `CatalogOrder` | `Spec => []CatalogOrdersCommits` |
| | `CleanFailure` | `Spec => []NoOrphans` |
| | `Durability` | `Spec => []CommittedFilesExist` |
| | `CallbackSafe` | `Spec => []CallbackHasItsEntries` |
| | `ManagerKeepsLive` | `Spec => []ManagerEntries` |
| | `RemovesOwnFiles` | `Spec => OnlyOwnFilesRemoved` |
| | `Refinement` | `Spec => ImplementsPromise` |
| `DeltaSchemaEntryProofs` | `TypeCorrect` | `Spec => []TypeOK` |
| | `ReadsRepeat` | `Spec => []RepeatableRead` |
| | `ReadsOneHistory` | `Spec => []OneHistory` |
| | `ReadsOnePin` | `Spec => []OnePinnedVersion` |
| | `ReadsAreFresh` | `Spec => []FreshSnapshot` |
| | `TimestampsExact` | `Spec => []TimestampExact` |
| | `TimestampBindsOnce` | `Spec => BindsOnce` |
| `DeltaCreateTableAsProofs` | `TypeCorrect` | `Spec => []TypeOK` |
| | `FilesStay` | `Spec => []TableKeepsItsFiles` |
| | `SuccessLasts` | `Spec => []SuccessIsTheTable` |
| | `NothingIsLeft` | `Spec => []LeavesNothing` |
| | `OthersStay` | `Spec => TouchesOnlyItsOwn` |
| | `DirectoryStays` | `Spec => DirectoryThereBeforeStays` |
| `DeltaMultiFileListProofs` | `TypeCorrect` | `Spec => []TypeOK` |
| | `ScansRead` | `Spec => []ScansAreExact` |
| | `TotalsCountTheTable` | `Spec => []TotalIsBeforeFilters` |
| | `CatalogOnlyGrows` | `Spec => LogicallyConst` |
| `DeltaColumnMappingProofs` | `TypeCorrect` | `Spec => []TypeOK` |
| | `ColumnsReadTheirOwn` | `Spec => []ReadsItsOwnColumn` |
| | `PartitionsReadTheirOwn` | `Spec => []ReadsItsOwnPartition` |
| | `WholeFilesOrNone` | `Spec => []LenientReadsWholeFiles` |
| | `ConstraintsHold` | `Spec => []ConstraintsFollowTheirColumn` |
| `FilterPushdownProofs` | `StatisticsAreTrue` | `Spec => []StatisticsDescribeTheirFile` |
| | `NoRowIsLost` | `Spec => []NoMatchingRowLost` |
| `KernelVisitorsProofs` | `TypeCorrect` | `Spec => []TypeOK` |
| | `MirrorsTheTree` | `Spec => []ResultMirrorsTree` |
| | `ThrowsForAReason` | `Spec => []ThrowsExactlyWhenUnreadable` |
| | `AbortsForAReason` | `Spec => []AbortsOnlyInMapLiterals` |
| | `ReportsTheFirst` | `Spec => []SchemaReportsFirstProblem` |
| | `CallbacksFindTheirLists` | `Spec => []ListsInFlight` |

**Assumptions.** Bounds are numbers, positive where the initial state needs room; roles,
named versions, filters and deleted rows are about the sets they are declared over. What
else the proofs need says that placeholders and names are not mistaken for one another:

* `DeltaTransaction`: `Other` is not a transaction and NULL is not a version;
* `DeltaCreateTableAs`: the table's and the log's directories differ and are no partition
  (`PlacesAssumption`), `Other` is neither a statement nor a place and `NoTable` is no
  version (`OthersAssumption`);
* `DeltaMultiFileList`: a table has finitely many files (`FilesAreFinite`), and `None`
  is neither filter, number nor list (`NoneAssumption`);
* `DeltaColumnMapping`: the physical names other engines draw are distinct, not empty and
  not logical names (`NamesAssumption`). They are UUIDs;
* `FilterPushdown`: values are finitely many, so a file that has values has bounds
  (`ValueAssumption`), and a millisecond has some units (`MillisecondAssumption`). That the
  kernel rounds recorded bounds down, and knows it when it skips files, is in the
  definitions `Logged` and `Refutes`; `NoRowIsLost` is true of a kernel that does both.

**DeltaTransaction.** None of the properties is inductive. `IInv` adds what the code
relies on between its steps:

* `EntriesInLog`: a pinned snapshot is one the log had, and the log never shrinks;
* `Ownership`: the files a statement or a transaction holds are files it wrote, so the
  files of two transactions are disjoint. This is why a cleanup cannot reach
  another transaction's files;
* `Bookkeeping`: while a transaction can still commit, the kernel's adds, the
  outstanding files and the history of appends are the same set, and the
  kernel's base is `table_entry`. `AppendStatFails` breaks the equality on its way to a
  phase from which there is no commit;
* `FilesKept`: files a transaction still has to decide about are on storage;
* `VersionsChecked`: between the check and the kernel commit, every registered
  application was compared with the pinned snapshot. Because the commit succeeds only
  directly on top of that snapshot, comparing with an old snapshot is sound;
* `LogShape`: a transaction that is logged is past its commit point, so it is not
  logged again and its registrations no longer change.

`StepIInv` shows that a step preserves each part, one step of the proof per
action; `LogFrame` carries what is said of existing log entries over an append.
`Refinement` maps every action to a step of `OptimisticAppend` or to a stutter. The kernel's
commit is the step that needs `Bookkeeping`: the version it appends to is the one the
client read, and the files it adds are the ones the client staged.

**DeltaSchemaEntry.** A lookup gives up the lock between choosing a version and finding
its snapshot, so the invariant says what a lookup halfway through still knows:
`LookupUnderway` (the version it looks for is what its clause stands for, whoever bound
the attachment's timestamp in the meantime), `ResolvedInHead` (a resolved timestamp is exact
in the history of the snapshot the transaction reads as latest, which is never replaced),
`ReadAnswers` (a read returned what its clause still stands for, so reading again
returns the same) and `SnapshotSinceStart` (for `FreshSnapshot`). `SnapshotsExist` and
`AttachmentVersion` tie the shared snapshot to the log and to the attachment's version.

**DeltaCreateTableAs.** The properties say when a cleanup removes something; the invariant
says why it may. `Own` relates a statement's phase to its flags and files, `Owner` says
where the statement that wrote version 0 can be: when it comes to remove files, version 0
names none, since `CleanUp` would have found one of its own and kept them. `FoundIt` is
about a directory that was there before. `Carried` and `Stays` follow the files that carry
a statement's `write_uuid` through copy, commit and removal. `Storage` and `ZeroFiles` say
that files are in directories that exist and that version 0 names files of one writer.

**DeltaMultiFileList.** `ListOK` is what is true of any list: each file of its version
is still pending, or was found once with what is true of it, or has no rows for the
filters. A list may only become one it grows into (`Grows`), which is what lets a scan
read a list that another scan is extending: `Progress` relates a scan's position to
its list and `OwnLists` its lists to the catalog's snapshot. `Counted` is the same for
the number `ReportFilterPushdown` shows. The proof first shows this of each method of
a list, then of the actions.

**DeltaColumnMapping.** Three things have to stay true together while names are given up
and taken again: no two columns of the schema share a name, a physical name or an id
(`Positions`, `MappedColumns`); a file's columns are found under exactly one column's key,
the name in an unmapped table and the physical name in a mapped one (`Keyed`,
`Identified`); and the log has the partition values under the kernel's name (`Partitioned`).
`EnableNameMapping` is the critical step: it takes every present name as the physical one, so files
written before keep their keys. A file without ids is `Unidentified` for good. For
partition columns, the values of one operation of the kernel's transform are a run of
consecutive positions (`Runs`) and the list inserts them right after the column the kernel
means (`InsertsAfter`), so the value at a column's position is its own.

**FilterPushdown.** `Recorded` says that the log has of a file what the copy reported of
it, rounded down where the log rounds (`Kept`), or nothing. `KeptBounds` follows what the
rounding leaves: no value below the minimum, none past the maximum by a millisecond. For the predicate, the argument follows the visitor: each translated
filter is passed by every row that passes the original, a dropped filter only weakens the
conjunction, and statistics that are true refute a test only if no row of the file passes
it. The overlapping arms of `CASE` that the first attempt at this proof turned up (TLC takes
the first one, the logic any) are exclusive now, here and in the other modules.

**KernelVisitors.** What a walk builds from a tree looks like an induction over the tree. It
is not one here: the tree and what the visitor made of each node (`built`) are in the
state node by node, so the invariant can say of every node that is closed what is final
about it, and of every open one how far the walk has come.

* `StackOK`: the lists of the open nodes are in flight, no two of them, and no two roles of
  one, have the same list, and each open node's siblings are in a list of the node around
  it. Ids are handed out once, so this survives everything, errors included; only a field
  patch without insertions has no list. `ListsInFlight` states it for the reader: the
  branches for a missing list are never taken.
* `Mirrors`, as long as there is no error: a list holds the children the kernel visited
  for its node, up to the one that is open now (`Filled`); every closed node is built as
  the tree has it (`Built`) and can be read; and every list in flight belongs to an open
  node, so that none is left at the end.
* `Justified`, once there is an error: the first problem is known, or a closed node
  cannot be read. The second is needed for the expression visitor, whose errors
  overwrite each other.
* `EntriesListed`, for expressions, also after an error: a list of a map literal holds the
  children the kernel visited for it, unless one of them is no literal the visitor can
  read. So lists that differ in length mean such a child (`ShortEntries`), and the process never
  ends over a map literal that can be read, unless `Value::MAP` rejects its entries.
* `Reports`, for the schema: the error is the first problem, or the part of its path that
  lies below some open node (`ReachesUpTo`). That part grows when the kernel leaves
  just that node, and at no other step, because the list the refusal is in identifies the
  node. At the root it is the whole path (`WholePath`).

The proof first shows of each callback that it builds its node from its own lists, or refuses
it (`ExpressionCallback`, `SchemaCallback`), then that what it refuses is what is unreadable
(`TopReadable`, `TopFull`), and then, action by action, that the walk keeps the
invariant. After an error the lists may be short. `StackOK` and `EntriesListed` are what is left to say
about them then: the guards of the other callbacks (`HasChildren`, the size checks) keep them
from reading what is not there, and of `VisitLiteralMap`, which has none,
`AbortsForAReason` says when it ends the process.

**Only model-checked.** Liveness (`CommitResolves`), which is out of the prover's reach.

**Only proved.** `ListsInFlight`, a part of the visitors' invariant, and
`TotalIsBeforeFilters`, a value the scans carry along.

## 5. Plan

1. `DeltaTransaction` with its abstract specification, refinement and proofs: done.
2. `DeltaSchemaEntry`, `DeltaCreateTableAs`, `DeltaMultiFileList`, `DeltaColumnMapping`,
   `FilterPushdown`, `KernelVisitors` with their proofs: done.
3. Composition of `DeltaTransaction` and `DeltaSchemaEntry`: the INSERT's lookup with its
   shared snapshot and the commit on the pinned one.

## 6. Disagreements between code and documentation

Each is a run expected to fail with a finding in `PROJECT.json` that quotes the line.

* `refused_before_writing`: a test says a path-based write to a catalog-managed table
  is refused before any data file is written. `InitializeTransaction` checks it
  in `Append`, after the copy. The statement fails and its files stay.
* `log_never_dangles`: a kernel commit that reports an error after its entry
  landed makes `HandleConflict` remove files that the log refers to.
  `DeltaCreateTableAsState::CleanUp` guards against this case for a table it creates;
  the INSERT path does not.
* `scans_always_exact`: tables with deletion vectors are supported, yet a scan that fails to
  fetch a vector leaves the file in the shared list without it, and the next scan of
  that list returns the deleted rows. Partition values get lost the same way and
  read as NULL. The run needs no loss in the kernel (`MaySkip = FALSE`).

Observations that no documentation contradicts: a transaction whose commit failed stays
in the manager's map for as long as the catalog is attached (`ManagerEntries` states
exactly when); PIN_SNAPSHOT pins at the first lookup rather than at ATTACH; a rollback
after the client is gone clears the list of files without removing them; a CREATE
TABLE whose commit fails leaves the directory it made; a list of a partitioned table whose
`InitializeScan` failed late refuses every later scan. `created_directory` of a
prepared statement survives the removal of the directory at the end of PREPARE, so an
EXECUTE that fails removes an empty directory that somebody else made in between; one
that was there before the statement was planned stays (`DirectoryThereBeforeStays`), as
`test/sql/main/writing/create_table_as.test` has it.

More of the same kind, which the properties state as exceptions or the models do not
reach:

* A registered version with an expected NULL can pass its check although the version was
  set, if reading it fails: `get_app_id_version` then leaves an `OptionalValue`
  uninitialised (`storage/delta_transaction.cpp:422`). `CompareAndSwap` excepts it.
* CHECKPOINT on a PIN_SNAPSHOT attachment leaves a latest snapshot in its transaction,
  which later lookups there prefer to the pinned one
  (`storage/delta_transaction_manager.cpp:66`). `LeftThePin` excepts it.
* A legacy file (logical names, no ids) of an id-mode table is read by the present logical
  names under the lenient policy. After a rename, or a drop and an addition under
  the same name, that can be another column's data; `LenientReadsWholeFiles` promises
  no more than that the file is covered as a whole.
* `VisitLiteralMap` ends the process over an interval, or a decimal that does not cast, among
  the keys or values of a map literal (`src/delta_utils.cpp:373`): it builds `Value::MAP` of
  lists of different lengths, in the kernel's `extern "C"` frames. The schema visitor's
  comment (`src/delta_utils.cpp:829`) gives the rule for a list or map whose child was
  refused: skip it and let the recorded refusal surface. `AbortsOnlyInMapLiterals` excepts it.
* The expression visitor keeps its last error, so the error of a parent that misses a
  child can replace the one that says what was unsupported.
* `contains_nan` of the copy's statistics is parsed (`storage/delta_insert.cpp:301`) and never read.
  Whether bounds of a file with NaN are recorded depends on the copy.

## 7. Not modelled

* The Delta kernel, object stores, DuckDB's planner, executor and Parquet
  copy: external, modelled by what the extension relies on.
* Formatting of log metadata and URIs, the text of statistics, width and range checks of
  single values, and the hash in partition directory names: conversions of one value
  that no modelled decision depends on.
* NaN, collations and the kernel's truncation of long string bounds. The rounding of
  timestamp bounds is modelled.
* Map literals nested in map literals, what `Value::MAP` checks of its entries (any map with
  a key may be rejected), and the range of the kernel's primitive types: the
  visitor treats all types of literals alike.
* The schema builder of CREATE TABLE, the kernel's logger callback, the smart pointers
  around kernel handles, secrets, macros, the table properties and the metadata table
  functions: pass-through, without state that outlives a call.
* The table entry: it builds the scan of a snapshot that `DeltaSchemaEntry` chose.
* The delete filter's arithmetic and the UTC cast of naive timestamps in the reader.
* Storage that loses or corrupts what it acknowledged, and a log that another engine
  vacuums or truncates.
