------------------------- MODULE DeltaMultiFileList -------------------------
(***************************************************************************)
(* Scans of a Delta table and the lists of data files they read from       *)
(* (functions/delta_scan/delta_multi_file_list.cpp and                     *)
(* delta_multi_file_reader.cpp).                                           *)
(*                                                                         *)
(* A list is opened late and filled lazily, as the kernel hands out its    *)
(* files in batches.  The list of a table in the catalog is shared by      *)
(* every scan of it, also after a scan failed; the list of a delta_scan    *)
(* is one that a single prepared statement shares with itself.  A filter   *)
(* makes a new list on the same snapshot, which belongs to its scan.  The  *)
(* methods that open, fill and count a list run under its lock, and the one *)
(* that filters takes it for the snapshot, the only thing it reads that can *)
(* change; so each is one step.                                            *)
(*                                                                         *)
(* A filter is known by the files that have rows for it, and a file by its *)
(* name, whether some of its rows are deleted, and its partition values.   *)
(***************************************************************************)
EXTENDS Naturals, Sequences, FiniteSets

CONSTANTS
    Scan,        \* the scans
    Filtered,    \* the scans of queries with filters
    File,        \* data files
    Deleted,     \* those of which rows are deleted from the start
    Col,         \* columns that can be filtered
    Filter,      \* filters: sets of files
    None,        \* no filter, no list, no number
    Pushdown,    \* pushdown_filters
    MaxVersion,  \* bound: versions of the table
    MaxFailures, \* bound: how often storage or the kernel fails
    MaySkip      \* whether the kernel goes on behind a batch it failed to deliver

Content == UNION {[live : {l}, deleted : SUBSET l] : l \in SUBSET File}
Modes == {"none", "all", "constant_only", "dynamic_only"}

ASSUME FilterAssumption == Filter \subseteq SUBSET File /\ Filtered \subseteq Scan
ASSUME DeletedAssumption == Deleted \subseteq File
ASSUME ListBounds == MaxVersion \in Nat \ {0} /\ MaxFailures \in Nat
ASSUME ListSettings == Pushdown \in Modes /\ MaySkip \in BOOLEAN

VARIABLES
    table,        \* the versions of the table: its files, and those with deleted rows
    partitioned,  \* whether it has partition columns
    report,       \* where ReportFilterPushdown goes
    shared,       \* the DeltaMultiFileList of the catalog
    scan,         \* the scans, with the lists they made
    failures      \* how many calls failed

settings == <<partitioned, report>>
vars == <<table, settings, shared, scan, failures>>

----------------------------------------------------------------------------
Filters == [Col -> Filter \cup {None}]
NoFilters == [c \in Col |-> None]

\* A file as a scan finds it, with its selection_vector and its partition_map.
Entry == [file : File, vector : BOOLEAN, values : BOOLEAN]

List == [version : 1..MaxVersion,    \* version, with its snapshot
         filters : Filters,          \* table_filters
         ready : BOOLEAN,            \* initialized_scan
         ids : BOOLEAN,              \* whether partition_ids was filled
         pending : SUBSET File,      \* what the kernel's iterator has left
         resolved : Seq(Entry),      \* resolved_files, with metadata
         exhausted : BOOLEAN,        \* files_exhausted
         damaged : BOOLEAN]          \* history: see Damages

Number == 0..Cardinality(File)

ASSUME FilesAreFinite == IsFiniteSet(File)
ASSUME NoneAssumption == None \notin Filter /\ None \notin Number /\ None \notin List

Scanning == [phase : {"new", "planning", "reading", "done", "failed"},
             plan : List \cup {None},  \* the list in the plan; None: the catalog's
             exec : List \cup {None},  \* the list of the execution; None: the plan's
             next : 1..Cardinality(File) + 1,
             wanted : SUBSET File,     \* history: files with rows for all filters in the
             needed : SUBSET File,     \* plan, and for those of this execution too
             total : Number \cup {None},     \* extra_info.total_files
             filtered : Number \cup {None}]  \* extra_info.filtered_files

NewList(v, filters) ==
    [version |-> v, filters |-> filters, ready |-> FALSE, ids |-> FALSE, pending |-> {},
     resolved |-> <<>>, exhausted |-> FALSE, damaged |-> FALSE]

Unbound ==
    [phase |-> "new", plan |-> None, exec |-> None, next |-> 1, wanted |-> File,
     needed |-> File, total |-> None, filtered |-> None]

Init ==
    /\ table = <<[live |-> File, deleted |-> Deleted]>>
    /\ partitioned \in BOOLEAN
    /\ report \in {"off", "explain", "log"}
    /\ shared = NewList(1, NoFilters)
    /\ scan = [s \in Scan |-> Unbound]
    /\ failures = 0

\* What a scan has to find of a file.
Truth(v, f) == [file |-> f, vector |-> f \in table[v].deleted, values |-> partitioned]

\* The files with rows for every filter.
Matching(filters) == {f \in File : \A c \in Col : filters[c] # None => f \in filters[c]}

Elements(q) == {q[i] : i \in DOMAIN q}

\* The orders in which some of the files can come.
Orders(files) == {q \in [1..Cardinality(files) -> files] : Elements(q) = files}
SomeOrders(files) == UNION {Orders(part) : part \in SUBSET files}

----------------------------------------------------------------------------
(* The methods of a list, as the set of lists one may be after a call that *)
(* returns, or after one that throws.                                      *)

\* The kernel's scan may skip a file without rows for the filters, and no other.
Kept(L) ==
    {k \in SUBSET table[L.version].live :
        /\ table[L.version].live \cap Matching(L.filters) \subseteq k
        /\ L.filters = NoFilters => k = table[L.version].live}

\* EnsureScanInitialized.  partition_ids is never emptied, and has to be as long as
\* partitions.
Opened(L) ==
    IF L.ready THEN {L}
    ELSE IF L.ids THEN {}
    ELSE {[L EXCEPT !.ready = TRUE, !.ids = partitioned, !.pending = k] :
             k \in Kept(L)}

\* ... which fails before or after it fills partition_ids.
OpenFailures(L) ==
    IF L.ready THEN {}
    ELSE {L, [L EXCEPT !.ids = partitioned]}

\* VisitCallback for one file: it is in resolved_files before its deletion vector is
\* fetched, which is before its partition values are found.
VisitCallback(L, f, fault) ==
    [Truth(L.version, f) EXCEPT
        !.vector = @ /\ fault # "vector",
        !.values = @ /\ fault = "none"]

\* Mutant of Visited: a batch is put in front of those before it.
VisitedInFront(L, q, fault) ==
    [L EXCEPT !.resolved = [i \in DOMAIN q |-> VisitCallback(L, q[i], fault[i])] \o @,
              !.pending = @ \ Elements(q)]

\* Mutant of Visited: the kernel's iterator stays where it was.
VisitedAgain(L, q, fault) ==
    [L EXCEPT !.resolved = @ \o [i \in DOMAIN q |-> VisitCallback(L, q[i], fault[i])]]

\* A batch is visited to its end, whatever happens to one of its files.
Visited(L, q, fault) ==
    [L EXCEPT !.resolved = @ \o [i \in DOMAIN q |-> VisitCallback(L, q[i], fault[i])],
              !.pending = @ \ Elements(q)]

Fine(q) == [i \in DOMAIN q |-> "none"]

\* GetFileInternal for the file after the last one: a batch comes, after any number of
\* empty ones, or the kernel has no more.
Advanced(L) ==
    IF L.exhausted THEN {L}
    ELSE {Visited(L, q, Fine(q)) : q \in SomeOrders(L.pending) \ {<<>>}}
            \cup (IF L.pending = {} THEN {[L EXCEPT !.exhausted = TRUE]} ELSE {})

\* A failure leaves a file without its deletion vector or its partition values, or makes
\* the kernel's iterator pass over files.
Damages(L, q, fault, lost) ==
    lost # {} \/ \E i \in DOMAIN q : VisitCallback(L, q[i], fault[i]) # Truth(L.version, q[i])

\* ... fails in a batch, of which the kernel may not deliver every file.
AdvanceFailures(L) ==
    IF L.exhausted THEN {}
    ELSE UNION {UNION {
            {[Visited(L, q, fault) EXCEPT
                 !.pending = @ \ lost,
                 !.damaged = @ \/ Damages(L, q, fault, lost)] :
                lost \in IF MaySkip THEN SUBSET (L.pending \ Elements(q)) ELSE {{}}} :
            fault \in [DOMAIN q -> {"none", "vector", "values"}]} :
         q \in SomeOrders(L.pending)}

\* GetTotalFileCount and GetAllFiles: every file there is.
Expanded(L) ==
    UNION {{[Visited(o, q, Fine(q)) EXCEPT !.exhausted = TRUE] :
               q \in IF o.exhausted THEN {<<>>} ELSE Orders(o.pending)} : o \in Opened(L)}

ExpandFailures(L) ==
    OpenFailures(L) \cup
    UNION {UNION {AdvanceFailures(Visited(o, q, Fine(q))) : q \in SomeOrders(o.pending)} :
              o \in Opened(L)}

\* Mutant of PushedDown: the list is opened again, at the latest version.
PushedDownAtHead(L, new) ==
    NewList(Len(table), [c \in Col |-> IF new[c] # None THEN new[c] ELSE L.filters[c]])

\* PushdownInternal: a list on the same snapshot.  A new filter takes the place of the one
\* its column had.
PushedDown(L, new) ==
    NewList(L.version, [c \in Col |-> IF new[c] # None THEN new[c] ELSE L.filters[c]])

----------------------------------------------------------------------------
(* Other writers.                                                          *)

\* Another engine commits a version without a file, or without some of its rows.
Commit ==
    /\ Len(table) < MaxVersion
    /\ LET last == table[Len(table)]
       IN  \E f \in last.live :
              \/ table' = Append(table, [live |-> last.live \ {f}, deleted |-> last.deleted \ {f}])
              \/ table' = Append(table, [last EXCEPT !.deleted = @ \cup {f}])
    /\ UNCHANGED <<settings, shared, scan, failures>>

----------------------------------------------------------------------------
(* A scan is bound and planned.                                            *)

\* CreateFileList hands out the catalog's list, which is bound.
CreateFileList(s) ==
    /\ scan[s].phase \in {"new", "done", "failed"}
    /\ scan' = [scan EXCEPT ![s] = [Unbound EXCEPT !.phase = "planning"]]
    /\ UNCHANGED <<table, settings, shared, failures>>

PlanList(s) == IF scan[s].plan = None THEN shared ELSE scan[s].plan
ReadList(s) == IF scan[s].exec = None THEN PlanList(s) ELSE scan[s].exec

\* What becomes of a scan and of the catalog's list when its list becomes L.
PlanListBecomes(s, L, rec) ==
    IF scan[s].plan = None
    THEN shared' = L /\ scan' = [scan EXCEPT ![s] = rec]
    ELSE scan' = [scan EXCEPT ![s] = [rec EXCEPT !.plan = L]] /\ UNCHANGED shared

ReadListBecomes(s, L, rec) ==
    IF scan[s].exec = None
    THEN PlanListBecomes(s, L, rec)
    ELSE scan' = [scan EXCEPT ![s] = [rec EXCEPT !.exec = L]] /\ UNCHANGED shared

\* A call on L fails: always, if L cannot be opened any more, or because something else
\* does.
Fail(L) ==
    \/ ~L.ready /\ L.ids /\ UNCHANGED failures
    \/ failures < MaxFailures /\ failures' = failures + 1

\* Planning fails; the client may ask again.
PlanningFails(s, L) ==
    /\ shared' = IF scan[s].plan = None THEN L ELSE shared
    /\ scan' = [scan EXCEPT ![s] = Unbound]

\* GetCardinality finds every file, under the lock, and then adds their records up.
GetCardinality(s) ==
    /\ scan[s].phase = "planning"
    /\ \E L \in Expanded(PlanList(s)) : PlanListBecomes(s, L, scan[s])
    /\ UNCHANGED <<table, settings, failures>>

GetCardinalityFails(s) ==
    /\ Fail(PlanList(s))
    /\ scan[s].phase = "planning"
    /\ \E L \in ExpandFailures(PlanList(s)) : PlanningFails(s, L)
    /\ UNCHANGED <<table, settings>>

NewFilters == Filters \ {NoFilters}

\* Filter pushdown may run several times for a query: the largest count before it is
\* reported, and the smallest after it.
TotalFiles(now, old) == IF now = None THEN old ELSE IF old > now THEN old ELSE now
FilteredFiles(now, new) == IF now = None THEN new ELSE IF new < now THEN new ELSE now

\* The filtered list takes the place of the one in the plan.
Pushed(s, n, new) == [scan[s] EXCEPT !.plan = n, !.wanted = @ \cap Matching(new)]

\* ComplexFilterPushdown with nothing to report, or with ReportFilterPushdown, which
\* counts the files of both lists.
ComplexFilterPushdown(s) ==
    /\ scan[s].phase = "planning" /\ s \in Filtered
    /\ Pushdown \in {"all", "constant_only"}
    /\ \E new \in NewFilters :
          LET n == PushedDown(PlanList(s), new)
          IN  \/ /\ report = "off"
                 /\ scan' = [scan EXCEPT ![s] = Pushed(s, n, new)]
                 /\ UNCHANGED shared
              \/ /\ report # "off"
                 /\ \E L \in Expanded(PlanList(s)), m \in Expanded(n) :
                       /\ shared' = IF scan[s].plan = None THEN L ELSE shared
                       /\ scan' = [scan EXCEPT ![s] =
                             IF report = "log" THEN Pushed(s, m, new)
                             ELSE [Pushed(s, m, new) EXCEPT
                                     !.total = TotalFiles(@, Len(L.resolved)),
                                     !.filtered = FilteredFiles(@, Len(m.resolved))]]
    /\ UNCHANGED <<table, settings, failures>>

\* ReportFilterPushdown throws when it counts the files of either list.
ReportFilterPushdownFails(s) ==
    /\ Fail(PlanList(s))
    /\ scan[s].phase = "planning" /\ s \in Filtered
    /\ Pushdown \in {"all", "constant_only"}
    /\ report # "off"
    /\ \E L \in ExpandFailures(PlanList(s)) \cup Expanded(PlanList(s)) : PlanningFails(s, L)
    /\ UNCHANGED <<table, settings>>

----------------------------------------------------------------------------
(* A plan is executed: once, or as often as a prepared statement is.       *)

Execute(s) ==
    /\ scan[s].phase \in {"planning", "done", "failed"}
    /\ scan' = [scan EXCEPT ![s].phase = "reading", ![s].exec = None, ![s].next = 1,
                            ![s].needed = scan[s].wanted]
    /\ UNCHANGED <<table, settings, shared, failures>>

\* The filters of an execution that the list has not got already
Unknown(L, new) == [c \in Col |-> IF new[c] = L.filters[c] THEN None ELSE new[c]]

\* DynamicFilterPushdown, before the first file is read.  Its report is only logged.
DynamicFilterPushdown(s) ==
    /\ s \in Filtered
    /\ scan[s].phase = "reading" /\ scan[s].next = 1 /\ scan[s].exec = None
    /\ Pushdown \in {"all", "dynamic_only"}
    /\ \E new \in NewFilters :
          LET unknown == Unknown(PlanList(s), new)
              n == PushedDown(PlanList(s), unknown)
          IN  /\ unknown # NoFilters
              /\ \E L \in IF report = "log" THEN Expanded(PlanList(s)) ELSE {PlanList(s)},
                    m \in IF report = "log" THEN Expanded(n) ELSE {n} :
                    PlanListBecomes(s, L,
                        [scan[s] EXCEPT !.exec = m, !.needed = @ \cap Matching(new)])
    /\ UNCHANGED <<table, settings, failures>>

\* What an execution had of its own is gone.
Failed(s) == [scan[s] EXCEPT !.phase = "failed", !.exec = None, !.next = 1, !.needed = File]

\* ReportFilterPushdown throws when it counts for the log.
DynamicFilterPushdownFails(s) ==
    /\ Fail(PlanList(s))
    /\ s \in Filtered
    /\ scan[s].phase = "reading" /\ scan[s].next = 1 /\ scan[s].exec = None
    /\ Pushdown \in {"all", "dynamic_only"}
    /\ report = "log"
    /\ \E L \in ExpandFailures(PlanList(s)) \cup Expanded(PlanList(s)) :
          PlanListBecomes(s, L, Failed(s))
    /\ UNCHANGED <<table, settings>>

\* GetFile, and FinalizeBind of a reader with the GetMetaData of that file.
GetFile(s) ==
    /\ scan[s].phase = "reading"
    /\ \E o \in Opened(ReadList(s)) :
          \E L \in IF scan[s].next <= Len(o.resolved) THEN {o} ELSE Advanced(o) :
              ReadListBecomes(s, L,
                  IF scan[s].next <= Len(L.resolved)
                  THEN [scan[s] EXCEPT !.next = @ + 1]
                  ELSE [scan[s] EXCEPT !.phase = "done"])
    /\ UNCHANGED <<table, settings, failures>>

\* GetFile throws, and with it the query.
GetFileFails(s) ==
    /\ Fail(ReadList(s))
    /\ scan[s].phase = "reading"
    /\ \E L \in OpenFailures(ReadList(s)) \cup
                 UNION {AdvanceFailures(o) : o \in {o \in Opened(ReadList(s)) :
                           scan[s].next > Len(o.resolved)}} :
          IF scan[s].exec = None
          THEN PlanListBecomes(s, L, Failed(s))
          ELSE scan' = [scan EXCEPT ![s] = Failed(s)] /\ UNCHANGED shared
    /\ UNCHANGED <<table, settings>>

Next ==
    \/ Commit
    \/ \E s \in Scan :
          \/ CreateFileList(s) \/ GetCardinality(s) \/ GetCardinalityFails(s)
          \/ ComplexFilterPushdown(s) \/ ReportFilterPushdownFails(s)
          \/ Execute(s) \/ DynamicFilterPushdown(s) \/ DynamicFilterPushdownFails(s)
          \/ GetFile(s) \/ GetFileFails(s)

Spec == Init /\ [][Next]_vars

----------------------------------------------------------------------------
(* Properties.                                                             *)

\* Every variable has the type its comment says.
TypeOK ==
    /\ table \in Seq(Content) /\ Len(table) \in 1..MaxVersion
    /\ partitioned \in BOOLEAN
    /\ report \in {"off", "explain", "log"}
    /\ shared \in List
    /\ scan \in [Scan -> Scanning]
    /\ failures \in 0..MaxFailures

\* What a scan has read so far
Got(s) == SubSeq(ReadList(s).resolved, 1, scan[s].next - 1)

\* A scan reads files of the version it was bound to, each once, with the deletion vector
\* and the partition values they have in that version; and when it is through, it has
\* read every file with rows for all its filters.
ReadsTheTable(s) ==
    LET got == Got(s)
        v == shared.version
    IN  /\ \A i \in DOMAIN got :
             /\ got[i].file \in table[v].live
             /\ got[i] = Truth(v, got[i].file)
             /\ \A j \in DOMAIN got : got[i].file = got[j].file => i = j
        /\ scan[s].phase = "done" =>
             table[v].live \cap scan[s].needed \subseteq {e.file : e \in Elements(got)}

\* Scans that share a list, make filtered ones and run again read the table, as long as
\* no call on their list failed halfway.
ScansAreExact ==
    \A s \in Scan : scan[s].phase \in {"reading", "done"} /\ ~ReadList(s).damaged =>
        ReadsTheTable(s)

\* The same of every scan, also one that comes after a failure, as README.md promises of
\* tables with deletion vectors.
ScansAreAlwaysExact ==
    \A s \in Scan : scan[s].phase \in {"reading", "done"} => ReadsTheTable(s)

\* The catalog's list is logically constant: whoever fills it, opens it or makes a list of
\* it, the files found so far keep their places and their metadata, and once it came to
\* its end it stays as it is.
LogicallyConst ==
    [][/\ shared'.version = shared.version /\ shared'.filters = shared.filters
       /\ Len(shared'.resolved) >= Len(shared.resolved)
       /\ SubSeq(shared'.resolved, 1, Len(shared.resolved)) = shared.resolved
       /\ shared.exhausted => shared' = shared]_vars

\* However often filter pushdown runs for a query, the count before it that EXPLAIN
\* reports is that of the table's files.
TotalIsBeforeFilters ==
    \A s \in Scan : scan[s].total # None /\ ~shared.damaged =>
        scan[s].total = Cardinality(table[shared.version].live)
============================================================================
