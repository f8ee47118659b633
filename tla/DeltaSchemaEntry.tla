-------------------------- MODULE DeltaSchemaEntry --------------------------
(***************************************************************************)
(* Which version of the table a read sees: DeltaSchemaEntry::LookupEntry   *)
(* (storage/delta_schema_entry.cpp), the snapshot it shares between        *)
(* transactions, the snapshots a DeltaTransaction keeps for itself, and    *)
(* CHECKPOINT (storage/delta_transaction_manager.cpp).                     *)
(*                                                                         *)
(* A lookup is several steps: it reads the attachment's version without    *)
(* the schema's lock, takes the lock to resolve a timestamp, gives it up,  *)
(* and takes it again to find or create a snapshot.  Other transactions    *)
(* look up, and other engines commit, in between.                          *)
(*                                                                         *)
(* Snapshot number n is the table after its first n commits, so Delta      *)
(* version 0 is number 1; 0 stands for INVALID_INDEX and for null.         *)
(***************************************************************************)
EXTENDS Naturals, Sequences, FiniteSets

CONSTANTS
    Txn,                \* the transactions that are ever started
    MaxVersion,         \* bound: the table has at most this many versions
    MaxTime,            \* bound: the clock stops here
    MaxClauses,         \* bound: a transaction reads with this many different AT clauses
    NamedVersion,       \* the versions AT clauses name
    AttachedVersion,    \* the VERSION option, where the attachment has one
    AttachedTimestamp   \* the TIMESTAMP option, where the attachment has one

ASSUME LookupBounds == MaxVersion \in Nat \ {0} /\ MaxTime \in Nat /\ MaxClauses \in Nat
ASSUME NamedVersions == NamedVersion \subseteq Nat \ {0}
ASSUME AttachedOptions == AttachedVersion \in Nat \ {0} /\ AttachedTimestamp \in Nat

VARIABLES
    attach,             \* how the table is attached
    commits,            \* the commit time of every version
    now,                \* the clock
    cached,             \* cached_table: the snapshot the schema shares, 0 if null
    useSpecificVersion, \* the catalog's use_specific_version, 0 if INVALID_INDEX
    begun,              \* the transactions that have begun
    started,            \* when a transaction started
    tableEntry,         \* table_entry of a transaction, 0 if null
    versioned,          \* the keys of versioned_table_entries
    resolved,           \* timestamp_versions, 0 where there is none
    lookup,             \* the lookup of a transaction: its step, AT clause and version
    reads,              \* history: what the lookups of a transaction returned
    headAtStart,        \* history: the latest version when a transaction started
    checkpointed        \* history: transactions that ran a CHECKPOINT

sharedVars == <<cached, useSpecificVersion>>
tableVars == <<commits, now>>
ownVars == <<tableEntry, versioned, resolved>>
pastVars == <<started, headAtStart>>
vars == <<attach, tableVars, sharedVars, begun, ownVars, lookup, reads, pastVars,
          checkpointed>>

----------------------------------------------------------------------------
\* No option, PIN_SNAPSHOT, VERSION or TIMESTAMP.
Attachments == {"latest", "pin", "version", "timestamp"}

Time == 0..MaxTime
Snapshot == 1..MaxVersion

\* DeltaTimeTravelSpec
Clause == [kind : {"latest"}, at : {0}]
            \cup [kind : {"version"}, at : NamedVersion]
            \cup [kind : {"timestamp"}, at : Time]
Latest == [kind |-> "latest", at |-> 0]

Lookup == [step : {"idle", "bind", "resolve", "find"}, clause : Clause,
           version : Nat]
Idle == [step |-> "idle", clause |-> Latest, version |-> 0]

Init ==
    /\ attach \in Attachments
    /\ commits = <<>>
    /\ now = 0
    /\ cached = 0
    /\ useSpecificVersion = IF attach = "version" THEN AttachedVersion ELSE 0
    /\ begun = {}
    /\ started = [t \in Txn |-> 0]
    /\ tableEntry = [t \in Txn |-> 0]
    /\ versioned = [t \in Txn |-> {}]
    /\ resolved = [t \in Txn |-> [ts \in Time |-> 0]]
    /\ lookup = [t \in Txn |-> Idle]
    /\ reads = [t \in Txn |-> {}]
    /\ headAtStart = [t \in Txn |-> 0]
    /\ checkpointed = {}

\* The version a snapshot of the latest version has; 0 where there is no table.
LatestVersion == Len(commits)

\* UseCachedSnapshot: PIN_SNAPSHOT sets use_cache, and so do VERSION and TIMESTAMP.
UseCachedSnapshot == attach # "latest"

Step(t) == lookup[t].step
Wanted(t) == lookup[t].version
AtTimestamp(t) == lookup[t].clause.kind = "timestamp"

GoTo(t, s) == lookup' = [lookup EXCEPT ![t].step = s]
Leave(t) == lookup' = [lookup EXCEPT ![t] = Idle]

----------------------------------------------------------------------------
(* The environment.                                                        *)

Tick ==
    /\ now < MaxTime
    /\ now' = now + 1
    /\ UNCHANGED <<attach, commits, sharedVars, begun, ownVars, lookup, reads,
                   pastVars, checkpointed>>

\* Any writer creates the table or commits to it.
SomeoneCommits ==
    /\ LatestVersion < MaxVersion
    /\ commits' = Append(commits, now)
    /\ UNCHANGED <<attach, now, sharedVars, begun, ownVars, lookup, reads, pastVars,
                   checkpointed>>

\* A transaction begins.  What it keeps for itself dies with it, so one that ended is
\* one that looks up nothing more.
StartTransaction(t) ==
    /\ t \notin begun
    /\ begun' = begun \cup {t}
    /\ started' = [started EXCEPT ![t] = now]
    /\ headAtStart' = [headAtStart EXCEPT ![t] = LatestVersion]
    /\ UNCHANGED <<attach, tableVars, sharedVars, ownVars, lookup, reads, checkpointed>>

----------------------------------------------------------------------------
(* The snapshots of a transaction.                                         *)

\* GetTableEntry: the snapshot the transaction already has for a version, 0 if none.
GetTableEntry(t, v) ==
    IF v = 0 THEN tableEntry[t]
    ELSE IF v \in versioned[t] \/ v = tableEntry[t] THEN v
    ELSE 0

\* Mutant of InitializeTableEntry: the latest snapshot is created but not kept.
InitializeTableEntryUnkept(t, v) ==
    /\ v <= LatestVersion /\ LatestVersion > 0
    /\ UNCHANGED tableEntry
    /\ versioned' = [versioned EXCEPT ![t] = IF v = 0 THEN @ ELSE @ \cup {v}]

\* InitializeTableEntry: the latest snapshot is created once, a versioned one on
\* demand.  The kernel refuses a version the table does not have.
InitializeTableEntry(t, v) ==
    /\ v <= LatestVersion /\ LatestVersion > 0
    /\ tableEntry' = [tableEntry EXCEPT ![t] = IF v = 0 /\ @ = 0 THEN LatestVersion ELSE @]
    /\ versioned' = [versioned EXCEPT ![t] = IF v = 0 THEN @ ELSE @ \cup {v}]

\* The version of the snapshot InitializeTableEntry returns.
Initialized(t, v) ==
    IF v # 0 THEN v ELSE IF tableEntry[t] # 0 THEN tableEntry[t] ELSE LatestVersion

\* The version of cached_table once it is created at a version.
Shared(v) == IF cached # 0 THEN cached ELSE IF v = 0 THEN LatestVersion ELSE v

\* Mutant of CachedTable: the snapshot is created for one lookup and not shared.
CachedTableUnshared(v) == UNCHANGED cached

\* Creates cached_table at a version unless it is there.
CachedTable(v) ==
    /\ v <= LatestVersion /\ LatestVersion > 0
    /\ cached' = Shared(v)

----------------------------------------------------------------------------
(* Time travel by timestamp.                                               *)

\* The last version among the first n that was committed by a time.
AsOf(n, ts) == CHOOSE v \in 1..n :
                   commits[v] <= ts /\ \A w \in 1..n : commits[w] <= ts => w <= v

\* The kernel finds a version unless the table is younger than the timestamp.
HasAsOf(n, ts) == \E v \in 1..n : commits[v] <= ts

\* Mutant of FutureTimestamp: nothing is rejected.
FutureAccepted(t, ts) == FALSE

\* DeltaRejectFutureTimestamp, where now() is the start of the transaction.
FutureTimestamp(t, ts) == ts > started[t]

\* Mutant of TransactionHead: the transaction does not keep the head it looked at.
TransactionHeadUnkept(t) ==
    /\ LatestVersion > 0
    /\ IF attach \in {"latest", "pin"} THEN CachedTable(0) ELSE UNCHANGED cached
    /\ UNCHANGED <<tableEntry, versioned>>

\* TransactionHead makes sure of the snapshot whose history timestamps search: the
\* pinned one of the attachment, or else the latest one of the transaction.
TransactionHead(t) ==
    /\ IF attach \in {"latest", "pin"} THEN CachedTable(0) ELSE UNCHANGED cached
    /\ IF attach = "pin" THEN UNCHANGED <<tableEntry, versioned>>
                         ELSE InitializeTableEntry(t, 0)

\* The version of the snapshot TransactionHead returns.
HeadVersion(t) ==
    IF attach = "pin" THEN Shared(0) ELSE Initialized(t, 0)

Resolvable(t, ts) == HasAsOf(HeadVersion(t), ts) /\ ~FutureTimestamp(t, ts)

----------------------------------------------------------------------------
(* LookupEntry.                                                            *)

\* DeltaCatalogAttach refuses a TIMESTAMP that is still to come.
Attached == attach = "timestamp" => AttachedTimestamp <= now

ClausesLeft(t) ==
    LET used == {r.clause : r \in reads[t]}
    IN  IF Cardinality(used) < MaxClauses THEN Clause ELSE used

\* A query names the table.  Whether an attached timestamp is still unbound is read
\* without the lock.
BeginLookup(t) ==
    /\ Attached
    /\ t \in begun
    /\ Step(t) = "idle"
    /\ \E c \in ClausesLeft(t) : lookup' = [lookup EXCEPT ![t] =
           [step |-> IF attach = "timestamp" /\ useSpecificVersion = 0 THEN "bind"
                                                                       ELSE "resolve",
            clause |-> c, version |-> 0]]
    /\ UNCHANGED <<attach, tableVars, sharedVars, begun, ownVars, reads, pastVars,
                   checkpointed>>

\* The lookup is about to resolve a timestamp under the lock.
Resolves(t) ==
    \/ Step(t) = "bind" /\ useSpecificVersion = 0
    \/ Step(t) = "resolve" /\ AtTimestamp(t) /\ resolved[t][lookup[t].clause.at] = 0

\* With the lock it is read again: another lookup bound the timestamp by now.
FoundBound(t) ==
    /\ Step(t) = "bind"
    /\ useSpecificVersion # 0
    /\ GoTo(t, "resolve")
    /\ UNCHANGED <<attach, tableVars, sharedVars, begun, ownVars, reads,
                   pastVars, checkpointed>>

\* Mutant of BindTimestamp: nothing is read again once the lock is held.
BindTimestampUnchecked(t) ==
    /\ Step(t) = "bind"
    /\ TransactionHead(t)
    /\ Resolvable(t, AttachedTimestamp)
    /\ useSpecificVersion' = AsOf(HeadVersion(t), AttachedTimestamp)
    /\ GoTo(t, "resolve")
    /\ UNCHANGED <<attach, tableVars, begun, resolved, reads, pastVars, checkpointed>>

\* An attached timestamp becomes an attached version.
BindTimestamp(t) ==
    /\ Step(t) = "bind" /\ Resolves(t)
    /\ TransactionHead(t)
    /\ Resolvable(t, AttachedTimestamp)
    /\ useSpecificVersion' = AsOf(HeadVersion(t), AttachedTimestamp)
    /\ GoTo(t, "resolve")
    /\ UNCHANGED <<attach, tableVars, begun, resolved, reads, pastVars,
                   checkpointed>>

Chosen(t, v) ==
    /\ lookup' = [lookup EXCEPT ![t].step = "find", ![t].version = v]
    /\ UNCHANGED <<attach, tableVars, useSpecificVersion, begun, reads, pastVars,
                   checkpointed>>

\* The version is the attachment's, or the AT clause overrides it.
ChooseVersion(t) ==
    /\ Step(t) = "resolve"
    /\ ~AtTimestamp(t)
    /\ Chosen(t, IF lookup[t].clause.kind = "version" THEN lookup[t].clause.at
                                                     ELSE useSpecificVersion)
    /\ UNCHANGED <<cached, ownVars>>

\* The transaction resolved this timestamp before.
ReuseTimestamp(t) ==
    /\ Step(t) = "resolve"
    /\ AtTimestamp(t)
    /\ resolved[t][lookup[t].clause.at] # 0
    /\ Chosen(t, resolved[t][lookup[t].clause.at])
    /\ UNCHANGED <<cached, ownVars>>

\* The timestamp is resolved under the lock and remembered.
ResolveTimestamp(t) ==
    LET ts == lookup[t].clause.at
        v == AsOf(HeadVersion(t), ts)
    IN  /\ Step(t) = "resolve" /\ Resolves(t)
        /\ TransactionHead(t)
        /\ Resolvable(t, ts)
        /\ resolved' = [resolved EXCEPT ![t] = [@ EXCEPT ![ts] = v]]
        /\ Chosen(t, v)

\* The timestamp is out of range, or searching for it fails: the lookup throws after
\* TransactionHead.
ResolveFails(t) ==
    /\ Resolves(t)
    /\ TransactionHead(t)
    /\ Leave(t)
    /\ UNCHANGED <<attach, tableVars, useSpecificVersion, begun, resolved, reads, pastVars,
                   checkpointed>>

\* The lookup returns an entry whose snapshot has this version.
Return(t, v) ==
    /\ Leave(t)
    /\ reads' = [reads EXCEPT ![t] = @ \cup {[clause |-> lookup[t].clause, version |-> v]}]
    /\ UNCHANGED <<attach, tableVars, useSpecificVersion, begun, resolved, pastVars,
                   checkpointed>>

\* The transaction has no snapshot of the version the lookup wants.
Misses(t) == Step(t) = "find" /\ GetTableEntry(t, Wanted(t)) = 0

\* The transaction has the snapshot already.
FindEntry(t) ==
    /\ Step(t) = "find"
    /\ GetTableEntry(t, Wanted(t)) # 0
    /\ Return(t, GetTableEntry(t, Wanted(t)))
    /\ UNCHANGED <<cached, tableEntry, versioned>>

\* Mutant of NoTable: an entry without a table is returned.
NoTableReturned(t) ==
    /\ Misses(t)
    /\ cached = 0 /\ LatestVersion = 0
    /\ Return(t, 0)
    /\ UNCHANGED <<cached, tableEntry, versioned>>

\* It has not, and GetCachedTable and DeltaTableExistsAt say there is no table: the lookup
\* returns null.  A table that is there stays, so what follows needs no step of its own.
NoTable(t) ==
    /\ Misses(t)
    /\ cached = 0 /\ LatestVersion = 0
    /\ Leave(t)
    /\ UNCHANGED <<attach, tableVars, sharedVars, begun, ownVars, reads, pastVars,
                   checkpointed>>

\* The attachment's own version comes from the snapshot all transactions share.
ProvideCached(t) ==
    /\ Misses(t)
    /\ UseCachedSnapshot /\ Wanted(t) = useSpecificVersion
    /\ CachedTable(Wanted(t))
    /\ Return(t, Shared(Wanted(t)))
    /\ UNCHANGED <<tableEntry, versioned>>

\* Mutant of ProvideOwn: the shared snapshot is returned instead of a fresh one.
ProvideStale(t) ==
    /\ Misses(t)
    /\ ~(UseCachedSnapshot /\ Wanted(t) = useSpecificVersion)
    /\ IF UseCachedSnapshot THEN UNCHANGED cached ELSE CachedTable(Wanted(t))
    /\ InitializeTableEntry(t, Wanted(t))
    /\ Return(t, IF Wanted(t) = 0 /\ cached # 0 THEN cached ELSE Initialized(t, Wanted(t)))

\* Any other version is the transaction's own.  Without a pinned snapshot the shared
\* one, created at whatever version is asked for first, is only a base to load from.
ProvideOwn(t) ==
    /\ Misses(t)
    /\ ~(UseCachedSnapshot /\ Wanted(t) = useSpecificVersion)
    /\ IF UseCachedSnapshot THEN UNCHANGED cached ELSE CachedTable(Wanted(t))
    /\ InitializeTableEntry(t, Wanted(t))
    /\ Return(t, Initialized(t, Wanted(t)))

\* Loading a snapshot fails: storage, or a version the table does not have.  The shared
\* snapshot may have been created before the transaction's own failed.
LookupFails(t) ==
    /\ Resolves(t) \/ Misses(t)
    /\ \/ UNCHANGED cached
       \/ ~UseCachedSnapshot /\ CachedTable(Wanted(t))
    /\ Leave(t)
    /\ UNCHANGED <<attach, tableVars, useSpecificVersion, begun, ownVars, reads, pastVars,
                   checkpointed>>

\* DeltaTransactionManager::Checkpoint takes its snapshot from the transaction.
Checkpoint(t) ==
    /\ Attached
    /\ t \in begun
    /\ Step(t) = "idle"
    /\ InitializeTableEntry(t, useSpecificVersion)
    /\ checkpointed' = checkpointed \cup {t}
    /\ UNCHANGED <<attach, tableVars, sharedVars, begun, resolved, lookup, reads,
                   pastVars>>

----------------------------------------------------------------------------
\* One step of the lookup a transaction has begun.
LookupStep(t) ==
    \/ FoundBound(t) \/ BindTimestamp(t)
    \/ ChooseVersion(t) \/ ReuseTimestamp(t) \/ ResolveTimestamp(t) \/ ResolveFails(t)
    \/ FindEntry(t) \/ NoTable(t) \/ ProvideCached(t) \/ ProvideOwn(t) \/ LookupFails(t)

Next ==
    \/ \E t \in Txn : \/ StartTransaction(t) \/ BeginLookup(t) \/ LookupStep(t)
                      \/ Checkpoint(t)
    \/ Tick
    \/ SomeoneCommits

Spec == Init /\ [][Next]_vars

----------------------------------------------------------------------------
(* Properties.                                                             *)

\* Every variable has the type its comment says.
TypeOK ==
    /\ attach \in Attachments
    /\ commits \in Seq(Time) /\ Len(commits) <= MaxVersion
    /\ now \in Time
    /\ cached \in 0..MaxVersion
    /\ useSpecificVersion \in Nat
    /\ begun \in SUBSET Txn
    /\ started \in [Txn -> Time]
    /\ tableEntry \in [Txn -> 0..MaxVersion]
    /\ versioned \in [Txn -> SUBSET Nat]
    /\ resolved \in [Txn -> [Time -> 0..MaxVersion]]
    /\ lookup \in [Txn -> Lookup]
    /\ reads \in [Txn -> SUBSET [clause : Clause, version : Snapshot]]
    /\ headAtStart \in [Txn -> 0..MaxVersion]
    /\ checkpointed \in SUBSET Txn

\* The one way a transaction gets at a latest version of its own on a PIN_SNAPSHOT
\* attachment.
LeftThePin(t) == attach = "pin" /\ t \in checkpointed

ReadsOf(t, kind) == {r \in reads[t] : r.clause.kind = kind}

\* A transaction that names the same version twice, the latest one, the one at a timestamp
\* or an attachment's own, gets the same snapshot however many commits and other lookups
\* came in between.
RepeatableRead ==
    \A t \in Txn : \A r, q \in reads[t] :
        r.clause = q.clause => r.version = q.version \/ LeftThePin(t)

\* The versions a transaction reads by timestamp and the one it reads as latest belong to
\* one history of the table, in whichever order it reads them.
OneHistory ==
    \A t \in Txn : \A r \in ReadsOf(t, "latest"), q \in ReadsOf(t, "timestamp") :
        \/ attach \in {"version", "timestamp"} \/ LeftThePin(t)
        \/ q.version = AsOf(r.version, q.clause.at)

\* Every transaction on a pinned attachment reads the same version by default, also when
\* their first lookups race to pin it.
OnePinnedVersion ==
    \A t, u \in Txn : \A r \in ReadsOf(t, "latest"), q \in ReadsOf(u, "latest") :
        attach = "latest" \/ LeftThePin(t) \/ LeftThePin(u) \/ r.version = q.version

\* Without a pinned snapshot a transaction never reads a table older than the one there
\* was when it started: the shared snapshot is a base to load from and not an answer.
FreshSnapshot ==
    \A t \in Txn : \A r \in ReadsOf(t, "latest") :
        attach = "latest" => r.version >= headAtStart[t]

\* A read by timestamp returns the version the table had then: a later commit is never
\* older than the timestamp.  A pinned snapshot only promises this of its own history.
TimestampExact ==
    \A t \in Txn : \A r \in ReadsOf(t, "timestamp") :
        /\ commits[r.version] <= r.clause.at
        /\ attach # "pin" /\ r.version < Len(commits) =>
              commits[r.version + 1] >= r.clause.at

\* An attached timestamp is bound to a version once, by whichever lookup gets there first.
BindsOnce ==
    [][useSpecificVersion # 0 => useSpecificVersion' = useSpecificVersion]_vars
============================================================================
