----------------------- MODULE DeltaSchemaEntryProofs -----------------------
(***************************************************************************)
(* Proofs about DeltaSchemaEntry, for any number of transactions, versions,*)
(* times and AT clauses and on every kind of attachment.                   *)
(***************************************************************************)
EXTENDS DeltaSchemaEntry, NaturalLemmas

\* Version v is the last of the first n that was committed by a time.
IsAsOf(n, ts, v) ==
    v \in 1..n /\ commits[v] <= ts /\ \A w \in 1..n : commits[w] <= ts => w <= v

\* The snapshot whose history a transaction searches for timestamps.
HeadOf(t) == IF attach = "pin" THEN cached ELSE tableEntry[t]

\* A snapshot is of a version the table has.
SnapshotsExist ==
    /\ cached <= LatestVersion
    /\ \A t \in Txn : tableEntry[t] <= LatestVersion /\ versioned[t] \subseteq 1..LatestVersion

\* The attachment's version, and what the shared snapshot can be on it.
AttachmentVersion ==
    /\ attach \in {"latest", "pin"} => useSpecificVersion = 0
    /\ attach = "version" => useSpecificVersion # 0
    /\ attach \in {"version", "timestamp"} => cached \in {0, useSpecificVersion}

\* A transaction that has not begun has nothing.
NothingBefore(t) ==
    t \notin begun => /\ tableEntry[t] = 0 /\ reads[t] = {} /\ Step(t) = "idle"
                      /\ \A ts \in Time : resolved[t][ts] = 0

\* On a pinned attachment only CHECKPOINT gives a transaction a latest snapshot.
OffThePin(t) == attach = "pin" /\ t \notin checkpointed => tableEntry[t] = 0

\* Where a lookup is.  Only an attached timestamp is bound, and once it resolves, that timestamp
\* is bound; what it looks for is what its clause stands for in this transaction.
LookupUnderway(t) ==
    /\ Step(t) = "bind" => attach = "timestamp"
    /\ Step(t) \in {"resolve", "find"} /\ attach = "timestamp" => useSpecificVersion # 0
    /\ Step(t) = "find" =>
         CASE lookup[t].clause.kind = "latest" -> Wanted(t) = useSpecificVersion
           [] lookup[t].clause.kind = "version" -> Wanted(t) = lookup[t].clause.at
           [] lookup[t].clause.kind = "timestamp" ->
                Wanted(t) = resolved[t][lookup[t].clause.at] /\ Wanted(t) # 0

\* A timestamp was resolved in the history of the head, and was past by then.
ResolvedAt(t, ts) ==
    ts <= started[t] /\ HeadOf(t) # 0 /\ IsAsOf(HeadOf(t), ts, resolved[t][ts])

ResolvedInHead(t) == \A ts \in Time : resolved[t][ts] # 0 => ResolvedAt(t, ts)

\* What a read returned is what its clause still stands for.
ReadAnswers(t, r) ==
    /\ r.clause.kind = "version" => r.version = r.clause.at
    /\ r.clause.kind = "timestamp" => r.version = resolved[t][r.clause.at]
    /\ r.clause.kind = "latest" =>
         CASE attach = "latest" -> r.version = tableEntry[t]
           [] attach = "pin" -> t \in checkpointed \/ r.version = cached
           [] OTHER -> r.version = useSpecificVersion

\* A transaction's own snapshot is no older than its start, and later commits are not
\* older than that either.
SnapshotSinceStart(t) ==
    /\ started[t] <= now
    /\ headAtStart[t] <= LatestVersion
    /\ tableEntry[t] # 0 => tableEntry[t] >= headAtStart[t]
    /\ tableEntry[t] # 0 /\ tableEntry[t] < LatestVersion =>
         commits[tableEntry[t] + 1] >= started[t]

TxnInv(t) ==
    /\ NothingBefore(t)
    /\ OffThePin(t)
    /\ LookupUnderway(t)
    /\ ResolvedInHead(t)
    /\ \A r \in reads[t] : ReadAnswers(t, r)
    /\ SnapshotSinceStart(t)

IInv ==
    /\ TypeOK
    /\ SnapshotsExist
    /\ AttachmentVersion
    /\ \A t \in Txn : TxnInv(t)

----------------------------------------------------------------------------
USE LookupBounds, NamedVersions, AttachedOptions

(* Searching the history for a timestamp.                                  *)

LEMMA AsOfFound ==
    ASSUME TypeOK, NEW n \in Nat, n <= LatestVersion, NEW ts \in Time, HasAsOf(n, ts)
    PROVE  IsAsOf(n, ts, AsOf(n, ts))
<1>. DEFINE early == {v \in 1..n : commits[v] <= ts}
<1>1. early \in SUBSET (0..n) /\ early # {}
  BY DEF HasAsOf
<1>2. PICK v \in early : \A w \in early : w <= v
  BY <1>1, GreatestNatural
<1>3. \E x \in 1..n : commits[x] <= ts /\ \A w \in 1..n : commits[w] <= ts => w <= x
  BY <1>2
<1>. QED
  BY <1>3 DEF AsOf, IsAsOf

LEMMA AsOfUnique ==
    ASSUME NEW n \in Nat, NEW ts \in Time, NEW v, IsAsOf(n, ts, v)
    PROVE  v = AsOf(n, ts)
<1>1. IsAsOf(n, ts, AsOf(n, ts))
  BY DEF AsOf, IsAsOf
<1>. QED
  BY <1>1 DEF IsAsOf

LEMMA ClauseType ==
    /\ \A c \in Clause : /\ c.kind \in {"latest", "version", "timestamp"}
                         /\ c.kind = "version" => c.at \in Nat \ {0}
                         /\ c.kind = "timestamp" => c.at \in Time
    /\ Latest \in Clause /\ Idle \in Lookup
  BY DEF Clause, Latest, Idle, Lookup

(* Opening snapshots.                                                      *)

LEMMA TransactionHeadStep ==
    ASSUME IInv, NEW t \in Txn, TransactionHead(t)
    PROVE  /\ LatestVersion \in Nat /\ LatestVersion > 0 /\ LatestVersion <= MaxVersion
           /\ HeadVersion(t) \in 1..LatestVersion
           /\ \/ cached' = cached
              \/ cached = 0 /\ cached' = LatestVersion /\ attach \in {"latest", "pin"}
           /\ attach = "pin" => cached' = HeadVersion(t) /\ tableEntry' = tableEntry
           /\ attach # "pin" => /\ tableEntry' = [tableEntry EXCEPT ![t] = HeadVersion(t)]
                                /\ \/ HeadVersion(t) = tableEntry[t]
                                   \/ tableEntry[t] = 0 /\ HeadVersion(t) = LatestVersion
           /\ versioned' = versioned
<1>. USE DEF IInv, TypeOK, SnapshotsExist, LatestVersion
<1>1. LatestVersion \in Nat /\ LatestVersion > 0 /\ LatestVersion <= MaxVersion
  BY DEF TransactionHead, CachedTable, InitializeTableEntry
<1>2. CASE attach = "pin"
  BY <1>1, <1>2 DEF TransactionHead, CachedTable, Shared, HeadVersion
<1>3. CASE attach # "pin"
  <2>1. /\ tableEntry' = [tableEntry EXCEPT ![t] = IF @ = 0 THEN LatestVersion ELSE @]
        /\ versioned' = [versioned EXCEPT ![t] = @]
        /\ cached' = IF attach = "latest" THEN Shared(0) ELSE cached
    BY <1>3 DEF TransactionHead, CachedTable, InitializeTableEntry, Attachments
  <2>2. HeadVersion(t) = IF tableEntry[t] # 0 THEN tableEntry[t] ELSE LatestVersion
    BY <1>3 DEF HeadVersion, Initialized
  <2>3. versioned' = versioned
    BY <2>1
  <2>4. \/ cached' = cached
        \/ cached = 0 /\ cached' = LatestVersion /\ attach \in {"latest", "pin"}
    BY <2>1 DEF Shared
  <2>5. tableEntry' = [tableEntry EXCEPT ![t] = HeadVersion(t)]
    BY <2>1, <2>2
  <2>6. tableEntry[t] \in 0..LatestVersion
    BY <1>1
  <2>. QED
    BY ONLY <1>1, <1>3, <2>2, <2>3, <2>4, <2>5, <2>6
<1>. QED
  BY <1>2, <1>3

LEMMA InitializeTableEntryStep ==
    ASSUME IInv, NEW t \in Txn, NEW v \in Nat, InitializeTableEntry(t, v)
    PROVE  /\ LatestVersion \in Nat /\ LatestVersion > 0 /\ LatestVersion <= MaxVersion
           /\ v <= LatestVersion
           /\ Initialized(t, v) \in 1..LatestVersion
           /\ v # 0 => Initialized(t, v) = v
           /\ v = 0 => Initialized(t, v) = tableEntry'[t]
           /\ \/ tableEntry'[t] = tableEntry[t]
              \/ v = 0 /\ tableEntry[t] = 0 /\ tableEntry'[t] = LatestVersion
           /\ \A u \in Txn \ {t} : tableEntry'[u] = tableEntry[u]
           /\ tableEntry' \in [Txn -> 0..MaxVersion]
           /\ versioned' \in [Txn -> SUBSET Nat]
           /\ \A u \in Txn : /\ tableEntry'[u] <= LatestVersion
                             /\ versioned'[u] \subseteq 1..LatestVersion
<1>1. /\ LatestVersion \in Nat /\ LatestVersion > 0 /\ LatestVersion <= MaxVersion
      /\ v <= LatestVersion
  BY DEF IInv, TypeOK, LatestVersion, InitializeTableEntry
<1>2. /\ tableEntry \in [Txn -> 0..MaxVersion] /\ versioned \in [Txn -> SUBSET Nat]
      /\ \A u \in Txn : tableEntry[u] \in 0..LatestVersion /\ versioned[u] \subseteq 1..LatestVersion
  BY <1>1 DEF IInv, TypeOK, SnapshotsExist
<1>3. /\ tableEntry' = [tableEntry EXCEPT ![t] = IF v = 0 /\ @ = 0 THEN LatestVersion ELSE @]
      /\ versioned' = [versioned EXCEPT ![t] = IF v = 0 THEN @ ELSE @ \cup {v}]
  BY DEF InitializeTableEntry
<1>4. /\ tableEntry'[t] = IF v = 0 /\ tableEntry[t] = 0 THEN LatestVersion ELSE tableEntry[t]
      /\ \A u \in Txn \ {t} : tableEntry'[u] = tableEntry[u]
  BY ONLY <1>2, <1>3, t \in Txn
<1>5. /\ versioned'[t] = IF v = 0 THEN versioned[t] ELSE versioned[t] \cup {v}
      /\ \A u \in Txn \ {t} : versioned'[u] = versioned[u]
  BY ONLY <1>2, <1>3, t \in Txn
<1>6. tableEntry' \in [Txn -> 0..MaxVersion]
  BY ONLY <1>1, <1>2, <1>3, t \in Txn
<1>7. versioned' \in [Txn -> SUBSET Nat]
  BY ONLY <1>2, <1>3, t \in Txn, v \in Nat
<1>8. ASSUME NEW u \in Txn
      PROVE  tableEntry'[u] <= LatestVersion /\ versioned'[u] \subseteq 1..LatestVersion
  <2>1. CASE u = t
    BY ONLY <1>1, <1>2, <1>4, <1>5, <2>1, t \in Txn, v \in Nat
  <2>2. CASE u # t
    BY ONLY <1>1, <1>2, <1>4, <1>5, <2>2, u \in Txn
  <2>. QED
    BY <2>1, <2>2
<1>9. /\ Initialized(t, v) = IF v # 0 THEN v ELSE tableEntry'[t]
      /\ Initialized(t, v) \in 1..LatestVersion
  <2>1. Initialized(t, v) =
          IF v # 0 THEN v ELSE IF tableEntry[t] # 0 THEN tableEntry[t] ELSE LatestVersion
    BY DEF Initialized
  <2>2. tableEntry[t] \in 0..LatestVersion
    BY <1>2
  <2>. QED
    BY ONLY <1>1, <1>4, <2>1, <2>2, v \in Nat
<1>. QED
  BY ONLY <1>1, <1>4, <1>6, <1>7, <1>8, <1>9

(* What a step of one transaction leaves of another.                       *)

SharedStep ==
    /\ attach' = attach /\ commits' = commits /\ now' = now
    /\ cached' = cached \/ cached = 0
    /\ \/ useSpecificVersion' = useSpecificVersion
       \/ useSpecificVersion = 0 /\ attach = "timestamp"

Untouched(u) ==
    /\ u \in begun' <=> u \in begun
    /\ started'[u] = started[u]
    /\ headAtStart'[u] = headAtStart[u]
    /\ tableEntry'[u] = tableEntry[u]
    /\ resolved'[u] = resolved[u]
    /\ lookup'[u] = lookup[u]
    /\ reads'[u] = reads[u]
    /\ u \in checkpointed' <=> u \in checkpointed

LEMMA UntouchedTxn ==
    ASSUME IInv, SharedStep, NEW u \in Txn, Untouched(u)
    PROVE  TxnInv(u)'
<1>. USE DEF SharedStep, Untouched, LatestVersion
<1>1. /\ TxnInv(u) /\ attach \in Attachments /\ lookup[u] \in Lookup
      /\ reads[u] \subseteq [clause : Clause, version : Snapshot]
  BY DEF IInv, TypeOK
<1>2. NothingBefore(u)' /\ OffThePin(u)' /\ SnapshotSinceStart(u)'
  BY <1>1 DEF TxnInv, NothingBefore, OffThePin, SnapshotSinceStart, Step
<1>3. LookupUnderway(u)'
  BY <1>1, ClauseType DEF TxnInv, LookupUnderway, Step, Wanted, Lookup
<1>4. ResolvedInHead(u)'
  BY <1>1 DEF TxnInv, ResolvedInHead, ResolvedAt, HeadOf, IsAsOf
<1>5. \A r \in reads'[u] : ReadAnswers(u, r)'
  <2>. SUFFICES ASSUME NEW r \in reads[u] PROVE ReadAnswers(u, r)'
    OBVIOUS
  <2>1. ReadAnswers(u, r) /\ r.version # 0
    BY <1>1 DEF TxnInv, Snapshot
  <2>. QED
    BY <1>1, <2>1 DEF ReadAnswers, Attachments
<1>. QED
  BY <1>2, <1>3, <1>4, <1>5 DEF TxnInv

(* What a step of a transaction leaves of what it had.                     *)

OwnStep(t) ==
    /\ SharedStep
    /\ begun' = begun /\ started' = started /\ headAtStart' = headAtStart
    /\ t \in begun
    /\ checkpointed \subseteq checkpointed'
    /\ \/ tableEntry'[t] = tableEntry[t]
       \/ /\ tableEntry[t] = 0 /\ tableEntry'[t] = LatestVersion /\ LatestVersion > 0
          /\ attach # "pin" \/ t \in checkpointed'
    /\ \A ts \in Time : resolved[t][ts] # 0 => resolved'[t][ts] = resolved[t][ts]

LEMMA OwnTxn ==
    ASSUME IInv, NEW t \in Txn, OwnStep(t)
    PROVE  /\ NothingBefore(t)' /\ OffThePin(t)' /\ SnapshotSinceStart(t)'
           /\ \A ts \in Time : resolved[t][ts] # 0 => ResolvedAt(t, ts)'
           /\ \A r \in reads[t] : ReadAnswers(t, r)'
<1>. USE DEF OwnStep, SharedStep
<1>1. /\ TxnInv(t) /\ attach \in Attachments
      /\ reads[t] \subseteq [clause : Clause, version : Snapshot]
      /\ LatestVersion \in Nat /\ headAtStart[t] \in Nat /\ tableEntry[t] \in Nat
  BY DEF IInv, TypeOK, LatestVersion
<1>2. NothingBefore(t)' /\ OffThePin(t)'
  BY <1>1 DEF TxnInv, NothingBefore, OffThePin
<1>3. SnapshotSinceStart(t)'
  BY <1>1 DEF TxnInv, SnapshotSinceStart, LatestVersion
<1>4. ASSUME NEW ts \in Time, resolved[t][ts] # 0 PROVE ResolvedAt(t, ts)'
  <2>1. ResolvedAt(t, ts)
    BY <1>1, <1>4 DEF TxnInv, ResolvedInHead
  <2>2. HeadOf(t)' = HeadOf(t)
    BY <2>1 DEF ResolvedAt, HeadOf
  <2>. QED
    BY <1>4, <2>1, <2>2 DEF ResolvedAt, IsAsOf
<1>5. ASSUME NEW r \in reads[t] PROVE ReadAnswers(t, r)'
  <2>1. /\ ReadAnswers(t, r) /\ r.version # 0
        /\ r.clause.kind = "timestamp" => r.clause.at \in Time
    BY <1>1, ClauseType DEF TxnInv, Snapshot
  <2>. QED
    BY <1>1, <2>1 DEF ReadAnswers, Attachments
<1>. QED
  BY <1>2, <1>3, <1>4, <1>5

\* The transaction's part of the invariant, for a step that adds nothing to its reads or
\* to the timestamps it resolved.
LEMMA OwnTxnKept ==
    ASSUME IInv, NEW t \in Txn, OwnStep(t), resolved' = resolved, reads' = reads,
           LookupUnderway(t)'
    PROVE  TxnInv(t)'
  BY OwnTxn DEF TxnInv, ResolvedInHead

(* A read that is about to return.                                         *)

LEMMA ReturnStep ==
    ASSUME IInv, NEW t \in Txn, NEW c, NEW v, c = lookup[t].clause, Return(t, v), OwnStep(t),
           ReadAnswers(t, [clause |-> c, version |-> v])'
    PROVE  TxnInv(t)'
<1>1. /\ resolved' = resolved /\ lookup'[t] = Idle
      /\ reads'[t] = reads[t] \cup {[clause |-> c, version |-> v]}
  BY DEF Return, Leave, IInv, TypeOK
<1>2. LookupUnderway(t)'
  BY <1>1 DEF LookupUnderway, Step, Idle
<1>3. ASSUME NEW r \in reads'[t] PROVE ReadAnswers(t, r)'
  <2>1. CASE r \in reads[t]
    BY <2>1, OwnTxn
  <2>2. CASE r = [clause |-> c, version |-> v]
    BY <2>2
  <2>. QED
    BY <1>1, <2>1, <2>2
<1>. QED
  BY <1>1, <1>2, <1>3, OwnTxn DEF TxnInv, ResolvedInHead

----------------------------------------------------------------------------
LEMMA InitIInv == Init => IInv
<1>. SUFFICES ASSUME Init PROVE IInv
  OBVIOUS
<1>1. TypeOK
  <2>1. Len(commits) = 0 /\ commits \in Seq(Time)
    BY DEF Init
  <2>. QED
    BY <2>1, ClauseType DEF Init, TypeOK, Time
<1>2. SnapshotsExist
  BY DEF Init, SnapshotsExist, LatestVersion
<1>3. AttachmentVersion
  BY DEF Init, AttachmentVersion
<1>4. ASSUME NEW t \in Txn PROVE TxnInv(t)
  <2>1. /\ tableEntry[t] = 0 /\ reads[t] = {} /\ lookup[t] = Idle
        /\ started[t] = 0 /\ now = 0 /\ headAtStart[t] = 0 /\ Len(commits) = 0
        /\ \A ts \in Time : resolved[t][ts] = 0
    BY DEF Init
  <2>. QED
    BY ONLY <2>1 DEF TxnInv, NothingBefore, OffThePin, LookupUnderway, ResolvedInHead,
         SnapshotSinceStart, Step, Idle, LatestVersion
<1>. QED
  BY <1>1, <1>2, <1>3, <1>4 DEF IInv

\* The clock and other writers: an old snapshot stays what it was, and a new commit is not
\* older than any transaction that has begun.
LEMMA EnvironmentIInv == ASSUME IInv, Tick \/ SomeoneCommits PROVE IInv'
<1>1. /\ UNCHANGED <<attach, sharedVars, begun, ownVars, lookup, reads, pastVars, checkpointed>>
      /\ now' \in Time /\ now <= now'
      /\ LatestVersion \in Nat /\ now \in Time
      /\ commits' \in Seq(Time) /\ Len(commits') <= MaxVersion
      /\ Len(commits) <= Len(commits')
      /\ \A i \in 1..Len(commits) : commits'[i] = commits[i]
      /\ \A i \in Len(commits) + 1..Len(commits') : commits'[i] = now
  <2>. commits \in Seq(Time) /\ Len(commits) <= MaxVersion /\ now \in Time /\ Len(commits) \in Nat
    BY DEF IInv, TypeOK
  <2>1. CASE Tick
    BY <2>1 DEF Tick, LatestVersion, Time
  <2>2. CASE SomeoneCommits
    <3>1. commits' = Append(commits, now) /\ Len(commits) < MaxVersion
      BY <2>2 DEF SomeoneCommits, LatestVersion
    <3>2. /\ commits' \in Seq(Time) /\ Len(commits') = Len(commits) + 1
          /\ \A i \in 1..Len(commits) : commits'[i] = commits[i]
          /\ commits'[Len(commits) + 1] = now
      BY <3>1
    <3>. QED
      BY <2>2, <3>1, <3>2 DEF SomeoneCommits, LatestVersion, Time
  <2>. QED
    BY <2>1, <2>2
<1>. USE DEF sharedVars, ownVars, pastVars
<1>2. TypeOK'
  BY <1>1 DEF IInv, TypeOK
<1>3. SnapshotsExist'
  BY <1>1 DEF IInv, SnapshotsExist, LatestVersion, TypeOK
<1>4. AttachmentVersion'
  BY <1>1 DEF IInv, AttachmentVersion
<1>5. ASSUME NEW t \in Txn PROVE TxnInv(t)'
  <2>1. TxnInv(t) /\ tableEntry[t] \in Nat /\ cached \in Nat /\ tableEntry[t] <= LatestVersion
        /\ cached <= LatestVersion /\ started[t] \in Time /\ headAtStart[t] \in Nat
    BY DEF IInv, TypeOK, SnapshotsExist
  <2>2. NothingBefore(t)' /\ OffThePin(t)' /\ LookupUnderway(t)'
    BY <1>1, <2>1 DEF TxnInv, NothingBefore, OffThePin, LookupUnderway, Step, Wanted
  <2>3. ResolvedInHead(t)'
    <3>1. HeadOf(t)' = HeadOf(t) /\ HeadOf(t) \in 0..Len(commits)
      BY <1>1, <2>1 DEF HeadOf, LatestVersion
    <3>2. \A i \in 1..HeadOf(t) : commits'[i] = commits[i]
      BY <1>1, <3>1
    <3>3. UNCHANGED <<resolved, started>>
      BY <1>1
    <3>. QED
      BY <2>1, <3>1, <3>2, <3>3 DEF TxnInv, ResolvedInHead, ResolvedAt, IsAsOf
  <2>4. \A r \in reads'[t] : ReadAnswers(t, r)'
    BY <1>1, <2>1 DEF TxnInv, ReadAnswers
  <2>5. SnapshotSinceStart(t)'
    <3>1. /\ started[t] <= now /\ headAtStart[t] <= Len(commits)
          /\ tableEntry[t] # 0 => tableEntry[t] >= headAtStart[t]
          /\ tableEntry[t] # 0 /\ tableEntry[t] < Len(commits) =>
               commits[tableEntry[t] + 1] >= started[t]
      BY <2>1 DEF TxnInv, SnapshotSinceStart, LatestVersion
    <3>2. tableEntry' = tableEntry /\ started' = started /\ headAtStart' = headAtStart
      BY <1>1
    <3>3. /\ tableEntry[t] \in Nat /\ Len(commits) \in Nat /\ Len(commits') \in Nat
          /\ now \in Nat /\ now' \in Nat /\ started[t] \in Nat
          /\ tableEntry[t] <= Len(commits)
      BY <1>1, <2>1 DEF Time, LatestVersion
    <3>4. ASSUME tableEntry[t] # 0, tableEntry[t] < Len(commits')
          PROVE  commits'[tableEntry[t] + 1] >= started[t]
      <4>1. CASE tableEntry[t] < Len(commits)
        BY <1>1, <3>1, <3>3, <3>4, <4>1
      <4>2. CASE tableEntry[t] = Len(commits)
        BY <1>1, <3>1, <3>3, <3>4, <4>2
      <4>. QED
        BY <3>3, <4>1, <4>2
    <3>. QED
      BY <1>1, <2>1, <3>1, <3>2, <3>3, <3>4 DEF SnapshotSinceStart, LatestVersion
  <2>. QED
    BY <2>2, <2>3, <2>4, <2>5 DEF TxnInv
<1>. QED
  BY <1>2, <1>3, <1>4, <1>5 DEF IInv

\* The step of a transaction: the other transactions keep their part.
LEMMA OneTxnStep ==
    ASSUME IInv, NEW t \in Txn, SharedStep, \A u \in Txn \ {t} : Untouched(u),
           TypeOK', SnapshotsExist', AttachmentVersion', TxnInv(t)'
    PROVE  IInv'
<1>1. ASSUME NEW u \in Txn PROVE TxnInv(u)'
  BY UntouchedTxn
<1>. QED
  BY <1>1 DEF IInv

LEMMA BeginIInv ==
    ASSUME IInv, NEW t \in Txn, StartTransaction(t) \/ BeginLookup(t)
    PROVE  IInv'
<1>. USE DEF sharedVars, tableVars, ownVars, pastVars
<1>. TypeOK /\ TxnInv(t) /\ LatestVersion \in 0..MaxVersion
  BY DEF IInv, TypeOK, LatestVersion
<1>1. CASE StartTransaction(t)
  <2>. USE <1>1 DEF StartTransaction
  <2>1. SharedStep /\ \A u \in Txn \ {t} : Untouched(u)
    BY DEF SharedStep, Untouched, TypeOK
  <2>2. TypeOK'
    BY DEF TypeOK
  <2>3. SnapshotsExist' /\ AttachmentVersion'
    BY DEF IInv, SnapshotsExist, AttachmentVersion, LatestVersion
  <2>4. TxnInv(t)'
    <3>1. /\ tableEntry'[t] = 0 /\ reads'[t] = {} /\ lookup'[t].step = "idle"
          /\ \A ts \in Time : resolved'[t][ts] = 0
          /\ started'[t] = now' /\ headAtStart'[t] = LatestVersion' /\ now' \in Nat
          /\ LatestVersion' \in Nat
      BY DEF TxnInv, NothingBefore, Step, TypeOK, LatestVersion, Time
    <3>. QED
      BY ONLY <3>1 DEF TxnInv, NothingBefore, OffThePin, LookupUnderway, ResolvedInHead,
                       SnapshotSinceStart, Step
  <2>. QED
    BY <2>1, <2>2, <2>3, <2>4, OneTxnStep
<1>2. CASE BeginLookup(t)
  <2>. USE <1>2
  <2>1. PICK c \in ClausesLeft(t) : lookup' = [lookup EXCEPT ![t] =
           [step |-> IF attach = "timestamp" /\ useSpecificVersion = 0 THEN "bind"
                                                                       ELSE "resolve",
            clause |-> c, version |-> 0]]
    BY DEF BeginLookup
  <2>2. c \in Clause
    BY DEF ClausesLeft, TypeOK
  <2>3. /\ UNCHANGED <<attach, tableVars, sharedVars, begun, ownVars, reads, pastVars,
                       checkpointed>>
        /\ t \in begun
    BY DEF BeginLookup
  <2>4. SharedStep /\ \A u \in Txn \ {t} : Untouched(u)
    BY <2>1, <2>3 DEF SharedStep, Untouched, TypeOK
  <2>5. TypeOK'
    BY <2>1, <2>2, <2>3 DEF TypeOK, Lookup
  <2>6. SnapshotsExist' /\ AttachmentVersion'
    BY <2>3 DEF IInv, SnapshotsExist, AttachmentVersion, LatestVersion
  <2>7. TxnInv(t)'
    <3>1. OwnStep(t)
      BY <2>3, <2>4 DEF OwnStep
    <3>2. LookupUnderway(t)'
      BY <2>1, <2>3 DEF LookupUnderway, Step, TypeOK
    <3>. QED
      BY <2>3, <3>1, <3>2, OwnTxnKept
  <2>. QED
    BY <2>4, <2>5, <2>6, <2>7, OneTxnStep
<1>. QED
  BY <1>1, <1>2

\* Steps of a lookup that open no snapshot and return nothing.
LEMMA ChooseIInv ==
    ASSUME IInv, NEW t \in Txn, FoundBound(t) \/ ChooseVersion(t) \/ ReuseTimestamp(t) \/ NoTable(t)
    PROVE  IInv'
<1>. USE DEF sharedVars, tableVars, ownVars, pastVars
<1>. TypeOK /\ TxnInv(t) /\ lookup[t] \in Lookup /\ lookup[t].clause \in Clause
  BY DEF IInv, TypeOK, Lookup
<1>1. /\ UNCHANGED <<attach, tableVars, sharedVars, begun, ownVars, reads, pastVars,
                     checkpointed>>
      /\ Step(t) # "idle"
  BY DEF FoundBound, ChooseVersion, ReuseTimestamp, NoTable, Chosen, Misses
<1>2. lookup' = [lookup EXCEPT ![t] = lookup'[t]] /\ lookup'[t] \in Lookup
  <2>1. CASE FoundBound(t)
    BY <2>1 DEF FoundBound, GoTo, TypeOK, Lookup
  <2>2. CASE ChooseVersion(t)
    BY <2>2, ClauseType DEF ChooseVersion, Chosen, TypeOK, Lookup
  <2>3. CASE ReuseTimestamp(t)
    <3>1. lookup[t].clause.at \in Time
      BY <2>3, ClauseType DEF ReuseTimestamp, AtTimestamp
    <3>2. resolved[t][lookup[t].clause.at] \in Nat
      BY <3>1 DEF TypeOK
    <3>. QED
      BY <2>3, <3>2 DEF ReuseTimestamp, Chosen, TypeOK, Lookup
  <2>4. CASE NoTable(t)
    BY <2>4, ClauseType DEF NoTable, Leave, TypeOK
  <2>. QED
    BY <2>1, <2>2, <2>3, <2>4
<1>3. SharedStep /\ \A u \in Txn \ {t} : Untouched(u)
  BY <1>1, <1>2 DEF SharedStep, Untouched, TypeOK
<1>4. TypeOK'
  BY <1>1, <1>2 DEF TypeOK
<1>5. SnapshotsExist' /\ AttachmentVersion'
  BY <1>1 DEF IInv, SnapshotsExist, AttachmentVersion, LatestVersion
<1>6. OwnStep(t)
  BY <1>1, <1>3 DEF OwnStep, TxnInv, NothingBefore
<1>7. LookupUnderway(t)'
  <2>1. CASE FoundBound(t)
    BY <1>1, <2>1 DEF FoundBound, GoTo, LookupUnderway, Step, TypeOK, Lookup
  <2>2. CASE ChooseVersion(t)
    BY <1>1, <2>2, ClauseType DEF ChooseVersion, Chosen, AtTimestamp, LookupUnderway, Step,
       Wanted, TypeOK, Lookup, TxnInv
  <2>3. CASE ReuseTimestamp(t)
    BY <1>1, <2>3 DEF ReuseTimestamp, Chosen, AtTimestamp, LookupUnderway, Step,
       Wanted, TypeOK, Lookup, TxnInv
  <2>4. CASE NoTable(t)
    BY <2>4 DEF NoTable, Leave, LookupUnderway, Step, Idle, TypeOK
  <2>. QED
    BY <2>1, <2>2, <2>3, <2>4
<1>8. TxnInv(t)'
  BY <1>1, <1>6, <1>7, OwnTxnKept
<1>. QED
  BY <1>3, <1>4, <1>5, <1>8, OneTxnStep

(* The steps that make sure of the transaction's head.                     *)

\* What they have in common: others keep what they had, and timestamps are searched for in
\* the head the transaction has from now on.
LEMMA HeadStep ==
    ASSUME IInv, NEW t \in Txn, TransactionHead(t), Step(t) # "idle",
           UNCHANGED <<attach, tableVars, begun, reads, pastVars, checkpointed>>,
           \/ useSpecificVersion' = useSpecificVersion
           \/ useSpecificVersion = 0 /\ attach = "timestamp",
           \A ts \in Time : resolved[t][ts] # 0 => resolved'[t][ts] = resolved[t][ts],
           \A u \in Txn \ {t} : lookup'[u] = lookup[u] /\ resolved'[u] = resolved[u]
    PROVE  /\ SharedStep /\ OwnStep(t) /\ \A u \in Txn \ {t} : Untouched(u)
           /\ SnapshotsExist'
           /\ cached' \in 0..MaxVersion /\ tableEntry' \in [Txn -> 0..MaxVersion]
           /\ versioned' = versioned
           /\ HeadOf(t)' = HeadVersion(t)
           /\ HeadVersion(t) \in 1..LatestVersion
           /\ attach \in {"version", "timestamp"} => cached' = cached
<1>. USE DEF tableVars, pastVars
<1>1. /\ LatestVersion \in Nat /\ LatestVersion > 0 /\ LatestVersion <= MaxVersion
      /\ HeadVersion(t) \in 1..LatestVersion
      /\ \/ cached' = cached
         \/ cached = 0 /\ cached' = LatestVersion /\ attach \in {"latest", "pin"}
      /\ attach = "pin" => cached' = HeadVersion(t) /\ tableEntry' = tableEntry
      /\ attach # "pin" => /\ tableEntry' = [tableEntry EXCEPT ![t] = HeadVersion(t)]
                           /\ \/ HeadVersion(t) = tableEntry[t]
                              \/ tableEntry[t] = 0 /\ HeadVersion(t) = LatestVersion
      /\ versioned' = versioned
  BY TransactionHeadStep
<1>2. /\ cached \in 0..MaxVersion /\ tableEntry \in [Txn -> 0..MaxVersion]
      /\ TxnInv(t) /\ SnapshotsExist /\ attach \in Attachments
  BY DEF IInv, TypeOK
<1>3. SharedStep
  BY <1>1 DEF SharedStep
<1>4. tableEntry' \in [Txn -> 0..MaxVersion] /\ cached' \in 0..MaxVersion
  BY <1>1, <1>2
<1>5. \A u \in Txn \ {t} : tableEntry'[u] = tableEntry[u]
  BY <1>1, <1>2
<1>6. \A u \in Txn \ {t} : Untouched(u)
  BY <1>5 DEF Untouched
<1>7. HeadOf(t)' = HeadVersion(t)
  BY <1>1, <1>2 DEF HeadOf
<1>8. OwnStep(t)
  <2>1. t \in begun
    BY <1>2 DEF TxnInv, NothingBefore
  <2>2. \/ tableEntry'[t] = tableEntry[t]
        \/ /\ tableEntry[t] = 0 /\ tableEntry'[t] = LatestVersion /\ LatestVersion > 0
           /\ attach # "pin"
    BY <1>1, <1>2
  <2>. QED
    BY <1>3, <2>1, <2>2 DEF OwnStep
<1>9. SnapshotsExist'
  <2>1. LatestVersion' = LatestVersion
    BY DEF LatestVersion
  <2>2. \A u \in Txn : tableEntry'[u] <= LatestVersion
    BY <1>1, <1>2 DEF SnapshotsExist
  <2>. QED
    BY <1>1, <1>2, <2>1, <2>2 DEF SnapshotsExist
<1>. QED
  BY <1>1, <1>3, <1>4, <1>6, <1>7, <1>8, <1>9

LEMMA BindIInv == ASSUME IInv, NEW t \in Txn, BindTimestamp(t) PROVE IInv'
<1>. USE DEF tableVars, pastVars
<1>1. /\ Step(t) = "bind" /\ useSpecificVersion = 0 /\ TransactionHead(t)
      /\ Resolvable(t, AttachedTimestamp)
      /\ useSpecificVersion' = AsOf(HeadVersion(t), AttachedTimestamp)
      /\ lookup' = [lookup EXCEPT ![t].step = "resolve"]
      /\ UNCHANGED <<attach, tableVars, begun, resolved, reads, pastVars, checkpointed>>
  BY DEF BindTimestamp, Resolves, GoTo
<1>2. TypeOK /\ TxnInv(t) /\ lookup \in [Txn -> Lookup] /\ attach = "timestamp"
  BY <1>1 DEF IInv, TypeOK, TxnInv, LookupUnderway
<1>3. /\ SharedStep /\ OwnStep(t) /\ \A u \in Txn \ {t} : Untouched(u)
      /\ SnapshotsExist'
      /\ cached' \in 0..MaxVersion /\ tableEntry' \in [Txn -> 0..MaxVersion]
      /\ versioned' = versioned
      /\ HeadVersion(t) \in 1..LatestVersion
      /\ cached' = cached
  BY <1>1, <1>2, HeadStep
<1>4. AttachedTimestamp \in Time
  BY <1>1, <1>2 DEF Resolvable, FutureTimestamp, TypeOK, Time
<1>5. useSpecificVersion' \in Nat \ {0}
  <2>1. HeadVersion(t) \in Nat /\ HeadVersion(t) <= LatestVersion /\ LatestVersion \in Nat
    BY <1>2, <1>3 DEF LatestVersion, TypeOK
  <2>2. useSpecificVersion' \in 1..HeadVersion(t)
    BY <1>1, <1>2, <1>4, <2>1, AsOfFound DEF Resolvable, IsAsOf
  <2>. QED
    BY <2>1, <2>2
<1>6. lookup' \in [Txn -> Lookup] /\ lookup'[t].step = "resolve"
  BY <1>1, <1>2 DEF Lookup
<1>7. TypeOK'
  BY <1>1, <1>2, <1>3, <1>5, <1>6 DEF TypeOK
<1>8. AttachmentVersion'
  BY <1>1, <1>2, <1>3 DEF IInv, AttachmentVersion
<1>9. LookupUnderway(t)'
  BY <1>1, <1>2, <1>3, <1>5, <1>6 DEF LookupUnderway, Step
<1>10. TxnInv(t)'
  BY <1>1, <1>3, <1>9, OwnTxnKept
<1>. QED
  BY <1>3, <1>7, <1>8, <1>10, OneTxnStep

LEMMA ResolveIInv == ASSUME IInv, NEW t \in Txn, ResolveTimestamp(t) PROVE IInv'
<1>. USE DEF tableVars, pastVars
<1>0. TypeOK /\ TxnInv(t) /\ lookup \in [Txn -> Lookup] /\ lookup[t].clause \in Clause
  BY DEF IInv, TypeOK, Lookup
<1>1. PICK ts, v : /\ ts = lookup[t].clause.at
                   /\ v = AsOf(HeadVersion(t), ts)
  OBVIOUS
<1>2. /\ Step(t) = "resolve" /\ AtTimestamp(t) /\ resolved[t][ts] = 0 /\ TransactionHead(t)
      /\ Resolvable(t, ts)
      /\ resolved' = [resolved EXCEPT ![t] = [@ EXCEPT ![ts] = v]]
      /\ lookup' = [lookup EXCEPT ![t].step = "find", ![t].version = v]
      /\ UNCHANGED <<attach, tableVars, useSpecificVersion, begun, reads, pastVars,
                     checkpointed>>
  BY <1>1 DEF ResolveTimestamp, Resolves, Chosen
<1>3. ts \in Time /\ lookup[t].clause.kind = "timestamp"
  BY <1>0, <1>1, <1>2, ClauseType DEF AtTimestamp
<1>4. /\ \A x \in Time : resolved[t][x] # 0 => resolved'[t][x] = resolved[t][x]
      /\ \A u \in Txn \ {t} : lookup'[u] = lookup[u] /\ resolved'[u] = resolved[u]
  BY <1>0, <1>2, <1>3 DEF TypeOK
<1>5. /\ SharedStep /\ OwnStep(t) /\ \A u \in Txn \ {t} : Untouched(u)
      /\ SnapshotsExist'
      /\ cached' \in 0..MaxVersion /\ tableEntry' \in [Txn -> 0..MaxVersion]
      /\ versioned' = versioned
      /\ HeadOf(t)' = HeadVersion(t)
      /\ HeadVersion(t) \in 1..LatestVersion
      /\ attach \in {"version", "timestamp"} => cached' = cached
  BY <1>2, <1>4, HeadStep
<1>6. LatestVersion \in Nat /\ LatestVersion <= MaxVersion /\ HeadVersion(t) \in Nat
  BY <1>0, <1>5 DEF LatestVersion, TypeOK
<1>7. IsAsOf(HeadVersion(t), ts, v) /\ ts <= started[t]
  <2>1. IsAsOf(HeadVersion(t), ts, v)
    BY <1>0, <1>1, <1>2, <1>3, <1>5, <1>6, AsOfFound DEF Resolvable
  <2>2. ts <= started[t]
    BY <1>0, <1>2, <1>3 DEF Resolvable, FutureTimestamp, TypeOK, Time
  <2>. QED
    BY <2>1, <2>2
<1>8. v \in 1..MaxVersion
  BY <1>5, <1>6, <1>7 DEF IsAsOf
<1>9. resolved' \in [Txn -> [Time -> 0..MaxVersion]] /\ resolved'[t][ts] = v
  BY <1>0, <1>2, <1>3, <1>8 DEF TypeOK
<1>10. /\ lookup' \in [Txn -> Lookup] /\ lookup'[t].step = "find" /\ lookup'[t].version = v
       /\ lookup'[t].clause = lookup[t].clause
  <2>1. lookup'[t] = [step |-> "find", clause |-> lookup[t].clause, version |-> v]
    BY <1>0, <1>2 DEF Lookup
  <2>2. v \in Nat
    BY <1>8
  <2>3. lookup'[t] \in Lookup
    BY <1>0, <2>1, <2>2 DEF Lookup
  <2>4. lookup' = [lookup EXCEPT ![t] = lookup'[t]]
    BY <1>0, <1>2
  <2>. QED
    BY <1>0, <2>1, <2>3, <2>4
<1>11. TypeOK'
  BY <1>0, <1>2, <1>5, <1>9, <1>10 DEF TypeOK
<1>12. AttachmentVersion'
  BY <1>2, <1>5 DEF IInv, AttachmentVersion
<1>13. LookupUnderway(t)'
  <2>1. attach = "timestamp" => useSpecificVersion # 0
    BY <1>0, <1>2 DEF TxnInv, LookupUnderway
  <2>2. /\ lookup'[t].clause.kind = "timestamp" /\ lookup'[t].clause.at = ts
        /\ lookup'[t].version = resolved'[t][ts] /\ lookup'[t].version # 0
    BY <1>1, <1>3, <1>8, <1>9, <1>10
  <2>. QED
    BY <1>2, <1>10, <2>1, <2>2 DEF LookupUnderway, Step, Wanted
<1>14. ResolvedInHead(t)'
  <2>1. ResolvedAt(t, ts)'
    BY <1>2, <1>5, <1>7, <1>9 DEF ResolvedAt, IsAsOf
  <2>2. ASSUME NEW x \in Time, x # ts, resolved'[t][x] # 0 PROVE ResolvedAt(t, x)'
    <3>1. resolved[t][x] # 0
      BY <1>0, <1>2, <2>2 DEF TypeOK
    <3>. QED
      BY <1>5, <3>1, OwnTxn
  <2>. QED
    BY <2>1, <2>2 DEF ResolvedInHead
<1>15. TxnInv(t)'
  BY <1>2, <1>5, <1>13, <1>14, OwnTxn DEF TxnInv
<1>. QED
  BY <1>5, <1>11, <1>12, <1>15, OneTxnStep

\* The lookup throws: what the transaction has by then stays.
LEMMA FailureIInv ==
    ASSUME IInv, NEW t \in Txn, ResolveFails(t) \/ LookupFails(t)
    PROVE  IInv'
<1>. USE DEF tableVars, pastVars, ownVars
<1>1. TypeOK /\ TxnInv(t) /\ lookup \in [Txn -> Lookup] /\ SnapshotsExist /\ AttachmentVersion
  BY DEF IInv, TypeOK
<1>2. /\ lookup' = [lookup EXCEPT ![t] = Idle] /\ Step(t) # "idle"
      /\ UNCHANGED <<attach, tableVars, useSpecificVersion, begun, resolved, reads, pastVars,
                     checkpointed>>
  BY DEF ResolveFails, LookupFails, Leave, Resolves, Misses
<1>3. /\ SharedStep /\ OwnStep(t) /\ \A u \in Txn \ {t} : Untouched(u)
      /\ SnapshotsExist'
      /\ cached' \in 0..MaxVersion /\ tableEntry' \in [Txn -> 0..MaxVersion]
      /\ versioned' = versioned
      /\ attach \in {"version", "timestamp"} => cached' = cached
  <2>0. \A u \in Txn \ {t} : lookup'[u] = lookup[u]
    BY <1>1, <1>2
  <2>1. CASE ResolveFails(t)
    BY <1>2, <2>0, <2>1, HeadStep DEF ResolveFails
  <2>2. CASE LookupFails(t)
    <3>1. UNCHANGED <<tableEntry, versioned>>
      BY <2>2 DEF LookupFails
    <3>2. Wanted(t) \in Nat /\ LatestVersion \in Nat /\ LatestVersion <= MaxVersion
      BY <1>1 DEF Wanted, Lookup, LatestVersion, TypeOK
    <3>3. \/ cached' = cached
          \/ cached = 0 /\ cached' \in 0..LatestVersion /\ attach = "latest"
      BY <2>2, <3>2 DEF LookupFails, CachedTable, Shared, UseCachedSnapshot
    <3>4. SharedStep
      BY <1>2, <3>3 DEF SharedStep
    <3>5. \A u \in Txn \ {t} : Untouched(u)
      BY <1>2, <2>0, <3>1 DEF Untouched
    <3>6. OwnStep(t)
      BY <1>1, <1>2, <3>1, <3>4 DEF OwnStep, TxnInv, NothingBefore
    <3>7. cached' \in 0..MaxVersion /\ tableEntry' \in [Txn -> 0..MaxVersion]
      BY <1>1, <3>1, <3>2, <3>3 DEF TypeOK
    <3>8. LatestVersion' = LatestVersion
      BY <1>2 DEF LatestVersion
    <3>9. SnapshotsExist'
      BY <1>1, <3>1, <3>2, <3>3, <3>8 DEF SnapshotsExist
    <3>. QED
      BY <3>1, <3>3, <3>4, <3>5, <3>6, <3>7, <3>9
  <2>. QED
    BY <2>1, <2>2
<1>4. TypeOK'
  BY <1>1, <1>2, <1>3, ClauseType DEF TypeOK
<1>5. AttachmentVersion'
  BY <1>1, <1>2, <1>3 DEF AttachmentVersion
<1>6. LookupUnderway(t)'
  BY <1>1, <1>2 DEF LookupUnderway, Step, Idle
<1>7. TxnInv(t)'
  BY <1>2, <1>3, <1>6, OwnTxnKept
<1>. QED
  BY <1>3, <1>4, <1>5, <1>7, OneTxnStep

(* The steps that find or open the snapshot a lookup wants.                *)

LEMMA FindIInv == ASSUME IInv, NEW t \in Txn, FindEntry(t) PROVE IInv'
<1>. USE DEF tableVars, pastVars
<1>1. PICK c, v : c = lookup[t].clause /\ v = GetTableEntry(t, Wanted(t))
  OBVIOUS
<1>2. /\ Step(t) = "find" /\ v # 0 /\ Return(t, v)
      /\ lookup' = [lookup EXCEPT ![t] = Idle]
      /\ reads' = [reads EXCEPT ![t] = @ \cup {[clause |-> c, version |-> v]}]
      /\ UNCHANGED <<attach, tableVars, cached, useSpecificVersion, begun, tableEntry,
                     versioned, resolved, pastVars, checkpointed>>
  BY <1>1 DEF FindEntry, Return, Leave
<1>3. /\ TypeOK /\ TxnInv(t) /\ SnapshotsExist /\ AttachmentVersion
      /\ lookup[t] \in Lookup /\ c \in Clause /\ Wanted(t) \in Nat
  BY <1>1 DEF IInv, TypeOK, Lookup, Wanted
<1>4. v \in Snapshot /\ v = IF Wanted(t) = 0 THEN tableEntry[t] ELSE Wanted(t)
  <2>1. v = IF Wanted(t) = 0 THEN tableEntry[t] ELSE Wanted(t)
    BY <1>1, <1>2 DEF GetTableEntry
  <2>2. /\ tableEntry[t] \in 0..MaxVersion /\ versioned[t] \subseteq 1..LatestVersion
        /\ LatestVersion \in Nat /\ LatestVersion <= MaxVersion
    BY <1>3 DEF TypeOK, SnapshotsExist, LatestVersion
  <2>3. v \in Snapshot
    BY <1>1, <1>2, <2>2 DEF GetTableEntry, Snapshot
  <2>. QED
    BY <2>1, <2>3
<1>5. SharedStep /\ OwnStep(t) /\ \A u \in Txn \ {t} : Untouched(u)
  <2>1. SharedStep
    BY <1>2 DEF SharedStep
  <2>2. OwnStep(t)
    BY <1>2, <1>3, <2>1 DEF OwnStep, TxnInv, NothingBefore
  <2>3. \A u \in Txn \ {t} : Untouched(u)
    BY <1>2, <1>3 DEF Untouched, TypeOK
  <2>. QED
    BY <2>1, <2>2, <2>3
<1>6. TypeOK'
  <2>1. reads' \in [Txn -> SUBSET [clause : Clause, version : Snapshot]]
    BY <1>2, <1>3, <1>4 DEF TypeOK
  <2>. QED
    BY <1>2, <1>3, <2>1, ClauseType DEF TypeOK
<1>7. SnapshotsExist' /\ AttachmentVersion'
  BY <1>2, <1>3 DEF SnapshotsExist, AttachmentVersion, LatestVersion
<1>8. ReadAnswers(t, [clause |-> c, version |-> v])'
  <2>1. CASE c.kind = "latest"
    <3>1. Wanted(t) = useSpecificVersion
      BY <1>1, <1>2, <1>3, <2>1 DEF TxnInv, LookupUnderway
    <3>2. CASE attach \in {"latest", "pin"}
      BY <1>2, <1>3, <1>4, <2>1, <3>1, <3>2 DEF AttachmentVersion, ReadAnswers, TxnInv, OffThePin
    <3>3. CASE attach \in {"version", "timestamp"}
      <4>1. useSpecificVersion # 0
        BY <1>2, <1>3, <3>3 DEF AttachmentVersion, TxnInv, LookupUnderway
      <4>. QED
        BY <1>2, <1>4, <2>1, <3>1, <3>3, <4>1 DEF ReadAnswers
    <3>. QED
      BY <1>3, <3>2, <3>3 DEF TypeOK, Attachments
  <2>2. CASE c.kind = "version"
    <3>1. Wanted(t) = c.at /\ c.at # 0
      BY <1>1, <1>2, <1>3, <2>2, ClauseType DEF TxnInv, LookupUnderway
    <3>. QED
      BY <1>4, <2>2, <3>1 DEF ReadAnswers
  <2>3. CASE c.kind = "timestamp"
    <3>1. Wanted(t) = resolved[t][c.at] /\ Wanted(t) # 0
      BY <1>1, <1>2, <1>3, <2>3 DEF TxnInv, LookupUnderway
    <3>. QED
      BY <1>2, <1>4, <2>3, <3>1 DEF ReadAnswers
  <2>. QED
    BY <1>3, <2>1, <2>2, <2>3, ClauseType
<1>9. TxnInv(t)'
  BY <1>1, <1>2, <1>5, <1>8, ReturnStep
<1>. QED
  BY <1>5, <1>6, <1>7, <1>9, OneTxnStep

\* The attachment's own version: whoever comes first opens the shared snapshot, and it is
\* of the attachment's version wherever that is given.
LEMMA ProvideCachedIInv == ASSUME IInv, NEW t \in Txn, ProvideCached(t) PROVE IInv'
<1>. USE DEF tableVars, pastVars
<1>1. PICK c, v : c = lookup[t].clause /\ v = Shared(Wanted(t))
  OBVIOUS
<1>2. /\ Step(t) = "find" /\ attach # "latest" /\ Wanted(t) = useSpecificVersion
      /\ CachedTable(Wanted(t)) /\ Return(t, v) /\ cached' = v
      /\ lookup' = [lookup EXCEPT ![t] = Idle]
      /\ reads' = [reads EXCEPT ![t] = @ \cup {[clause |-> c, version |-> v]}]
      /\ UNCHANGED <<attach, tableVars, useSpecificVersion, begun, tableEntry,
                     versioned, resolved, pastVars, checkpointed>>
  BY <1>1 DEF ProvideCached, Return, Leave, Misses, UseCachedSnapshot, CachedTable
<1>3. /\ TypeOK /\ TxnInv(t) /\ SnapshotsExist /\ AttachmentVersion
      /\ lookup[t] \in Lookup /\ c \in Clause /\ Wanted(t) \in Nat
      /\ LatestVersion \in Nat /\ LatestVersion <= MaxVersion
  BY <1>1 DEF IInv, TypeOK, Lookup, Wanted, LatestVersion
<1>4. v \in 1..LatestVersion /\ (cached # 0 => v = cached)
  BY <1>1, <1>2, <1>3 DEF CachedTable, Shared, SnapshotsExist, TypeOK
<1>5. attach # "pin" => v = useSpecificVersion /\ useSpecificVersion # 0
  <2>. SUFFICES ASSUME attach # "pin" PROVE v = useSpecificVersion /\ useSpecificVersion # 0
    OBVIOUS
  <2>1. attach \in {"version", "timestamp"}
    BY <1>2, <1>3 DEF TypeOK, Attachments
  <2>2. useSpecificVersion # 0 /\ cached \in {0, useSpecificVersion}
    BY <1>2, <1>3, <2>1 DEF AttachmentVersion, TxnInv, LookupUnderway
  <2>. QED
    BY <1>1, <1>2, <2>2 DEF Shared
<1>6. SharedStep /\ OwnStep(t) /\ \A u \in Txn \ {t} : Untouched(u)
  <2>1. SharedStep
    BY <1>2, <1>4 DEF SharedStep
  <2>2. OwnStep(t)
    BY <1>2, <1>3, <2>1 DEF OwnStep, TxnInv, NothingBefore
  <2>3. \A u \in Txn \ {t} : Untouched(u)
    BY <1>2, <1>3 DEF Untouched, TypeOK
  <2>. QED
    BY <2>1, <2>2, <2>3
<1>7. TypeOK'
  <2>1. v \in Snapshot /\ v \in 0..MaxVersion
    BY <1>3, <1>4 DEF Snapshot
  <2>2. reads' \in [Txn -> SUBSET [clause : Clause, version : Snapshot]]
    BY <1>2, <1>3, <2>1 DEF TypeOK
  <2>. QED
    BY <1>2, <1>3, <2>1, <2>2, ClauseType DEF TypeOK
<1>8. SnapshotsExist'
  BY <1>2, <1>3, <1>4 DEF SnapshotsExist, LatestVersion
<1>9. AttachmentVersion'
  BY <1>2, <1>3, <1>5 DEF AttachmentVersion
<1>10. ReadAnswers(t, [clause |-> c, version |-> v])'
  <2>1. CASE attach = "pin"
    <3>1. Wanted(t) = 0
      BY <1>2, <1>3, <2>1 DEF AttachmentVersion
    <3>2. c.kind = "latest"
      BY <1>1, <1>2, <1>3, <3>1, ClauseType DEF TxnInv, LookupUnderway
    <3>. QED
      BY <1>2, <2>1, <3>2 DEF ReadAnswers
  <2>2. CASE attach # "pin"
    <3>1. v = Wanted(t)
      BY <1>2, <1>5, <2>2
    <3>2. c.kind = "version" => v = c.at
      BY <1>1, <1>2, <1>3, <3>1 DEF TxnInv, LookupUnderway
    <3>3. c.kind = "timestamp" => v = resolved[t][c.at]
      BY <1>1, <1>2, <1>3, <3>1 DEF TxnInv, LookupUnderway
    <3>. QED
      BY <1>2, <1>5, <2>2, <3>2, <3>3 DEF ReadAnswers
  <2>. QED
    BY <2>1, <2>2
<1>11. TxnInv(t)'
  BY <1>1, <1>2, <1>6, <1>10, ReturnStep
<1>. QED
  BY <1>6, <1>7, <1>8, <1>9, <1>11, OneTxnStep

\* Any other version: the snapshot is the transaction's own, and a latest one is kept.
LEMMA ProvideOwnIInv == ASSUME IInv, NEW t \in Txn, ProvideOwn(t) PROVE IInv'
<1>. USE DEF tableVars, pastVars
<1>1. PICK c, w, v : c = lookup[t].clause /\ w = Wanted(t) /\ v = Initialized(t, w)
  OBVIOUS
<1>2. /\ Step(t) = "find" /\ (attach # "latest" => w # useSpecificVersion)
      /\ IF attach # "latest" THEN UNCHANGED cached ELSE CachedTable(w)
      /\ InitializeTableEntry(t, w) /\ Return(t, v)
      /\ lookup' = [lookup EXCEPT ![t] = Idle]
      /\ reads' = [reads EXCEPT ![t] = @ \cup {[clause |-> c, version |-> v]}]
      /\ UNCHANGED <<attach, tableVars, useSpecificVersion, begun, resolved, pastVars,
                     checkpointed>>
  BY <1>1 DEF ProvideOwn, Return, Leave, Misses, UseCachedSnapshot
<1>3. /\ TypeOK /\ TxnInv(t) /\ SnapshotsExist /\ AttachmentVersion
      /\ lookup[t] \in Lookup /\ c \in Clause /\ w \in Nat
  BY <1>1 DEF IInv, TypeOK, Lookup, Wanted
<1>4. /\ LatestVersion \in Nat /\ LatestVersion > 0 /\ LatestVersion <= MaxVersion
      /\ w <= LatestVersion
      /\ v \in 1..LatestVersion
      /\ w # 0 => v = w
      /\ w = 0 => v = tableEntry'[t]
      /\ \/ tableEntry'[t] = tableEntry[t]
         \/ w = 0 /\ tableEntry[t] = 0 /\ tableEntry'[t] = LatestVersion
      /\ \A u \in Txn \ {t} : tableEntry'[u] = tableEntry[u]
      /\ tableEntry' \in [Txn -> 0..MaxVersion]
      /\ versioned' \in [Txn -> SUBSET Nat]
      /\ \A u \in Txn : /\ tableEntry'[u] <= LatestVersion
                        /\ versioned'[u] \subseteq 1..LatestVersion
  BY <1>1, <1>2, <1>3, InitializeTableEntryStep
<1>5. w = 0 => attach # "pin"
  BY <1>2, <1>3 DEF AttachmentVersion
<1>6. \/ cached' = cached
      \/ cached = 0 /\ cached' \in 1..LatestVersion /\ attach = "latest"
  BY <1>2, <1>3, <1>4 DEF CachedTable, Shared
<1>7. SharedStep /\ OwnStep(t) /\ \A u \in Txn \ {t} : Untouched(u)
  <2>1. SharedStep
    BY <1>2, <1>6 DEF SharedStep
  <2>2. \/ tableEntry'[t] = tableEntry[t]
        \/ /\ tableEntry[t] = 0 /\ tableEntry'[t] = LatestVersion /\ LatestVersion > 0
           /\ attach # "pin"
    BY <1>3, <1>4, <1>5 DEF TypeOK
  <2>3. OwnStep(t)
    BY <1>2, <1>3, <2>1, <2>2 DEF OwnStep, TxnInv, NothingBefore
  <2>4. \A u \in Txn \ {t} : Untouched(u)
    BY <1>2, <1>3, <1>4 DEF Untouched, TypeOK
  <2>. QED
    BY <2>1, <2>3, <2>4
<1>8. TypeOK'
  <2>1. v \in Snapshot /\ v \in 0..MaxVersion /\ cached' \in 0..MaxVersion
    BY <1>3, <1>4, <1>6 DEF Snapshot, TypeOK
  <2>2. reads' \in [Txn -> SUBSET [clause : Clause, version : Snapshot]]
    BY <1>2, <1>3, <2>1 DEF TypeOK
  <2>. QED
    BY <1>2, <1>3, <1>4, <2>1, <2>2, ClauseType DEF TypeOK
<1>9. SnapshotsExist'
  <2>1. LatestVersion' = LatestVersion
    BY <1>2 DEF LatestVersion
  <2>2. cached' <= LatestVersion
    BY <1>3, <1>4, <1>6 DEF SnapshotsExist
  <2>. QED
    BY <1>4, <2>1, <2>2 DEF SnapshotsExist
<1>10. AttachmentVersion'
  BY <1>2, <1>3, <1>6 DEF AttachmentVersion
<1>11. ReadAnswers(t, [clause |-> c, version |-> v])'
  <2>1. CASE c.kind = "latest"
    <3>1. w = useSpecificVersion
      BY <1>1, <1>2, <1>3, <2>1 DEF TxnInv, LookupUnderway
    <3>2. attach = "latest" /\ w = 0
      BY <1>2, <1>3, <3>1 DEF AttachmentVersion
    <3>. QED
      BY <1>2, <1>4, <2>1, <3>2 DEF ReadAnswers
  <2>2. CASE c.kind = "version"
    <3>1. w = c.at /\ c.at # 0
      BY <1>1, <1>2, <1>3, <2>2, ClauseType DEF TxnInv, LookupUnderway
    <3>. QED
      BY <1>4, <2>2, <3>1 DEF ReadAnswers
  <2>3. CASE c.kind = "timestamp"
    <3>1. w = resolved[t][c.at] /\ w # 0
      BY <1>1, <1>2, <1>3, <2>3 DEF TxnInv, LookupUnderway
    <3>. QED
      BY <1>2, <1>4, <2>3, <3>1 DEF ReadAnswers
  <2>. QED
    BY <1>3, <2>1, <2>2, <2>3, ClauseType
<1>12. TxnInv(t)'
  BY <1>1, <1>2, <1>7, <1>11, ReturnStep
<1>. QED
  BY <1>7, <1>8, <1>9, <1>10, <1>12, OneTxnStep

\* CHECKPOINT opens a snapshot outside every lookup, on a pinned attachment too.
LEMMA CheckpointIInv == ASSUME IInv, NEW t \in Txn, Checkpoint(t) PROVE IInv'
<1>. USE DEF tableVars, pastVars, sharedVars
<1>1. PICK w, v : w = useSpecificVersion /\ v = Initialized(t, w)
  OBVIOUS
<1>2. /\ t \in begun /\ Step(t) = "idle" /\ InitializeTableEntry(t, w)
      /\ checkpointed' = checkpointed \cup {t}
      /\ UNCHANGED <<attach, tableVars, sharedVars, begun, resolved, lookup, reads, pastVars>>
  BY <1>1 DEF Checkpoint
<1>3. TypeOK /\ TxnInv(t) /\ SnapshotsExist /\ AttachmentVersion /\ w \in Nat
  BY <1>1 DEF IInv, TypeOK
<1>4. /\ LatestVersion \in Nat /\ LatestVersion > 0 /\ LatestVersion <= MaxVersion
      /\ w <= LatestVersion
      /\ v \in 1..LatestVersion
      /\ w # 0 => v = w
      /\ w = 0 => v = tableEntry'[t]
      /\ \/ tableEntry'[t] = tableEntry[t]
         \/ w = 0 /\ tableEntry[t] = 0 /\ tableEntry'[t] = LatestVersion
      /\ \A u \in Txn \ {t} : tableEntry'[u] = tableEntry[u]
      /\ tableEntry' \in [Txn -> 0..MaxVersion]
      /\ versioned' \in [Txn -> SUBSET Nat]
      /\ \A u \in Txn : /\ tableEntry'[u] <= LatestVersion
                        /\ versioned'[u] \subseteq 1..LatestVersion
  BY <1>1, <1>2, <1>3, InitializeTableEntryStep
<1>5. SharedStep /\ OwnStep(t) /\ \A u \in Txn \ {t} : Untouched(u)
  <2>1. SharedStep
    BY <1>2 DEF SharedStep
  <2>2. \/ tableEntry'[t] = tableEntry[t]
        \/ tableEntry[t] = 0 /\ tableEntry'[t] = LatestVersion /\ LatestVersion > 0
    BY <1>3, <1>4 DEF TypeOK
  <2>3. OwnStep(t)
    BY <1>2, <2>1, <2>2 DEF OwnStep
  <2>4. \A u \in Txn \ {t} : Untouched(u)
    BY <1>2, <1>4 DEF Untouched
  <2>. QED
    BY <2>1, <2>3, <2>4
<1>6. TypeOK'
  BY <1>2, <1>3, <1>4 DEF TypeOK
<1>7. SnapshotsExist'
  <2>1. LatestVersion' = LatestVersion /\ cached' = cached
    BY <1>2 DEF LatestVersion
  <2>. QED
    BY <1>3, <1>4, <2>1 DEF SnapshotsExist
<1>8. AttachmentVersion'
  BY <1>2, <1>3 DEF AttachmentVersion
<1>9. LookupUnderway(t)'
  BY <1>2 DEF LookupUnderway, Step
<1>10. TxnInv(t)'
  BY <1>2, <1>5, <1>9, OwnTxnKept
<1>. QED
  BY <1>5, <1>6, <1>7, <1>8, <1>10, OneTxnStep

LEMMA Inductive == Spec => []IInv
<1>1. ASSUME IInv, Next PROVE IInv'
  <2>1. CASE Tick \/ SomeoneCommits
    BY <1>1, <2>1, EnvironmentIInv
  <2>2. ASSUME NEW t \in Txn, StartTransaction(t) \/ BeginLookup(t) PROVE IInv'
    BY <1>1, <2>2, BeginIInv
  <2>3. ASSUME NEW t \in Txn, Checkpoint(t) PROVE IInv'
    BY <1>1, <2>3, CheckpointIInv
  <2>4. ASSUME NEW t \in Txn, LookupStep(t) PROVE IInv'
    BY <1>1, <2>4, ChooseIInv, BindIInv, ResolveIInv, FailureIInv, FindIInv,
       ProvideCachedIInv, ProvideOwnIInv DEF LookupStep
  <2>. QED
    BY <1>1, <2>1, <2>2, <2>3, <2>4 DEF Next
<1>2. ASSUME IInv, UNCHANGED vars PROVE IInv'
  <2>. USE <1>2 DEF vars, tableVars, sharedVars, ownVars, pastVars
  <2>1. TypeOK' /\ SnapshotsExist' /\ AttachmentVersion'
    BY DEF IInv, TypeOK, SnapshotsExist, AttachmentVersion, LatestVersion
  <2>2. \A t \in Txn : TxnInv(t)'
    BY UntouchedTxn DEF SharedStep, Untouched
  <2>. QED
    BY <2>1, <2>2 DEF IInv
<1>. QED
  BY <1>1, <1>2, InitIInv, PTL DEF Spec

----------------------------------------------------------------------------
(* Theorems.                                                               *)

\* Every variable has its type, for every value of the constants: no lookup of LookupEntry
\* returns an entry without a snapshot.
THEOREM TypeCorrect == Spec => []TypeOK
  BY Inductive, PTL DEF IInv

\* LookupEntry is repeatable within a transaction: GetTableEntry, versioned_table_entries and
\* timestamp_versions return to it what it was given before.
THEOREM ReadsRepeat == Spec => []RepeatableRead
<1>1. ASSUME IInv PROVE RepeatableRead
  <2>. SUFFICES ASSUME NEW t \in Txn, NEW r \in reads[t], NEW q \in reads[t],
                       r.clause = q.clause
                PROVE  r.version = q.version \/ LeftThePin(t)
    BY DEF RepeatableRead
  <2>1. /\ ReadAnswers(t, r) /\ ReadAnswers(t, q) /\ attach \in Attachments
        /\ r.clause \in Clause
    BY <1>1 DEF IInv, TxnInv, TypeOK
  <2>2. CASE r.clause.kind \in {"version", "timestamp"}
    BY <2>1, <2>2 DEF ReadAnswers
  <2>3. CASE r.clause.kind = "latest"
    BY <2>1, <2>3 DEF ReadAnswers, LeftThePin, Attachments
  <2>. QED
    BY <2>1, <2>2, <2>3, ClauseType
<1>. QED
  BY <1>1, Inductive, PTL

\* The timestamps a transaction resolves are searched for in the history of the snapshot it
\* reads as latest (TransactionHead), whichever of the two it asked for first.
THEOREM ReadsOneHistory == Spec => []OneHistory
<1>1. ASSUME IInv PROVE OneHistory
  <2>. SUFFICES ASSUME NEW t \in Txn, NEW r \in ReadsOf(t, "latest"),
                       NEW q \in ReadsOf(t, "timestamp"),
                       attach \notin {"version", "timestamp"}, ~LeftThePin(t)
                PROVE  q.version = AsOf(r.version, q.clause.at)
    BY DEF OneHistory
  <2>1. /\ ReadAnswers(t, r) /\ ReadAnswers(t, q) /\ attach \in {"latest", "pin"}
        /\ r.clause.kind = "latest" /\ q.clause.kind = "timestamp"
        /\ q.clause.at \in Time /\ r.version \in Nat /\ q.version # 0
    BY <1>1, ClauseType DEF IInv, TxnInv, TypeOK, Attachments, ReadsOf, Snapshot
  <2>2. r.version = HeadOf(t)
    BY <2>1 DEF ReadAnswers, HeadOf, LeftThePin
  <2>3. IsAsOf(HeadOf(t), q.clause.at, q.version)
    BY <1>1, <2>1 DEF ReadAnswers, IInv, TxnInv, ResolvedInHead, ResolvedAt
  <2>. QED
    BY <2>1, <2>2, <2>3, AsOfUnique
<1>. QED
  BY <1>1, Inductive, PTL

\* However many transactions race to create cached_table or to bind the attachment's
\* timestamp, they all read the one version that was pinned.
THEOREM ReadsOnePin == Spec => []OnePinnedVersion
<1>1. ASSUME IInv PROVE OnePinnedVersion
  <2>. SUFFICES ASSUME NEW t \in Txn, NEW u \in Txn, NEW r \in ReadsOf(t, "latest"),
                       NEW q \in ReadsOf(u, "latest"),
                       attach # "latest", ~LeftThePin(t), ~LeftThePin(u)
                PROVE  r.version = q.version
    BY DEF OnePinnedVersion
  <2>1. /\ ReadAnswers(t, r) /\ ReadAnswers(u, q)
        /\ r.clause.kind = "latest" /\ q.clause.kind = "latest"
    BY <1>1 DEF IInv, TxnInv, ReadsOf
  <2>. QED
    BY <2>1 DEF ReadAnswers, LeftThePin
<1>. QED
  BY <1>1, Inductive, PTL

\* The shared snapshot, which may be older than the transaction, is never what a read of
\* the latest version returns on an attachment that pins nothing.
THEOREM ReadsAreFresh == Spec => []FreshSnapshot
<1>1. ASSUME IInv PROVE FreshSnapshot
  <2>. SUFFICES ASSUME NEW t \in Txn, NEW r \in ReadsOf(t, "latest"), attach = "latest"
                PROVE  r.version >= headAtStart[t]
    BY DEF FreshSnapshot
  <2>1. /\ ReadAnswers(t, r) /\ r.clause.kind = "latest" /\ r.version # 0
        /\ SnapshotSinceStart(t)
    BY <1>1 DEF IInv, TxnInv, ReadsOf, TypeOK, Snapshot
  <2>. QED
    BY <2>1 DEF ReadAnswers, SnapshotSinceStart
<1>. QED
  BY <1>1, Inductive, PTL

\* DeltaRejectFutureTimestamp is what makes a read by timestamp exact: the timestamp is
\* past when the transaction starts, so no commit the head does not know can be older.
THEOREM TimestampsExact == Spec => []TimestampExact
<1>1. ASSUME IInv PROVE TimestampExact
  <2>. SUFFICES ASSUME NEW t \in Txn, NEW r \in ReadsOf(t, "timestamp")
                PROVE  /\ commits[r.version] <= r.clause.at
                       /\ attach # "pin" /\ r.version < Len(commits) =>
                             commits[r.version + 1] >= r.clause.at
    BY DEF TimestampExact
  <2>1. /\ ReadAnswers(t, r) /\ r.clause.kind = "timestamp"
        /\ r.clause.at \in Time /\ r.version \in Snapshot
        /\ SnapshotSinceStart(t) /\ ResolvedInHead(t)
        /\ commits \in Seq(Time) /\ started[t] \in Time /\ tableEntry[t] \in Nat
        /\ tableEntry[t] <= Len(commits)
    BY <1>1, ClauseType DEF IInv, TxnInv, TypeOK, ReadsOf, SnapshotsExist, LatestVersion
  <2>2. /\ r.clause.at <= started[t] /\ HeadOf(t) # 0
        /\ IsAsOf(HeadOf(t), r.clause.at, r.version)
    BY <2>1 DEF ReadAnswers, ResolvedInHead, ResolvedAt, Snapshot
  <2>3. commits[r.version] <= r.clause.at
    BY <2>2 DEF IsAsOf
  <2>4. ASSUME attach # "pin", r.version < Len(commits)
        PROVE  commits[r.version + 1] >= r.clause.at
    <3>1. HeadOf(t) = tableEntry[t] /\ r.version \in Nat /\ r.version <= tableEntry[t]
      BY <2>1, <2>2, <2>4 DEF HeadOf, IsAsOf
    <3>2. commits[r.version + 1] \in Nat /\ r.clause.at \in Nat /\ started[t] \in Nat
      BY <2>1, <2>4, <3>1 DEF Time
    <3>3. CASE r.version = tableEntry[t]
      <4>1. commits[tableEntry[t] + 1] >= started[t]
        BY <2>1, <2>2, <2>4, <3>1, <3>3 DEF SnapshotSinceStart, LatestVersion
      <4>. QED
        BY <2>2, <3>2, <3>3, <4>1
    <3>4. CASE r.version < tableEntry[t]
      <4>1. r.version + 1 \in 1..HeadOf(t)
        BY <2>1, <3>1, <3>4
      <4>2. ~(commits[r.version + 1] <= r.clause.at)
        BY <2>2, <3>1, <4>1 DEF IsAsOf
      <4>. QED
        BY <3>2, <4>2
    <3>. QED
      BY <2>1, <3>1, <3>3, <3>4
  <2>. QED
    BY <2>3, <2>4
<1>. QED
  BY <1>1, Inductive, PTL

\* Two lookups may both find the attachment's timestamp unbound, but the second one reads
\* use_specific_version again under the lock: what is bound is never bound anew.
THEOREM TimestampBindsOnce == Spec => BindsOnce
<1>1. ASSUME [Next]_vars, useSpecificVersion # 0
      PROVE  useSpecificVersion' = useSpecificVersion
  <2>. USE <1>1 DEF vars, sharedVars, tableVars, ownVars, pastVars
  <2>1. CASE UNCHANGED vars
    BY <2>1
  <2>2. CASE Tick \/ SomeoneCommits
    BY <2>2 DEF Tick, SomeoneCommits
  <2>3. ASSUME NEW t \in Txn, StartTransaction(t) \/ BeginLookup(t) \/ Checkpoint(t)
        PROVE  useSpecificVersion' = useSpecificVersion
    BY <2>3 DEF StartTransaction, BeginLookup, Checkpoint
  <2>4. ASSUME NEW t \in Txn, LookupStep(t)
        PROVE  useSpecificVersion' = useSpecificVersion
    BY <2>4 DEF LookupStep, FoundBound, BindTimestamp, Resolves, ChooseVersion, ReuseTimestamp,
       ResolveTimestamp, ResolveFails, FindEntry, NoTable, ProvideCached, ProvideOwn,
       LookupFails, Chosen, Return
  <2>. QED
    BY <2>1, <2>2, <2>3, <2>4 DEF Next
<1>. QED
  BY <1>1, PTL DEF Spec, BindsOnce
=============================================================================
