----------------------- MODULE DeltaTransactionProofs -----------------------
(***************************************************************************)
(* Proofs about DeltaTransaction, for any number of transactions, files,   *)
(* applications and log entries.                                           *)
(***************************************************************************)
EXTENDS DeltaTransactionRefinement, TLAPS

\* The pinned snapshot is in the log.
EntriesInLog == Len(log) > 0 /\ \A t \in Txn : entry[t] <= Len(log)

\* A transaction only ever names files it wrote, and a file on storage has a writer.
Ownership ==
    /\ \A t \in Txn : \A f \in written[t] \cup appended[t] : writer[f] = t
    /\ \A f \in disk : writer[f] \in Txn

\* Before Append initialises it there is no kernel transaction and nothing outstanding;
\* afterwards it was built from the pinned snapshot, which the extension may write to,
\* and agrees with outstanding_appends, unless a statement has failed since.
Working == {"none", "active", "copying", "invalid", "committing"}

Bookkept(t) ==
    /\ phase[t] \in Working => outstanding[t] = appended[t]
    /\ phase[t] \in Working /\ phase[t] # "invalid" => kernel[t].adds = appended[t]
    /\ phase[t] \in {"active", "copying", "committing"} /\ state[t] # "NOT_YET_STARTED" =>
          /\ kernel[t].base = entry[t]
          /\ entry[t] > 0
          /\ t \in ParentCommit \/ ~log[entry[t]].managed
    /\ state[t] = "NOT_YET_STARTED" => appended[t] = {} /\ kernel[t] = NoKernelTxn
    /\ phase[t] = "none" => state[t] = "NOT_YET_STARTED"
    /\ phase[t] = "copying" /\ t \notin ReadOnly => entry[t] > 0
    /\ phase[t] \notin {"copying", "crashed"} => written[t] = {}
    /\ phase[t] \in {"active", "copying", "invalid"} => state[t] # "FINISHED"
    /\ phase[t] = "committing" => state[t] = "FINISHED" /\ appended[t] # {}
    /\ phase[t] = "cleanup" => outstanding[t] = appended[t]
    /\ t \in ParentCommit /\ (phase[t] = "copying" \/ state[t] # "NOT_YET_STARTED") => parent[t]

Bookkeeping == \A t \in Txn : Bookkept(t)

\* A transaction whose entry is in the log has its commit behind it.
Logged == {"written", "acknowledged", "cleanup", "refused", "crashed"}

LogShape ==
    \A i \in DOMAIN log :
        /\ log[i].by = Other => log[i].adds = {}
        /\ log[i].by \in Txn =>
              /\ i > 1
              /\ phase[log[i].by] \in Logged
              /\ phase[log[i].by] \in {"cleanup", "refused"} => CommitMayLie

\* Files stay on storage until their transaction ends unsuccessfully.
FilesKept ==
    \A t \in Txn :
        /\ written[t] \subseteq disk
        /\ phase[t] \notin {"rolledBack", "refused"} => appended[t] \subseteq disk

\* A commit under way found the application versions it expected.
VersionsChecked ==
    \A t \in Txn : phase[t] = "committing" =>
        \A a \in RegisteredApps(t) : VersionMayMatch(t, a)

\* What holds of each transaction, and what holds of the log.
TxnInv == Ownership /\ Bookkeeping /\ FilesKept /\ VersionsChecked /\ NoOrphans

LogInv ==
    /\ LogShape
    /\ AllOrNothing
    /\ CommitsOnPinnedSnapshot
    /\ CompareAndSwap
    /\ CatalogOrdersCommits

IInv == TypeOK /\ EntriesInLog /\ TxnInv /\ LogInv

----------------------------------------------------------------------------
USE RolesAssumption, OtherAssumption, NoVersionAssumption, BoundAssumption,
    SwitchAssumption

LEMMA EntryType ==
    ASSUME TypeOK, EntriesInLog
    PROVE  /\ DOMAIN log = 1..Len(log)
           /\ Len(log) \in Nat
           /\ \A i \in DOMAIN log : log[i] \in LogEntry
  BY DEF TypeOK, EntriesInLog

\* An entry a commit adds has the type of a log entry.
LEMMA NewEntryType ==
    ASSUME TypeOK, EntriesInLog, NEW t \in Txn, kernel[t].base = Len(log)
    PROVE  NewEntry(t) \in LogEntry
<1>1. log[kernel[t].base] \in LogEntry
  BY DEF TypeOK, EntriesInLog
<1>2. registered[t] \in [App -> Registration]
  BY DEF TypeOK
<1>3. kernel[t] \in KernelTxn
  BY DEF TypeOK
<1>. QED
  BY <1>1, <1>2, <1>3 DEF NewEntry, LogEntry, Registration, KernelTxn, IsRegistered

LEMMA InitType == Init => TypeOK /\ EntriesInLog
<1>. SUFFICES ASSUME Init PROVE TypeOK /\ EntriesInLog
  OBVIOUS
<1>1. FirstEntry \in LogEntry
  BY DEF FirstEntry, LogEntry, MaybeVersion
<1>2. log \in Seq(LogEntry) /\ Len(log) = 1
  BY <1>1 DEF Init
<1>3. NoKernelTxn \in KernelTxn /\ NotRegistered \in Registration
  BY DEF NoKernelTxn, KernelTxn, NotRegistered, Registration, MaybeVersion
<1>. QED
  BY <1>2, <1>3 DEF Init, Start, TypeOK, EntriesInLog, Phases, States

LEMMA NextType == TypeOK /\ EntriesInLog /\ [Next]_vars => TypeOK' /\ EntriesInLog'
<1>. SUFFICES ASSUME TypeOK, EntriesInLog, [Next]_vars PROVE TypeOK' /\ EntriesInLog'
  OBVIOUS
<1>. USE DEF Become, storageVars, privateVars, historyVars, Phases, Ended, States
<1>1. ASSUME NEW t \in Txn, StartTransaction(t) PROVE TypeOK' /\ EntriesInLog'
  BY <1>1 DEF StartTransaction, TypeOK, EntriesInLog
<1>2. ASSUME NEW t \in Txn, InitializeTableEntry(t) PROVE TypeOK' /\ EntriesInLog'
  BY <1>2 DEF InitializeTableEntry, OpenableSnapshots, TypeOK, EntriesInLog
<1>3. ASSUME NEW t \in Txn, SetTransactionVersion(t) PROVE TypeOK' /\ EntriesInLog'
  BY <1>3 DEF SetTransactionVersion, TypeOK, EntriesInLog, Registration, MaybeVersion
<1>4. ASSUME NEW t \in Txn, PlanInsert(t) PROVE TypeOK' /\ EntriesInLog'
  BY <1>4 DEF PlanInsert, TypeOK, EntriesInLog
<1>5. ASSUME NEW t \in Txn, WriteFile(t) PROVE TypeOK' /\ EntriesInLog'
  BY <1>5 DEF WriteFile, TypeOK, EntriesInLog
<1>6. ASSUME NEW t \in Txn, InsertFails(t) PROVE TypeOK' /\ EntriesInLog'
  BY <1>6 DEF InsertFails, TypeOK, EntriesInLog
<1>7. ASSUME NEW t \in Txn, AppendRefused(t) PROVE TypeOK' /\ EntriesInLog'
  BY <1>7 DEF AppendRefused, StateAfterRefusal, TypeOK, EntriesInLog
<1>8. ASSUME NEW t \in Txn, AppendStatFails(t) PROVE TypeOK' /\ EntriesInLog'
  BY <1>8 DEF AppendStatFails, RecordAppends, InitializedKernel, KernelTxn, TypeOK,
              EntriesInLog
<1>9. ASSUME NEW t \in Txn, AppendFiles(t) PROVE TypeOK' /\ EntriesInLog'
  BY <1>9 DEF AppendFiles, AddFiles, RecordAppends, InitializedKernel, KernelTxn, TypeOK,
              EntriesInLog
<1>10. ASSUME NEW t \in Txn, CommitNothing(t) PROVE TypeOK' /\ EntriesInLog'
  BY <1>10 DEF CommitNothing, TypeOK, EntriesInLog
<1>11. ASSUME NEW t \in Txn, CommitVersionMismatch(t) PROVE TypeOK' /\ EntriesInLog'
  BY <1>11 DEF CommitVersionMismatch, Finish, TypeOK, EntriesInLog
<1>12. ASSUME NEW t \in Txn, CommitChecked(t) PROVE TypeOK' /\ EntriesInLog'
  BY <1>12 DEF CommitChecked, Finish, TypeOK, EntriesInLog
<1>13. ASSUME NEW t \in Txn, KernelCommit(t) \/ KernelCommitLies(t)
       PROVE TypeOK' /\ EntriesInLog'
  <2>1. kernel[t].base = Len(log) /\ log' = Append(log, NewEntry(t))
    BY <1>13 DEF KernelCommit, KernelCommitLies, WriteEntry
  <2>2. NewEntry(t) \in LogEntry
    BY <2>1, NewEntryType
  <2>3. log' \in Seq(LogEntry) /\ Len(log') = Len(log) + 1 /\ Len(log) \in Nat
    BY <2>1, <2>2 DEF TypeOK
  <2>4. EntriesInLog'
    BY <1>13, <2>3 DEF KernelCommit, KernelCommitLies, TypeOK, EntriesInLog
  <2>5. TypeOK'
    BY <1>13, <2>3 DEF KernelCommit, KernelCommitLies, TypeOK
  <2>. QED
    BY <2>4, <2>5
<1>14. ASSUME NEW t \in Txn, KernelCommitFails(t) PROVE TypeOK' /\ EntriesInLog'
  BY <1>14 DEF KernelCommitFails, TypeOK, EntriesInLog
<1>15. ASSUME NEW t \in Txn, CommitReturns(t) PROVE TypeOK' /\ EntriesInLog'
  BY <1>15 DEF CommitReturns, TypeOK, EntriesInLog
<1>16. ASSUME NEW t \in Txn, HandleConflict(t) PROVE TypeOK' /\ EntriesInLog'
  BY <1>16 DEF HandleConflict, RemoveAll, RemoveSome, TypeOK, EntriesInLog
<1>17. ASSUME NEW t \in Txn, Rollback(t) PROVE TypeOK' /\ EntriesInLog'
  BY <1>17 DEF Rollback, Finish, RemoveAll, RemoveSome, RemoveNone, TypeOK, EntriesInLog
<1>18. ASSUME NEW t \in Txn, RollbackUnstarted(t) PROVE TypeOK' /\ EntriesInLog'
  BY <1>18 DEF RollbackUnstarted, TypeOK, EntriesInLog
<1>19. CASE OtherCommit
  <2>1. PICK e \in LogEntry : log' = Append(log, e)
    <3>1. PICK apps \in ForeignApps(log[Len(log)].apps),
               managed \in {log[Len(log)].managed, TRUE} :
             log' = Append(log, [by |-> Other, adds |-> {}, apps |-> apps,
                                 managed |-> managed])
      BY <1>19 DEF OtherCommit
    <3>2. log[Len(log)] \in LogEntry
      BY DEF TypeOK, EntriesInLog
    <3>3. managed \in BOOLEAN
      BY <3>2 DEF LogEntry
    <3>4. log[Len(log)].apps \in [App -> MaybeVersion]
      BY <3>2 DEF LogEntry
    <3>5. apps \in [App -> MaybeVersion]
      BY <3>4 DEF ForeignApps, MaybeVersion
    <3>. QED
      BY <3>1, <3>3, <3>5 DEF LogEntry
  <2>2. log' \in Seq(LogEntry) /\ Len(log') = Len(log) + 1 /\ Len(log) \in Nat
    BY <2>1 DEF TypeOK
  <2>. QED
    BY <1>19, <2>2 DEF OtherCommit, TypeOK, EntriesInLog
<1>20. CASE Crash
  BY <1>20 DEF Crash, TypeOK, EntriesInLog
<1>21. CASE UNCHANGED vars
  BY <1>21 DEF vars, TypeOK, EntriesInLog
<1>. QED
  BY <1>1, <1>2, <1>3, <1>4, <1>5, <1>6, <1>7, <1>8, <1>9, <1>10, <1>11, <1>12, <1>13,
     <1>14, <1>15, <1>16, <1>17, <1>18, <1>19, <1>20, <1>21 DEF Next, CommitStep

\* Every variable of the transaction model keeps its type.
THEOREM TypeCorrect == Spec => []TypeOK
<1>1. Spec => [](TypeOK /\ EntriesInLog)
  BY InitType, NextType, PTL DEF Spec
<1>. QED
  BY <1>1, PTL

----------------------------------------------------------------------------
LEMMA InitIInv == Init => IInv
<1>. SUFFICES ASSUME Init PROVE IInv
  OBVIOUS
<1>1. TypeOK /\ EntriesInLog
  BY InitType
<1>2. log = <<FirstEntry>> /\ DOMAIN log = {1} /\ log[1] = FirstEntry
  BY DEF Init
<1>3. LogInv
  BY <1>2 DEF LogInv, LogShape, AllOrNothing, CommitsOnPinnedSnapshot, CompareAndSwap,
              CatalogOrdersCommits, FirstEntry
<1>4. TxnInv
  BY DEF Init, Start, TxnInv, Ownership, Bookkeeping, Bookkept, FilesKept, VersionsChecked,
         NoOrphans, Working, NoKernelTxn
<1>. QED
  BY <1>1, <1>3, <1>4 DEF IInv

\* A step that leaves the log alone disturbs nothing the log says, as long as it leaves
\* the transactions that are in the log alone.
Undisturbed(t) ==
    phase[t] \in Logged =>
        /\ appended'[t] = appended[t]
        /\ entry'[t] = entry[t]
        /\ registered'[t] = registered[t]
        /\ phase'[t] \in Logged
        /\ phase'[t] \in {"cleanup", "refused"} => phase[t] \in {"cleanup", "refused"}

LEMMA LogFrame ==
    ASSUME IInv, log' = log, \A t \in Txn : Undisturbed(t)
    PROVE  LogInv'
<1>1. LogShape'
  BY DEF IInv, LogInv, LogShape, Undisturbed
<1>2. AllOrNothing'
  BY DEF IInv, LogInv, LogShape, AllOrNothing, Undisturbed
<1>3. CommitsOnPinnedSnapshot'
  BY DEF IInv, LogInv, LogShape, CommitsOnPinnedSnapshot, Undisturbed
<1>4. CompareAndSwap'
  BY DEF IInv, LogInv, LogShape, CompareAndSwap, Undisturbed, IsRegistered
<1>5. CatalogOrdersCommits'
  BY DEF IInv, LogInv, CatalogOrdersCommits
<1>. QED
  BY <1>1, <1>2, <1>3, <1>4, <1>5 DEF LogInv

LEMMA StepIInv == ASSUME IInv, Next PROVE TxnInv' /\ LogInv'
<1>. USE DEF Become, storageVars, privateVars, historyVars
<1>. USE DEF IInv, TypeOK, TxnInv, Ownership, Bookkeeping, Bookkept, FilesKept, VersionsChecked,
             NoOrphans, Undisturbed, Logged, Working, Phases, Ended, RegisteredApps,
             VersionMayMatch, IsRegistered
<1>1. ASSUME NEW t \in Txn, StartTransaction(t) PROVE TxnInv' /\ LogInv'
  BY <1>1, LogFrame DEF StartTransaction
<1>2. ASSUME NEW t \in Txn, InitializeTableEntry(t) PROVE TxnInv' /\ LogInv'
  <2>. USE <1>2 DEF InitializeTableEntry
  <2>1. PICK n \in Nat : entry' = [entry EXCEPT ![t] = n]
    <3>1. Len(log) \in Nat
      OBVIOUS
    <3>2. OpenableSnapshots(t) \subseteq Nat
      BY ONLY <3>1 DEF OpenableSnapshots
    <3>. QED
      BY <3>2
  <2>2. state[t] = "NOT_YET_STARTED" /\ phase[t] = "active" /\ entry[t] = 0
    OBVIOUS
  <2>3. LogInv'
    BY <2>1, <2>2, LogFrame
  <2>4. \A u \in Txn : u # t => entry'[u] = entry[u]
    BY <2>1
  <2>5. Bookkeeping'
    BY <2>2, <2>4
  <2>6. VersionsChecked'
    BY <2>2, <2>4
  <2>7. Ownership' /\ FilesKept' /\ NoOrphans'
    OBVIOUS
  <2>. QED
    BY <2>3, <2>5, <2>6, <2>7 DEF TxnInv
<1>3. ASSUME NEW t \in Txn, SetTransactionVersion(t) PROVE TxnInv' /\ LogInv'
  BY <1>3, LogFrame DEF SetTransactionVersion
<1>4. ASSUME NEW t \in Txn, PlanInsert(t) PROVE TxnInv' /\ LogInv'
  <2>. USE <1>4 DEF PlanInsert
  <2>1. LogInv'
    BY LogFrame
  <2>2. Bookkeeping'
    <3>1. /\ \A u \in Txn : parent[u] => parent'[u]
          /\ t \in ParentCommit => parent'[t]
      BY ONLY <1>4, TypeOK DEF PlanInsert, TypeOK
    <3>2. UNCHANGED <<log, state, entry, written, outstanding, kernel, registered, appended>>
      OBVIOUS
    <3>3. /\ phase[t] = "active" /\ phase'[t] = "copying"
          /\ \A u \in Txn \ {t} : phase'[u] = phase[u]
          /\ entry[t] # 0 \/ t \in ReadOnly
      OBVIOUS
    <3>4. SUFFICES ASSUME NEW u \in Txn PROVE Bookkept(u)'
      BY DEF Bookkeeping
    <3>5. Bookkept(u) /\ entry[u] \in Nat
      BY DEF Bookkeeping
    <3>. QED
      BY ONLY <3>1, <3>2, <3>3, <3>5, t \in Txn, u \in Txn DEF Bookkept, Working
  <2>3. Ownership' /\ FilesKept' /\ VersionsChecked' /\ NoOrphans'
    OBVIOUS
  <2>. QED
    BY <2>1, <2>2, <2>3 DEF TxnInv
<1>5. ASSUME NEW t \in Txn, WriteFile(t) PROVE TxnInv' /\ LogInv'
  BY <1>5, LogFrame DEF WriteFile
<1>6. ASSUME NEW t \in Txn, InsertFails(t) PROVE TxnInv' /\ LogInv'
  BY <1>6, LogFrame DEF InsertFails
<1>7. ASSUME NEW t \in Txn, AppendRefused(t) PROVE TxnInv' /\ LogInv'
  BY <1>7, LogFrame DEF AppendRefused, StateAfterRefusal
<1>8. ASSUME NEW t \in Txn, AppendStatFails(t) PROVE TxnInv' /\ LogInv'
  BY <1>8, LogFrame DEF AppendStatFails, RecordAppends, InitializedKernel, KernelTxn
<1>9. ASSUME NEW t \in Txn, AppendFiles(t) PROVE TxnInv' /\ LogInv'
  <2>. USE <1>9 DEF AppendFiles, AddFiles, RecordAppends, InitializedKernel, KernelTxn
  <2>1. LogInv'
    BY LogFrame
  <2>2. Ownership'
    OBVIOUS
  <2>3. Bookkeeping'
    BY DEF CanInitialize, BypassesCatalog, NoKernelTxn, EntriesInLog, States
  <2>4. FilesKept' /\ NoOrphans' /\ VersionsChecked'
    OBVIOUS
  <2>. QED
    BY <2>1, <2>2, <2>3, <2>4 DEF TxnInv
<1>10. ASSUME NEW t \in Txn, CommitNothing(t) PROVE TxnInv' /\ LogInv'
  BY <1>10, LogFrame DEF CommitNothing
<1>11. ASSUME NEW t \in Txn, CommitVersionMismatch(t) PROVE TxnInv' /\ LogInv'
  BY <1>11, LogFrame DEF CommitVersionMismatch, Finish
<1>12. ASSUME NEW t \in Txn, CommitChecked(t) PROVE TxnInv' /\ LogInv'
  BY <1>12, LogFrame DEF CommitChecked, Finish
<1>14. ASSUME NEW t \in Txn, KernelCommitFails(t) PROVE TxnInv' /\ LogInv'
  BY <1>14, LogFrame DEF KernelCommitFails
<1>15. ASSUME NEW t \in Txn, CommitReturns(t) PROVE TxnInv' /\ LogInv'
  <2>. USE <1>15 DEF CommitReturns
  <2>1. LogInv'
    BY LogFrame
  <2>2. Bookkeeping'
    OBVIOUS
  <2>3. Ownership' /\ FilesKept' /\ VersionsChecked' /\ NoOrphans'
    OBVIOUS
  <2>. QED
    BY <2>1, <2>2, <2>3 DEF TxnInv
<1>16. ASSUME NEW t \in Txn, HandleConflict(t) PROVE TxnInv' /\ LogInv'
  <2>. USE <1>16 DEF HandleConflict, RemoveAll, RemoveSome
  <2>1. LogInv'
    BY LogFrame
  <2>2. Ownership'
    OBVIOUS
  <2>3. Bookkeeping' /\ VersionsChecked'
    OBVIOUS
  <2>4. FilesKept'
    <3>1. \A f \in disk \ disk' : writer[f] = t
      OBVIOUS
    <3>2. \A u \in Txn : u # t => (written[u] \cup appended[u]) \cap (disk \ disk') = {}
      BY <3>1
    <3>3. written[t] = {} /\ written' = written /\ phase'[t] \in {"rolledBack", "refused"}
      OBVIOUS
    <3>. QED
      BY <3>2, <3>3
  <2>5. NoOrphans'
    OBVIOUS
  <2>. QED
    BY <2>1, <2>2, <2>3, <2>4, <2>5 DEF TxnInv
<1>17. ASSUME NEW t \in Txn, Rollback(t) PROVE TxnInv' /\ LogInv'
  <2>. USE <1>17 DEF Rollback, Finish, RemoveAll, RemoveSome, RemoveNone
  <2>1. LogInv'
    BY LogFrame
  <2>2. Ownership'
    OBVIOUS
  <2>3. Bookkeeping' /\ VersionsChecked'
    OBVIOUS
  <2>4. FilesKept'
    <3>1. \A f \in disk \ disk' : writer[f] = t
      OBVIOUS
    <3>2. \A u \in Txn : u # t => (written[u] \cup appended[u]) \cap (disk \ disk') = {}
      BY <3>1
    <3>3. written[t] = {} /\ written' = written /\ phase'[t] \in {"rolledBack", "refused"}
      OBVIOUS
    <3>. QED
      BY <3>2, <3>3
  <2>5. NoOrphans'
    OBVIOUS
  <2>. QED
    BY <2>1, <2>2, <2>3, <2>4, <2>5 DEF TxnInv
<1>18. ASSUME NEW t \in Txn, RollbackUnstarted(t) PROVE TxnInv' /\ LogInv'
  BY <1>18, LogFrame DEF RollbackUnstarted, States
<1>20. CASE Crash
  BY <1>20, LogFrame DEF Crash, Live
<1>13. ASSUME NEW t \in Txn, KernelCommit(t) \/ KernelCommitLies(t)
       PROVE  TxnInv' /\ LogInv'
  <2>. USE <1>13 DEF KernelCommit, KernelCommitLies, WriteEntry
  <2>1. /\ kernel[t].base = Len(log)
        /\ log' = Append(log, NewEntry(t))
        /\ DOMAIN log = 1..Len(log) /\ Len(log) \in Nat
        /\ DOMAIN log' = 1..(Len(log) + 1)
        /\ log'[Len(log) + 1] = NewEntry(t)
        /\ \A i \in DOMAIN log : log'[i] = log[i]
    <3>1. kernel[t].base = Len(log) /\ log' = Append(log, NewEntry(t))
      OBVIOUS
    <3>. QED
      BY <3>1 DEF EntriesInLog
  <2>2. entry[t] = Len(log) /\ Len(log) > 0
    <3>1. phase[t] = "committing"
      OBVIOUS
    <3>2. state[t] = "FINISHED"
      BY <3>1
    <3>3. kernel[t].base = entry[t]
      BY <3>1, <3>2
    <3>. QED
      BY <2>1, <3>3 DEF EntriesInLog
  <2>3. TxnInv'
    <3>1. \A u \in Txn : entry[u] > 0 => log'[entry[u]] = log[entry[u]]
      BY <2>1 DEF EntriesInLog
    <3>2. UNCHANGED <<disk, writer, privateVars, historyVars>>
      OBVIOUS
    <3>3. /\ phase[t] = "committing" /\ phase'[t] \in {"written", "cleanup"}
          /\ \A u \in Txn \ {t} : phase'[u] = phase[u]
      OBVIOUS
    <3>4. Ownership'
      BY <3>2
    <3>5. Bookkeeping'
      <4>1. SUFFICES ASSUME NEW u \in Txn PROVE Bookkept(u)'
        BY DEF Bookkeeping
      <4>2. CASE u = t
        BY ONLY <3>2, <3>3, <4>2, IInv DEF IInv, TxnInv, Bookkeeping, Bookkept, Working, privateVars, historyVars
      <4>3. CASE u # t
        BY ONLY <3>1, <3>2, <3>3, <4>3, IInv DEF IInv, TxnInv, Bookkeeping, Bookkept, privateVars, historyVars
      <4>. QED
        BY <4>2, <4>3
    <3>6. FilesKept' /\ NoOrphans'
      BY <3>2, <3>3
    <3>7. \A u \in Txn : phase[u] = "committing" => entry[u] > 0
      OBVIOUS
    <3>8. VersionsChecked'
      <4>1. SUFFICES ASSUME NEW u \in Txn, phase'[u] = "committing", NEW a \in App,
                            registered'[u][a].new # NoVersion
                     PROVE  VersionMayMatch(u, a)'
        OBVIOUS
      <4>2. u # t /\ phase[u] = "committing" /\ a \in RegisteredApps(u)
        BY <3>2, <3>3, <4>1
      <4>3. VersionMayMatch(u, a) /\ log'[entry[u]] = log[entry[u]]
        BY <3>1, <3>7, <4>2
      <4>. QED
        BY ONLY <3>2, <4>3 DEF VersionMayMatch, privateVars
    <3>. QED
      BY <3>4, <3>5, <3>6, <3>8 DEF TxnInv
  <2>4. LogShape'
    BY <2>1, <2>2 DEF LogInv, LogShape, NewEntry
  <2>5. AllOrNothing'
    <3>1. \A i \in DOMAIN log : log[i].by # t
      <4>1. phase[t] = "committing" /\ LogShape
        BY DEF LogInv
      <4>. QED
        BY ONLY <4>1, t \in Txn DEF LogShape, Logged
    <3>2. /\ NewEntry(t).by = t
          /\ NewEntry(t).adds = appended[t]
          /\ appended[t] # {}
      BY DEF NewEntry
    <3>3. appended' = appended
      OBVIOUS
    <3>4. SUFFICES ASSUME NEW i \in DOMAIN log', log'[i].by \in Txn
                   PROVE  /\ log'[i].adds = appended[log'[i].by]
                          /\ log'[i].adds # {}
                          /\ \A j \in DOMAIN log' : log'[j].by = log'[i].by => j = i
      BY <3>3 DEF AllOrNothing
    <3>5. CASE i = Len(log) + 1
      BY <2>1, <3>1, <3>2, <3>5
    <3>6. CASE i # Len(log) + 1
      <4>1. i \in DOMAIN log /\ log'[i] = log[i]
        BY <2>1, <3>6
      <4>2. \A j \in DOMAIN log' : j \in DOMAIN log \/ log'[j].by = t
        BY <2>1, <3>2
      <4>3. log[i].by # t
        BY <3>1, <4>1
      <4>4. AllOrNothing /\ log[i].by \in Txn
        BY <3>4, <4>1 DEF LogInv
      <4>5. log[i].adds = appended[log[i].by] /\ log[i].adds # {}
        BY ONLY <4>1, <4>4 DEF AllOrNothing
      <4>6. ASSUME NEW j \in DOMAIN log', log'[j].by = log'[i].by PROVE j = i
        <5>1. j \in DOMAIN log /\ log'[j] = log[j]
          BY <2>1, <4>1, <4>2, <4>3, <4>6
        <5>. QED
          BY ONLY <4>1, <4>4, <4>6, <5>1 DEF AllOrNothing
      <4>. QED
        BY <4>1, <4>5, <4>6
    <3>. QED
      BY <3>5, <3>6
  <2>6. CommitsOnPinnedSnapshot'
    BY <2>1, <2>2 DEF LogInv, CommitsOnPinnedSnapshot, NewEntry
  <2>7. CompareAndSwap'
    BY <2>1, <2>2 DEF LogInv, LogShape, CompareAndSwap, NewEntry
  <2>8. CatalogOrdersCommits'
    BY <2>1, <2>2 DEF LogInv, CatalogOrdersCommits, NewEntry
  <2>. QED
    BY <2>3, <2>4, <2>5, <2>6, <2>7, <2>8 DEF LogInv
<1>19. CASE OtherCommit
  <2>1. PICK apps, managed : log' = Append(log, [by |-> Other, adds |-> {}, apps |-> apps,
                                                 managed |-> managed])
    BY <1>19 DEF OtherCommit
  <2>2. /\ DOMAIN log = 1..Len(log) /\ Len(log) \in Nat
        /\ DOMAIN log' = 1..(Len(log) + 1)
        /\ log'[Len(log) + 1].by = Other
        /\ log'[Len(log) + 1].adds = {}
        /\ \A i \in DOMAIN log : log'[i] = log[i]
    BY <2>1 DEF EntriesInLog
  <2>3. UNCHANGED <<disk, writer, phase, privateVars, historyVars>>
    BY <1>19 DEF OtherCommit
  <2>4. TxnInv'
    <3>1. \A u \in Txn : entry[u] > 0 => log'[entry[u]] = log[entry[u]]
      BY <2>2 DEF EntriesInLog
    <3>2. \A u \in Txn : phase[u] = "committing" => entry[u] > 0
      OBVIOUS
    <3>3. Ownership' /\ FilesKept' /\ NoOrphans'
      BY <2>3
    <3>4. Bookkeeping'
      BY <2>3, <3>1
    <3>5. VersionsChecked'
      BY <2>3, <3>1, <3>2
    <3>. QED
      BY <3>3, <3>4, <3>5 DEF TxnInv
  <2>. LogShape
    BY DEF LogInv
  <2>5. \A i \in DOMAIN log' : log'[i].by \in Txn => i \in DOMAIN log
    BY <2>2
  <2>6. LogShape'
    BY ONLY <2>2, <2>3, LogShape, OtherAssumption DEF LogShape
  <2>7. AllOrNothing'
    BY <2>2, <2>3, <2>5 DEF LogInv, AllOrNothing
  <2>8. CommitsOnPinnedSnapshot'
    BY <2>2, <2>3, <2>5 DEF LogInv, CommitsOnPinnedSnapshot
  <2>9. \A i \in DOMAIN log : i > 1 => i - 1 \in DOMAIN log
    BY <2>2
  <2>10. CompareAndSwap'
    BY <2>2, <2>3, <2>5, <2>9 DEF LogInv, LogShape, CompareAndSwap
  <2>11. CatalogOrdersCommits'
    BY <2>2, <2>3, <2>5, <2>9 DEF LogInv, CatalogOrdersCommits
  <2>. QED
    BY <2>4, <2>6, <2>7, <2>8, <2>10, <2>11 DEF LogInv
<1>. QED
  BY <1>1, <1>2, <1>3, <1>4, <1>5, <1>6, <1>7, <1>8, <1>9, <1>10, <1>11, <1>12, <1>13,
     <1>14, <1>15, <1>16, <1>17, <1>18, <1>19, <1>20 DEF Next, CommitStep

LEMMA Inductive == Spec => []IInv
<1>1. IInv /\ [Next]_vars => IInv'
  <2>. SUFFICES ASSUME IInv, [Next]_vars PROVE IInv'
    OBVIOUS
  <2>1. TypeOK' /\ EntriesInLog'
    BY NextType DEF IInv
  <2>2. CASE Next
    BY <2>1, <2>2, StepIInv DEF IInv
  <2>3. CASE UNCHANGED vars
    <3>. USE <2>3 DEF vars
    <3>1. LogInv'
      BY LogFrame DEF Undisturbed
    <3>2. TxnInv'
      BY DEF IInv, TxnInv, Ownership, Bookkeeping, Bookkept, FilesKept, VersionsChecked,
             NoOrphans, RegisteredApps, IsRegistered, VersionMayMatch
    <3>. QED
      BY <2>1, <3>1, <3>2 DEF IInv
  <2>. QED
    BY <2>2, <2>3
<1>. QED
  BY InitIInv, <1>1, PTL DEF Spec

\* A transaction is in the log with all its files, once, or not at all.
THEOREM Atomicity == Spec => []AllOrNothing
<1>1. IInv => AllOrNothing
  BY DEF IInv, LogInv
<1>. QED
  BY <1>1, Inductive, PTL

\* A commit goes on top of the snapshot its transaction pinned.
THEOREM SnapshotCommit == Spec => []CommitsOnPinnedSnapshot
<1>1. IInv => CommitsOnPinnedSnapshot
  BY DEF IInv, LogInv
<1>. QED
  BY <1>1, Inductive, PTL

\* Application versions move by compare-and-swap.
THEOREM IdempotentWrites == Spec => []CompareAndSwap
<1>1. IInv => CompareAndSwap
  BY DEF IInv, LogInv
<1>. QED
  BY <1>1, Inductive, PTL

\* Path-based writers stay out of catalog-managed tables.
THEOREM CatalogOrder == Spec => []CatalogOrdersCommits
<1>1. IInv => CatalogOrdersCommits
  BY DEF IInv, LogInv
<1>. QED
  BY <1>1, Inductive, PTL

\* Failed and rolled back transactions leave no file they appended.
THEOREM CleanFailure == Spec => []NoOrphans
<1>1. IInv => NoOrphans
  BY DEF IInv, TxnInv
<1>. QED
  BY <1>1, Inductive, PTL

\* No file of the log is removed, except by a commit that reported an error wrongly.
THEOREM Durability == Spec => []CommittedFilesExist
<1>1. IInv => CommittedFilesExist
  <2>. SUFFICES ASSUME IInv, NEW i \in DOMAIN log, ~(log[i].adds \subseteq disk)
                PROVE  CommitMayLie /\ log[i].by \in Txn /\ phase[log[i].by] = "refused"
    BY DEF CommittedFilesExist
  <2>1. log[i].by \in Txn
    <3>1. log[i] \in LogEntry
      BY EntryType DEF IInv
    <3>2. log[i].by = Other => log[i].adds = {}
      BY DEF IInv, LogInv, LogShape
    <3>. QED
      BY <3>1, <3>2 DEF LogEntry
  <2>2. log[i].adds = appended[log[i].by]
    BY <2>1 DEF IInv, LogInv, AllOrNothing
  <2>3. phase[log[i].by] \in {"rolledBack", "refused"}
    BY <2>1, <2>2 DEF IInv, TxnInv, FilesKept
  <2>. QED
    BY <2>1, <2>3 DEF IInv, LogInv, LogShape, Logged
<1>. QED
  BY <1>1, Inductive, PTL

\* CommitCallback finds the entries it needs.
THEOREM CallbackSafe == Spec => []CallbackHasItsEntries
<1>1. IInv => CallbackHasItsEntries
  BY DEF IInv, TypeOK, KernelTxn, TxnInv, Bookkeeping, Bookkept, CallbackHasItsEntries,
         CallbackReady
<1>. QED
  BY <1>1, Inductive, PTL

\* A step removes files of the transaction that ends with it, and of no other.
THEOREM RemovesOwnFiles == Spec => OnlyOwnFilesRemoved
<1>1. IInv /\ [Next]_vars => [RemovesOnlyOwnFiles]_vars
  <2>. SUFFICES ASSUME IInv, [Next]_vars PROVE [RemovesOnlyOwnFiles]_vars
    OBVIOUS
  <2>1. ASSUME NEW t \in Txn, HandleConflict(t) \/ Rollback(t) PROVE RemovesOnlyOwnFiles
    <3>1. /\ \A f \in disk \ disk' : f \in outstanding[t]
          /\ phase[t] \in {"cleanup", "active", "invalid"}
          /\ phase'[t] \in {"rolledBack", "refused"}
      BY <2>1 DEF HandleConflict, Rollback, RemoveAll, RemoveSome, RemoveNone, Become,
                        IInv, TypeOK
    <3>2. \A f \in outstanding[t] : writer[f] = t
      BY <3>1 DEF IInv, TxnInv, Bookkeeping, Bookkept, Working, Ownership
    <3>. QED
      BY <3>1, <3>2 DEF RemovesOnlyOwnFiles
  <2>2. ASSUME NEW t \in Txn, WriteFile(t) PROVE RemovesOnlyOwnFiles
    BY <2>2 DEF WriteFile, RemovesOnlyOwnFiles
  <2>3. CASE \A f \in disk : f \in disk'
    BY <2>3 DEF RemovesOnlyOwnFiles
  <2>. QED
    BY <2>1, <2>2, <2>3 DEF Next, CommitStep, vars, OtherCommit, StartTransaction,
       InitializeTableEntry, SetTransactionVersion, PlanInsert, InsertFails, AppendRefused,
       AppendStatFails, AppendFiles, CommitNothing, CommitVersionMismatch, CommitChecked,
       KernelCommit, KernelCommitFails, KernelCommitLies, CommitReturns, RollbackUnstarted,
       Crash, storageVars
<1>. QED
  BY <1>1, Inductive, PTL DEF Spec, OnlyOwnFilesRemoved

\* The manager knows every transaction DuckDB still calls into, and of the others only
\* those whose commit failed or whose rollback threw.
THEOREM ManagerKeepsLive == Spec => []ManagerEntries
<1>. USE DEF ManagerEntries, Live, Ended, Become
<1>1. Init => ManagerEntries
  BY DEF Init
<1>2. IInv /\ ManagerEntries /\ [Next]_vars => ManagerEntries'
  <2>. SUFFICES ASSUME IInv, ManagerEntries, [Next]_vars PROVE ManagerEntries'
    OBVIOUS
  <2>. phase \in [Txn -> Phases] /\ transactions \subseteq Txn
    BY DEF IInv, TypeOK
  <2>1. ASSUME NEW t \in Txn, HandleConflict(t) \/ Rollback(t) PROVE ManagerEntries'
    <3>1. spoiled \subseteq spoiled'
      BY <2>1 DEF HandleConflict, Rollback, RemoveAll, RemoveSome, RemoveNone
    <3>2. CASE HandleConflict(t)
      BY <3>1, <3>2 DEF HandleConflict
    <3>3. CASE Rollback(t)
      <4>1. /\ \A u \in Txn \ {t} : phase'[u] = phase[u]
            /\ phase'[t] = "rolledBack"
        BY <3>3 DEF Rollback
      <4>2. \/ transactions' = transactions \ {t}
            \/ transactions' = transactions /\ t \in spoiled'
        BY <3>3 DEF Rollback, RemoveSome
      <4>. QED
        BY <3>1, <4>1, <4>2
    <3>. QED
      BY <2>1, <3>2, <3>3
  <2>2. CASE Crash
    BY <2>2 DEF Crash, historyVars
  <2>3. ASSUME NEW t \in Txn,
               \/ StartTransaction(t) \/ InitializeTableEntry(t) \/ SetTransactionVersion(t)
               \/ PlanInsert(t) \/ WriteFile(t) \/ InsertFails(t)
        PROVE  ManagerEntries'
    BY <2>3 DEF StartTransaction, InitializeTableEntry, SetTransactionVersion, PlanInsert,
                WriteFile, InsertFails, historyVars
  <2>4. ASSUME NEW t \in Txn, AppendRefused(t) \/ AppendStatFails(t) \/ AppendFiles(t)
        PROVE  ManagerEntries'
    BY <2>4 DEF AppendRefused, AppendStatFails, AppendFiles, RecordAppends, historyVars
  <2>5. ASSUME NEW t \in Txn, CommitNothing(t) \/ CommitReturns(t) \/ RollbackUnstarted(t)
        PROVE  ManagerEntries'
    BY <2>5 DEF CommitNothing, CommitReturns, RollbackUnstarted, historyVars
  <2>6. ASSUME NEW t \in Txn,
               \/ CommitVersionMismatch(t) \/ CommitChecked(t) \/ KernelCommit(t)
               \/ KernelCommitFails(t) \/ KernelCommitLies(t)
        PROVE  ManagerEntries'
    BY <2>6 DEF CommitVersionMismatch, CommitChecked, KernelCommit, KernelCommitFails,
                KernelCommitLies, historyVars
  <2>7. CASE OtherCommit \/ UNCHANGED vars
    BY <2>7 DEF OtherCommit, vars, historyVars
  <2>. QED
    BY <2>1, <2>2, <2>3, <2>4, <2>5, <2>6, <2>7 DEF Next, CommitStep
<1>. QED
  BY <1>1, <1>2, Inductive, PTL DEF Spec

----------------------------------------------------------------------------
(* DeltaTransaction implements OptimisticAppend.                           *)

\* The table, and the clients that are over, as the abstract specification sees them.
TableOf(entries) == [i \in DOMAIN entries |-> [by |-> entries[i].by, adds |-> entries[i].adds]]
OverIn(phases) == {t \in Txn : phases[t] \in Over}

LEMMA TableLength ==
    ASSUME NEW S, NEW s \in Seq(S)
    PROVE  /\ TableOf(s) \in Seq({TableOf(s)[i] : i \in DOMAIN s})
           /\ Len(TableOf(s)) = Len(s)
           /\ DOMAIN TableOf(s) = 1..Len(s)
<1>1. Len(s) \in Nat /\ DOMAIN s = 1..Len(s)
  OBVIOUS
<1>. QED
  BY <1>1 DEF TableOf

\* An entry appended to the log is an entry appended to the table.
LEMMA TableAppend ==
    ASSUME NEW S, NEW s \in Seq(S), NEW e \in S
    PROVE  TableOf(Append(s, e)) = Append(TableOf(s), [by |-> e.by, adds |-> e.adds])
<1>1. /\ Len(s) \in Nat /\ DOMAIN s = 1..Len(s)
      /\ DOMAIN Append(s, e) = 1..(Len(s) + 1)
      /\ Append(s, e)[Len(s) + 1] = e
      /\ \A i \in 1..Len(s) : Append(s, e)[i] = s[i]
  OBVIOUS
<1>2. TableOf(s) \in Seq({TableOf(s)[i] : i \in DOMAIN s}) /\ Len(TableOf(s)) = Len(s)
  BY TableLength
<1>. DEFINE r == [by |-> e.by, adds |-> e.adds]
            a == Append(TableOf(s), r)
<1>3. /\ DOMAIN a = 1..(Len(s) + 1)
      /\ a[Len(s) + 1] = r
      /\ \A i \in 1..Len(s) : a[i] = TableOf(s)[i]
  BY <1>1, <1>2
<1>4. a = [i \in 1..(Len(s) + 1) |-> a[i]]
  BY <1>1, <1>2
<1>5. \A i \in 1..(Len(s) + 1) :
         a[i] = [by |-> Append(s, e)[i].by, adds |-> Append(s, e)[i].adds]
  BY <1>1, <1>3 DEF TableOf
<1>. QED
  BY <1>1, <1>4, <1>5 DEF TableOf

\* The mapping of OptimisticAppend's variables.
LEMMA Mapped ==
    /\ Promise!absVars = <<TableOf(log), entry, appended, OverIn(phase)>>
    /\ (Promise!absVars)' = <<TableOf(log'), entry', appended', OverIn(phase')>>
  BY DEF Promise!absVars, TableOf, OverIn

\* Whatever happens to an attached table is a step of OptimisticAppend or none: the code's
\* snapshots, commits, rollbacks and crashes keep its promise.
THEOREM Refinement == Spec => ImplementsPromise
<1>1. Init => Promise!AbsInit
  <2>. SUFFICES ASSUME Init PROVE Promise!AbsInit
    OBVIOUS
  <2>. DEFINE first == [by |-> Other, adds |-> {}]
  <2>1. DOMAIN log = {1} /\ log[1].by = Other /\ log[1].adds = {}
    BY DEF Init, FirstEntry
  <2>2. TableOf(log) = [i \in {1} |-> first]
    BY <2>1 DEF TableOf
  <2>3. [i \in {1} |-> first] = <<first>>
    OBVIOUS
  <2>. QED
    BY <2>2, <2>3 DEF Init, Promise!AbsInit, TableOf, Over, Ended
<1>2. IInv /\ [Next]_vars => [Promise!AbsNext]_(Promise!absVars)
  <2>. SUFFICES ASSUME IInv, [Next]_vars
                PROVE  Promise!AbsNext \/ UNCHANGED Promise!absVars
    OBVIOUS
  <2>. DEFINE Same == /\ log' = log /\ entry' = entry /\ appended' = appended
                      /\ OverIn(phase') = OverIn(phase)
  <2>stutter. Same => UNCHANGED Promise!absVars
    BY Mapped
  <2>. phase \in [Txn -> Phases] /\ appended \in [Txn -> SUBSET File]
    BY DEF IInv, TypeOK
  <2>. HIDE DEF Same
  <2>. USE DEF Become, storageVars, privateVars, historyVars
  <2>1. ASSUME NEW t \in Txn,
               \/ StartTransaction(t) \/ SetTransactionVersion(t) \/ PlanInsert(t)
               \/ WriteFile(t) \/ InsertFails(t) \/ AppendRefused(t)
        PROVE  Same
    BY <2>1 DEF StartTransaction, SetTransactionVersion, PlanInsert, WriteFile, InsertFails,
                AppendRefused, Same, OverIn, Over, Ended
  <2>2. ASSUME NEW t \in Txn, InitializeTableEntry(t) PROVE Promise!Read(t)
    <3>1. Len(log) \in Nat /\ Len(TableOf(log)) = Len(log)
      <4>1. log \in Seq(LogEntry)
        BY DEF IInv, TypeOK
      <4>2. Len(TableOf(log)) = Len(log)
        BY ONLY <4>1, TableLength
      <4>. QED
        BY ONLY <4>1, <4>2
    <3>2. PICK n \in OpenableSnapshots(t) : entry' = [entry EXCEPT ![t] = n]
      BY <2>2 DEF InitializeTableEntry
    <3>3. n \in 1..Len(log)
      BY <3>1, <3>2 DEF OpenableSnapshots, IInv, EntriesInLog
    <3>4. /\ phase[t] = "active" /\ entry[t] = 0
          /\ log' = log /\ appended' = appended /\ phase' = phase
      BY <2>2 DEF InitializeTableEntry
    <3>. QED
      BY <3>1, <3>2, <3>3, <3>4 DEF Promise!Read, TableOf, Over, Ended
  <2>3. ASSUME NEW t \in Txn, AppendStatFails(t) \/ AppendFiles(t) PROVE Promise!Stage(t)
    <3>1. /\ phase[t] = "copying" /\ phase'[t] \in {"active", "invalid"}
          /\ \A u \in Txn : u # t => phase'[u] = phase[u]
          /\ log' = log /\ entry' = entry
          /\ appended' = [appended EXCEPT ![t] = @ \cup written[t]]
      BY <2>3 DEF AppendStatFails, AppendFiles, RecordAppends
    <3>2. written[t] \in SUBSET File
      BY DEF IInv, TypeOK
    <3>3. \A u \in Txn \ {t} : appended[u] \cap written[t] = {}
      BY DEF IInv, TxnInv, Ownership
    <3>4. entry[t] # 0
      <4>1. CanInitialize(t) /\ Bookkept(t) /\ entry[t] \in Nat
        BY <2>3 DEF AppendStatFails, AppendFiles, RecordAppends, IInv, TxnInv, Bookkeeping,
                    TypeOK
      <4>. QED
        BY <3>1, <4>1 DEF CanInitialize, Bookkept
    <3>5. OverIn(phase') = OverIn(phase)
      BY <3>1 DEF OverIn, Over, Ended
    <3>. QED
      BY <3>1, <3>2, <3>3, <3>4, <3>5 DEF Promise!Stage, TableOf, OverIn, Over, Ended
  <2>4. ASSUME NEW t \in Txn, KernelCommit(t) \/ KernelCommitLies(t) PROVE Promise!Commit(t)
    <3>1. /\ phase[t] = "committing" /\ phase'[t] \in {"written", "cleanup"}
          /\ \A u \in Txn : u # t => phase'[u] = phase[u]
          /\ kernel[t].base = Len(log) /\ log' = Append(log, NewEntry(t))
          /\ entry' = entry /\ appended' = appended
      BY <2>4 DEF KernelCommit, KernelCommitLies, WriteEntry
    <3>2. kernel[t].adds = appended[t] /\ appended[t] # {} /\ kernel[t].base = entry[t]
      BY <3>1 DEF IInv, TxnInv, Bookkeeping, Bookkept, Working
    <3>3. log \in Seq(LogEntry) /\ NewEntry(t) \in LogEntry
      BY <3>1, NewEntryType DEF IInv, TypeOK
    <3>4. NewEntry(t).by = t /\ NewEntry(t).adds = appended[t]
      BY <3>2 DEF NewEntry
    <3>5. /\ TableOf(log') = Append(TableOf(log), [by |-> t, adds |-> appended[t]])
          /\ Len(TableOf(log)) = Len(log)
      <4>1. TableOf(Append(log, NewEntry(t))) =
              Append(TableOf(log), [by |-> NewEntry(t).by, adds |-> NewEntry(t).adds])
        BY ONLY <3>3, TableAppend
      <4>2. Len(TableOf(log)) = Len(log)
        BY ONLY <3>3, TableLength
      <4>. QED
        BY ONLY <3>1, <3>4, <4>1, <4>2
    <3>6. OverIn(phase') = OverIn(phase) \cup {t}
      BY <3>1 DEF OverIn, Over, Ended
    <3>7. t \notin OverIn(phase)
      BY <3>1 DEF OverIn, Over, Ended
    <3>. QED
      BY <3>1, <3>2, <3>5, <3>6, <3>7 DEF Promise!Commit, TableOf, OverIn
  <2>5. ASSUME NEW t \in Txn,
               CommitNothing(t) \/ CommitVersionMismatch(t) \/ KernelCommitFails(t)
                 \/ Rollback(t) \/ RollbackUnstarted(t)
        PROVE  Promise!Abandon
    <3>1. /\ phase' = [phase EXCEPT ![t] = phase'[t]]
          /\ phase'[t] \in {"acknowledged", "cleanup", "rolledBack"}
          /\ log' = log /\ entry' = entry /\ appended' = appended
      BY <2>5 DEF CommitNothing, CommitVersionMismatch, KernelCommitFails, Rollback,
                  RollbackUnstarted
    <3>2. OverIn(phase') = OverIn(phase) \cup {t}
      BY <3>1 DEF OverIn, Over, Ended
    <3>. QED
      BY <3>1, <3>2 DEF Promise!Abandon, TableOf, OverIn
  <2>6. ASSUME NEW t \in Txn, CommitChecked(t) \/ CommitReturns(t) \/ HandleConflict(t)
        PROVE  Same
    BY <2>6 DEF CommitChecked, CommitReturns, HandleConflict, Same, OverIn, Over, Ended
  <2>7. CASE OtherCommit
    <3>1. PICK e : log' = Append(log, e) /\ e.by = Other /\ e.adds = {}
      BY <2>7 DEF OtherCommit
    <3>2. phase' = phase /\ entry' = entry /\ appended' = appended
      BY <2>7 DEF OtherCommit
    <3>3. log \in Seq(LogEntry \cup {e})
      BY DEF IInv, TypeOK
    <3>4. TableOf(log') = Append(TableOf(log), [by |-> Other, adds |-> {}])
      <4>1. TableOf(Append(log, e)) = Append(TableOf(log), [by |-> e.by, adds |-> e.adds])
        BY ONLY <3>3, e \in LogEntry \cup {e}, TableAppend
      <4>. QED
        BY ONLY <3>1, <4>1
    <3>. QED
      BY <3>2, <3>4 DEF Promise!AbsNext, Promise!Foreign, TableOf
  <2>8. CASE Crash
    <3>. DEFINE gone == {t \in Txn : Live(t)}
    <3>1. gone # {} /\ log' = log /\ entry' = entry /\ appended' = appended
      BY <2>8 DEF Crash
    <3>2. OverIn(phase') = OverIn(phase) \cup gone
      BY <2>8 DEF Crash, OverIn, Over, Ended, Live
    <3>3. Promise!Abandon
      BY <3>1, <3>2 DEF Promise!Abandon, TableOf, OverIn
    <3>. QED
      BY <3>3 DEF Promise!AbsNext
  <2>9. ASSUME UNCHANGED vars PROVE Same
    BY <2>9 DEF vars, Same
  <2>. QED
    BY <2>stutter, <2>1, <2>2, <2>3, <2>4, <2>5, <2>6, <2>7, <2>8, <2>9
       DEF Next, CommitStep, Promise!AbsNext
<1>. QED
  BY <1>1, <1>2, Inductive, PTL DEF Spec, ImplementsPromise, Promise!AbsSpec
============================================================================
