---------------------- MODULE DeltaCreateTableAsProofs ----------------------
(***************************************************************************)
(* Proofs about DeltaCreateTableAs, for any number of statements,          *)
(* partitions and executions, on a file system and on an object store, and *)
(* whether or not a commit may report an error after it wrote version 0.   *)
(***************************************************************************)
EXTENDS DeltaCreateTableAs, TLAPS

\* On a file system what is there is in a directory that is there, in the table's.
Storage ==
    local => /\ \A f \in files : f.dir \in dirs
             /\ zero # NoTable => LogDir \in dirs
             /\ dirs # {} => TableDir \in dirs

\* Version 0 names files of the statement that wrote it, and they are there.
ZeroFiles ==
    /\ zero # NoTable => \A f \in zero.files : f.by = zero.by
    /\ TableKeepsItsFiles

\* What a statement keeps for itself.
Own(s) ==
    /\ phase[s] \in {"make", "list"} \/ created[s] => local
    /\ phase[s] = "new" => ~created[s]
    /\ TableDir \in todo[s] => created[s]
    /\ seen[s] # Other => phase[s] = "list" /\ seen[s] \in todo[s]
    /\ \A f \in written[s] : f.by = s
    /\ phase[s] \in Phases \ {"copying", "committing", "putting", "probe", "remove", "list"} =>
         written[s] = {}
    /\ phase[s] \in {"new", "build"} => kernel[s] = "none"
    /\ phase[s] \in {"committing", "putting"} => kernel[s] = "spent" /\ (Plain(s) \/ attempted[s])
    /\ Plain(s) => /\ phase[s] \notin {"planned", "copying", "probe", "remove", "idle"}
                   /\ written[s] = {}
                   /\ phase[s] \in {"ensure", "make"} => kernel[s] = "none"

\* A statement that was planned when the directory was there did not make it.
FoundIt(s) ==
    s \in older => TableDir \in dirs /\ ~created[s] /\ phase[s] \notin {"new", "make"}

Wrote(s) == zero # NoTable /\ zero.by = s

\* Where the statement that wrote version 0 can be: its create transaction is spent, and
\* CleanUp finds a file of its own in version 0 if there is any.
Owner(s) ==
    Wrote(s) =>
        /\ phase[s] \in {"probe", "remove", "list", "idle", "ended", "crashed"}
        /\ phase[s] \notin {"ended", "crashed"} => kernel[s] = "spent"
        /\ phase[s] = "probe" => attempted[s]
        /\ phase[s] = "remove" => zero.files = {}

\* What a copy wrote stays until its statement is done, and version 0 after a success.
Stays(s) ==
    ~overtaken =>
        /\ phase[s] \in {"copying", "committing", "putting"} => written[s] \subseteq files
        /\ committed[s] => Wrote(s)

\* Which files carry the write_uuid of a statement whose CleanUps all went through.
Carried(s) ==
    ~overtaken /\ s \notin spoiled =>
        /\ phase[s] \in {"new", "ensure", "make", "build", "planned"} => FilesOf(s) = {}
        /\ phase[s] \in {"copying", "committing", "putting"} => FilesOf(s) = written[s]
        /\ phase[s] = "probe" /\ Wrote(s) => FilesOf(s) = zero.files
        /\ phase[s] \in {"list", "idle", "ended"} =>
             FilesOf(s) = IF Wrote(s) THEN zero.files ELSE {}

StmtInv(s) == Own(s) /\ FoundIt(s) /\ Owner(s) /\ Stays(s) /\ Carried(s)

IInv ==
    /\ TypeOK
    /\ Storage
    /\ ZeroFiles
    /\ \A s \in Stmt : StmtInv(s)

----------------------------------------------------------------------------
USE PlacesAssumption, OthersAssumption, RunsAssumption

(* What a step of one statement leaves of another.                         *)

\* The step of someone else leaves what a statement keeps for itself alone.
Untouched(u) ==
    /\ phase'[u] = phase[u] /\ created'[u] = created[u] /\ kernel'[u] = kernel[u]
    /\ attempted'[u] = attempted[u] /\ committed'[u] = committed[u]
    /\ written'[u] = written[u] /\ todo'[u] = todo[u] /\ seen'[u] = seen[u]

\* What anyone does to storage: a table that is there and the files of others stay, unless
\* a directory is removed that is no longer empty.
StorageStep(s) ==
    /\ UNCHANGED setting
    /\ overtaken => overtaken'
    /\ spoiled \subseteq spoiled'
    /\ \/ older' = {}
       \/ older' \subseteq older \cup {s} /\ (TableDir \in dirs => TableDir \in dirs')
    /\ \/ zero' = zero
       \/ zero' = NoTable /\ overtaken'
       \/ zero = NoTable /\ zero' # NoTable /\ zero'.by \in {s, Other}
    /\ \A f \in files' \ files : f.by \in {s, Other}
    /\ ~overtaken' => \A f \in files \ files' : f.by = s

LEMMA OtherStmt ==
    ASSUME IInv, NEW s, StorageStep(s), NEW u \in Stmt, u # s, Untouched(u)
    PROVE  StmtInv(u)'
<1>. USE DEF StorageStep, Untouched, setting
<1>1. StmtInv(u) /\ u # Other
  BY DEF IInv
<1>2. Own(u)' /\ FoundIt(u)'
  BY <1>1 DEF StmtInv, Own, FoundIt, Plain
<1>3. Wrote(u)' => Wrote(u) /\ zero' = zero
  BY <1>1 DEF Wrote
<1>4. Owner(u)'
  BY <1>1, <1>3 DEF StmtInv, Owner
<1>5. ~overtaken' => /\ \A f : f \in files /\ f.by = u <=> f \in files' /\ f.by = u
                     /\ Wrote(u) => Wrote(u)' /\ zero' = zero
  BY <1>1 DEF Wrote
<1>6. Stays(u)'
  BY <1>1, <1>5 DEF StmtInv, Stays, Own
<1>7. Carried(u)'
  <2>. SUFFICES ASSUME ~overtaken', u \notin spoiled' PROVE Carried(u)'
    BY DEF Carried
  <2>1. FilesOf(u)' = FilesOf(u)
    BY <1>5 DEF FilesOf
  <2>. QED
    BY <1>1, <1>3, <1>5, <2>1 DEF StmtInv, Carried
<1>. QED
  BY <1>2, <1>4, <1>6, <1>7 DEF StmtInv

LEMMA OneStmtStep ==
    ASSUME IInv, NEW s, StorageStep(s), \A u \in Stmt \ {s} : Untouched(u),
           TypeOK', Storage', ZeroFiles', s \in Stmt => StmtInv(s)'
    PROVE  IInv'
<1>1. ASSUME NEW u \in Stmt PROVE StmtInv(u)'
  BY OtherStmt
<1>. QED
  BY <1>1 DEF IInv

\* A step that does not touch storage.
Quiet(s) ==
    /\ UNCHANGED <<setting, storageVars, overtaken>>
    /\ spoiled \subseteq spoiled' /\ older' \subseteq older \cup {s}

LEMMA QuietStep ==
    ASSUME IInv, NEW s, Quiet(s), \A u \in Stmt \ {s} : Untouched(u),
           TypeOK', s \in Stmt => StmtInv(s)'
    PROVE  IInv'
<1>. USE DEF Quiet, storageVars, setting
<1>1. StorageStep(s)
  BY DEF StorageStep
<1>2. Storage' /\ ZeroFiles'
  BY DEF IInv, Storage, ZeroFiles, TableKeepsItsFiles
<1>. QED
  BY <1>1, <1>2, OneStmtStep

(* The end of a query.                                                     *)

\* The types of what a statement keeps for itself.
OwnTyped ==
    /\ phase \in [Stmt -> Phases]
    /\ created \in [Stmt -> BOOLEAN]
    /\ kernel \in [Stmt -> {"none", "open", "spent"}]
    /\ attempted \in [Stmt -> BOOLEAN]
    /\ written \in [Stmt -> SUBSET DataFile]
    /\ todo \in [Stmt -> SUBSET Place]
    /\ seen \in [Stmt -> Place \cup {Other}]
    /\ runs \in [Stmt -> 0..MaxRuns]

LEMMA ForgetStep ==
    ASSUME OwnTyped, NEW s \in Stmt, Forget(s), NEW p \in Phases, Become(s, p)
    PROVE  /\ OwnTyped'
           /\ \A u \in Stmt \ {s} : committed'[u] = committed[u] => Untouched(u)
           /\ phase'[s] = p /\ written'[s] = {} /\ todo'[s] = {} /\ seen'[s] = Other
           /\ ~created'[s] /\ kernel'[s] = "none" /\ ~attempted'[s]
<1>1. OwnTyped'
  BY DEF OwnTyped, Forget, Become
<1>2. \A u \in Stmt \ {s} : committed'[u] = committed[u] => Untouched(u)
  BY DEF OwnTyped, Forget, Become, Untouched
<1>3. /\ phase'[s] = p /\ written'[s] = {} /\ todo'[s] = {} /\ seen'[s] = Other
      /\ ~created'[s] /\ kernel'[s] = "none" /\ ~attempted'[s]
  BY DEF OwnTyped, Forget, Become
<1>. QED
  BY <1>1, <1>2, <1>3

LEMMA RestStep ==
    ASSUME OwnTyped, NEW s \in Stmt, Rest(s)
    PROVE  /\ OwnTyped'
           /\ \A u \in Stmt \ {s} : committed'[u] = committed[u] => Untouched(u)
           /\ written'[s] = {} /\ todo'[s] = {} /\ seen'[s] = Other
           /\ created'[s] => created[s]
           /\ \/ phase'[s] = "ended"
              \/ phase'[s] = "idle" /\ kernel'[s] = kernel[s] /\ ~Plain(s)
<1>1. CASE Prepared(s) /\ kernel[s] # "none"
  <2>. USE <1>1 DEF OwnTyped, Rest, Become
  <2>1. OwnTyped'
    BY DEF Phases
  <2>2. \A u \in Stmt \ {s} : committed'[u] = committed[u] => Untouched(u)
    BY DEF Untouched
  <2>. QED
    BY <2>1, <2>2 DEF Prepared, Plain
<1>2. CASE ~(Prepared(s) /\ kernel[s] # "none")
  <2>1. Become(s, "ended") /\ Forget(s) /\ "ended" \in Phases
    BY <1>2 DEF Rest, Phases
  <2>. QED
    BY <2>1, ForgetStep
<1>. QED
  BY <1>1, <1>2

\* A statement rests as the invariant says if storage is as it says by then.
LEMMA RestInv ==
    ASSUME IInv, NEW s \in Stmt, Rest(s), StorageStep(s), s \in older' => s \in older,
           Wrote(s)' => kernel[s] = "spent",
           ~overtaken' /\ committed'[s] => Wrote(s)',
           ~overtaken' /\ s \notin spoiled' =>
              FilesOf(s)' = IF Wrote(s)' THEN zero'.files ELSE {}
    PROVE  StmtInv(s)'
<1>1. OwnTyped /\ StmtInv(s)
  BY DEF IInv, TypeOK, OwnTyped
<1>2. /\ written'[s] = {} /\ todo'[s] = {} /\ seen'[s] = Other
      /\ created'[s] => created[s]
      /\ \/ phase'[s] = "ended"
         \/ phase'[s] = "idle" /\ kernel'[s] = kernel[s] /\ ~Plain(s)
  BY <1>1, RestStep
<1>3. local' = local /\ kind' = kind
  BY DEF StorageStep, setting
<1>4. Own(s)'
  BY <1>1, <1>2, <1>3 DEF StmtInv, Own, Plain
<1>5. FoundIt(s)'
  BY <1>1, <1>2 DEF StmtInv, FoundIt, StorageStep
<1>6. Owner(s)'
  BY <1>2 DEF Owner
<1>7. Stays(s)' /\ Carried(s)'
  BY <1>2 DEF Stays, Carried
<1>. QED
  BY <1>4, <1>5, <1>6, <1>7 DEF StmtInv

LEMMA InitIInv == Init => IInv
<1>. SUFFICES ASSUME Init PROVE IInv
  OBVIOUS
<1>1. TypeOK
  <2>1. OwnTyped
    BY DEF Init, OwnTyped, Phases
  <2>2. /\ local \in BOOLEAN /\ kind \in [Stmt -> Kinds]
        /\ dirs = {} /\ files = {} /\ zero = NoTable
        /\ committed = [u \in Stmt |-> FALSE]
        /\ older = {} /\ spoiled = {} /\ overtaken = FALSE
    BY DEF Init
  <2>. QED
    BY <2>1, <2>2 DEF TypeOK, OwnTyped
<1>2. Storage /\ ZeroFiles
  BY DEF Init, Storage, ZeroFiles, TableKeepsItsFiles
<1>3. ASSUME NEW s \in Stmt PROVE StmtInv(s)
  <2>1. /\ phase[s] = "new" /\ created[s] = FALSE /\ kernel[s] = "none" /\ committed[s] = FALSE
        /\ written[s] = {} /\ todo[s] = {} /\ seen[s] = Other
        /\ zero = NoTable /\ files = {} /\ older = {}
    BY DEF Init
  <2>. QED
    BY ONLY <2>1 DEF StmtInv, Own, FoundIt, Owner, Stays, Carried, Wrote, FilesOf
<1>. QED
  BY <1>1, <1>2, <1>3 DEF IInv

(* Planning and executing, as far as storage is not touched.               *)

LEMMA PlanIInv == ASSUME IInv, NEW s \in Stmt, Plan(s) PROVE IInv'
<1>. USE DEF setting, storageVars, ownVars, cleanVars
<1>1. TypeOK /\ StmtInv(s) /\ phase[s] = "new" /\ older' \subseteq older \cup {s}
  BY DEF IInv, Plan
<1>2. /\ phase' = [phase EXCEPT ![s] = "ensure"] /\ phase'[s] = "ensure"
      /\ UNCHANGED <<setting, storageVars, ownVars, cleanVars, spoiled, overtaken>>
  BY <1>1 DEF Plan, Become, TypeOK
<1>3. TypeOK'
  BY <1>1, <1>2 DEF TypeOK, Phases
<1>4. Quiet(s) /\ \A u \in Stmt \ {s} : Untouched(u)
  BY <1>1, <1>2 DEF Quiet, Untouched, TypeOK
<1>5. Own(s)' /\ Owner(s)' /\ Stays(s)' /\ Carried(s)'
  BY <1>1, <1>2 DEF StmtInv, Own, Owner, Stays, Carried, Wrote, FilesOf, Plain, Phases
<1>6. FoundIt(s)'
  BY <1>1, <1>2 DEF StmtInv, Own, FoundIt, Plan
<1>. QED
  BY <1>3, <1>4, <1>5, <1>6, QuietStep DEF StmtInv

\* Steps that change the phase, the create transaction, commit_attempted and nothing else
\* of what the invariant speaks of.
LEMMA PhaseIInv ==
    ASSUME IInv, NEW s \in Stmt,
           \/ FindDirectory(s) \/ MissDirectory(s) \/ BuildTransaction(s) \/ EndPlanning(s)
           \/ Execute(s) \/ Finalize(s) \/ DecideToRemove(s)
    PROVE  IInv'
<1>. USE DEF setting, storageVars, ownVars, cleanVars
<1>1. TypeOK /\ StmtInv(s) /\ phase[s] \in Phases /\ kernel[s] \in {"none", "open", "spent"}
  BY DEF IInv, TypeOK
<1>2. /\ UNCHANGED <<setting, storageVars, created, committed, written, cleanVars, older,
                     spoiled, overtaken>>
  BY DEF FindDirectory, MissDirectory, BuildTransaction, EndPlanning, Execute, Finalize,
     DecideToRemove
<1>3. /\ phase' = [phase EXCEPT ![s] = phase'[s]] /\ phase'[s] \in Phases
      /\ kernel' = [kernel EXCEPT ![s] = kernel'[s]]
      /\ kernel'[s] \in {"none", "open", "spent"}
      /\ attempted' = [attempted EXCEPT ![s] = attempted'[s]] /\ attempted'[s] \in BOOLEAN
      /\ runs' \in [Stmt -> 0..MaxRuns]
      /\ Own(s)' /\ Owner(s)' /\ Stays(s)' /\ Carried(s)'
      /\ phase'[s] \in {"new", "make"} => TableDir \notin dirs
  <2>. USE <1>1, <1>2 DEF TypeOK, Become, Phases
  <2>1. CASE FindDirectory(s)
    <3>1. /\ phase[s] = "ensure"
          /\ phase' = [phase EXCEPT ![s] = IF kernel[s] = "none" THEN "build" ELSE "copying"]
          /\ UNCHANGED <<kernel, attempted, runs>>
      BY <2>1 DEF FindDirectory, Ensured
    <3>. QED
      BY <3>1 DEF StmtInv, Own, Owner, Stays, Carried, Wrote, FilesOf, Plain
  <2>2. CASE MissDirectory(s)
    <3>1. /\ phase[s] = "ensure" /\ local /\ TableDir \notin dirs
          /\ phase' = [phase EXCEPT ![s] = "make"] /\ UNCHANGED <<kernel, attempted, runs>>
      BY <2>2 DEF MissDirectory
    <3>. QED
      BY <3>1 DEF StmtInv, Own, Owner, Stays, Carried, Wrote, FilesOf, Plain
  <2>3. CASE BuildTransaction(s)
    <3>1. /\ phase[s] = "build" /\ zero = NoTable
          /\ IF Plain(s)
             THEN /\ phase' = [phase EXCEPT ![s] = "committing"]
                  /\ kernel' = [kernel EXCEPT ![s] = "spent"]
             ELSE /\ phase' = [phase EXCEPT ![s] = "planned"]
                  /\ kernel' = [kernel EXCEPT ![s] = "open"]
          /\ UNCHANGED <<attempted, runs>>
      BY <2>3 DEF BuildTransaction
    <3>. QED
      BY <3>1 DEF StmtInv, Own, Owner, Stays, Carried, Wrote, FilesOf, Plain
  <2>4. CASE EndPlanning(s)
    <3>1. /\ phase[s] = "planned" /\ phase' = [phase EXCEPT ![s] = "probe"]
          /\ UNCHANGED <<kernel, attempted, runs>>
      BY <2>4 DEF EndPlanning
    <3>. QED
      BY <3>1 DEF StmtInv, Own, Owner, Stays, Carried, Wrote, FilesOf, Plain
  <2>5. CASE Execute(s)
    <3>1. /\ phase[s] \in {"idle", "planned"} /\ phase' = [phase EXCEPT ![s] = "ensure"]
          /\ kernel[s] = "open" /\ UNCHANGED <<kernel, attempted>>
          /\ runs[s] < MaxRuns /\ runs' = [runs EXCEPT ![s] = @ + 1]
      BY <2>5 DEF Execute, MayExecute
    <3>2. runs' \in [Stmt -> 0..MaxRuns]
      BY <3>1
    <3>. QED
      BY <3>1, <3>2 DEF StmtInv, Own, Owner, Stays, Carried, Wrote, FilesOf, Plain
  <2>6. CASE Finalize(s)
    <3>1. /\ phase[s] = "copying" /\ phase' = [phase EXCEPT ![s] = "committing"]
          /\ kernel' = [kernel EXCEPT ![s] = "spent"]
          /\ attempted' = [attempted EXCEPT ![s] = TRUE] /\ UNCHANGED runs
      BY <2>6 DEF Finalize
    <3>. QED
      BY <3>1 DEF StmtInv, Own, Owner, Stays, Carried, Wrote, FilesOf, Plain
  <2>7. CASE DecideToRemove(s)
    <3>1. /\ phase[s] = "probe" /\ phase' = [phase EXCEPT ![s] = "remove"]
          /\ ~VersionZeroIsOurs(s) /\ UNCHANGED <<kernel, attempted, runs>>
      BY <2>7 DEF DecideToRemove
    <3>2. Wrote(s) => zero.files = {}
      BY <3>1 DEF VersionZeroIsOurs, DeltaTableExistsAt, Wrote, IInv, Storage, ZeroFiles,
         StmtInv, Owner
    <3>. QED
      BY <3>1, <3>2 DEF StmtInv, Own, Owner, Stays, Carried, Wrote, FilesOf, Plain
  <2>. QED
    BY <2>1, <2>2, <2>3, <2>4, <2>5, <2>6, <2>7
<1>4. TypeOK'
  BY <1>1, <1>2, <1>3 DEF TypeOK
<1>5. Quiet(s) /\ \A u \in Stmt \ {s} : Untouched(u)
  BY <1>1, <1>2, <1>3 DEF Quiet, Untouched, TypeOK
<1>6. FoundIt(s)'
  BY <1>1, <1>2, <1>3 DEF StmtInv, FoundIt
<1>. QED
  BY <1>3, <1>4, <1>5, <1>6, QuietStep DEF StmtInv

(* Failing.                                                                *)

LEMMA FailStep ==
    ASSUME OwnTyped, NEW s \in Stmt, NEW registered, FailWith(s, registered)
    PROVE  /\ OwnTyped'
           /\ \A u \in Stmt \ {s} : committed'[u] = committed[u] => Untouched(u)
           /\ \/ /\ registered /\ ~Plain(s) /\ phase'[s] = "probe"
                 /\ UNCHANGED <<created, kernel, attempted, written, todo, seen>>
              \/ ~(registered /\ ~Plain(s)) /\ Rest(s)
<1>1. CASE registered /\ ~Plain(s)
  <2>1. /\ phase' = [phase EXCEPT ![s] = "probe"]
        /\ UNCHANGED <<created, kernel, attempted, written, runs, todo, seen>>
    BY <1>1 DEF FailWith, Become, cleanVars
  <2>2. OwnTyped'
    BY <2>1 DEF OwnTyped, Phases
  <2>3. \A u \in Stmt \ {s} : committed'[u] = committed[u] => Untouched(u)
    BY <2>1 DEF OwnTyped, Untouched
  <2>. QED
    BY <1>1, <2>1, <2>2, <2>3 DEF OwnTyped
<1>2. CASE ~(registered /\ ~Plain(s))
  <2>1. Rest(s)
    BY <1>2 DEF FailWith
  <2>. QED
    BY <1>2, <2>1, RestStep
<1>. QED
  BY <1>1, <1>2

\* What a quiet step leaves alone of the types.
LEMMA QuietTypes ==
    ASSUME TypeOK, OwnTyped', UNCHANGED <<setting, storageVars, committed, older, overtaken>>,
           spoiled' \in SUBSET Stmt
    PROVE  TypeOK'
  BY DEF TypeOK, OwnTyped, setting, storageVars

\* A statement that did not write version 0 fails: the query ends at once if it wrote no
\* files, and with CleanUp otherwise.
LEMMA FailsIInv ==
    ASSUME IInv, NEW s \in Stmt, QueryFails(s) \/ CommitFails(s) \/ BuildRefused(s)
    PROVE  IInv'
<1>. USE DEF setting, storageVars, cleanVars
<1>1. TypeOK /\ OwnTyped /\ StmtInv(s)
  BY DEF IInv, TypeOK, OwnTyped
<1>2. /\ UNCHANGED <<setting, storageVars, committed, older, spoiled, overtaken>>
      /\ phase[s] \in {"ensure", "make", "build", "planned", "copying", "committing", "putting"}
  BY DEF QueryFails, CommitFails, BuildRefused
<1>3. ~Wrote(s) /\ ~Wrote(s)' /\ FilesOf(s)' = FilesOf(s) /\ (committed'[s] => overtaken)
  BY <1>1, <1>2 DEF StmtInv, Owner, Stays, Wrote, FilesOf
<1>4. ASSUME NEW registered, FailWith(s, registered),
             ~(registered /\ ~Plain(s)) => Plain(s) \/ phase[s] \in {"ensure", "make"}
      PROVE  /\ OwnTyped' /\ StmtInv(s)' /\ \A u \in Stmt \ {s} : Untouched(u)
  <2>1. /\ OwnTyped' /\ \A u \in Stmt \ {s} : Untouched(u)
        /\ \/ /\ ~Plain(s) /\ phase'[s] = "probe"
              /\ UNCHANGED <<created, kernel, attempted, written, todo, seen>>
           \/ ~(registered /\ ~Plain(s)) /\ Rest(s)
    BY <1>1, <1>2, <1>4, FailStep
  <2>2. CASE /\ ~Plain(s) /\ phase'[s] = "probe"
             /\ UNCHANGED <<created, kernel, attempted, written, todo, seen>>
    BY <1>1, <1>2, <1>3, <2>1, <2>2 DEF StmtInv, Own, FoundIt, Owner, Stays, Carried, Plain
  <2>3. CASE ~(registered /\ ~Plain(s)) /\ Rest(s)
    <3>1. ~overtaken' /\ s \notin spoiled' => FilesOf(s)' = {}
      BY <1>1, <1>2, <1>3, <1>4, <2>3 DEF StmtInv, Own, Carried
    <3>2. StorageStep(s)
      BY <1>2 DEF StorageStep
    <3>. QED
      BY <1>2, <1>3, <2>1, <2>3, <3>1, <3>2, RestInv
  <2>. QED
    BY <2>1, <2>2, <2>3
<1>5. OwnTyped' /\ StmtInv(s)' /\ \A u \in Stmt \ {s} : Untouched(u)
  <2>1. CASE QueryFails(s)
    <3>1. PICK r : /\ r = (phase[s] \in {"planned", "copying"} \/ kernel[s] = "none"
                             \/ ~Prepared(s))
                   /\ FailWith(s, r)
      BY <2>1 DEF QueryFails
    <3>2. ~(r /\ ~Plain(s)) => Plain(s) \/ phase[s] \in {"ensure", "make"}
      BY <2>1, <3>1 DEF QueryFails
    <3>. QED
      BY <1>4, <3>1, <3>2
  <2>2. CASE CommitFails(s)
    BY <1>4, <2>2 DEF CommitFails
  <2>3. CASE BuildRefused(s) /\ ~(Plain(s) /\ created[s] /\ ~DeltaTableExistsAt)
    BY <1>4, <2>3 DEF BuildRefused
  <2>4. CASE BuildRefused(s) /\ Plain(s) /\ created[s] /\ ~DeltaTableExistsAt
    <3>1. /\ phase' = [phase EXCEPT ![s] = "list"] /\ todo' = [todo EXCEPT ![s] = {TableDir}]
          /\ UNCHANGED <<created, kernel, attempted, written, runs, seen>>
      BY <2>4 DEF BuildRefused, Become
    <3>2. OwnTyped' /\ \A u \in Stmt \ {s} : Untouched(u)
      BY <1>1, <1>2, <3>1 DEF OwnTyped, Untouched, Phases, Place
    <3>3. phase'[s] = "list" /\ todo'[s] = {TableDir} /\ phase[s] = "build"
      BY <1>1, <2>4, <3>1 DEF OwnTyped, BuildRefused
    <3>4. Own(s)'
      BY <1>1, <1>2, <2>4, <3>1, <3>3 DEF StmtInv, Own, Plain
    <3>5. FoundIt(s)' /\ Owner(s)' /\ Stays(s)' /\ Carried(s)'
      BY <1>1, <1>2, <1>3, <3>1, <3>3 DEF StmtInv, FoundIt, Owner, Stays, Carried
    <3>. QED
      BY <3>2, <3>4, <3>5 DEF StmtInv
  <2>. QED
    BY <2>1, <2>2, <2>3, <2>4
<1>6. TypeOK'
  BY <1>1, <1>2, <1>5, QuietTypes DEF TypeOK
<1>. QED
  BY <1>2, <1>5, <1>6, QuietStep DEF Quiet

LEMMA CrashIInv == ASSUME IInv, NEW s \in Stmt, Crash(s) PROVE IInv'
<1>. USE DEF setting, storageVars
<1>1. TypeOK /\ OwnTyped /\ StmtInv(s)
  BY DEF IInv, TypeOK, OwnTyped
<1>2. /\ UNCHANGED <<setting, storageVars, committed, older, spoiled, overtaken>>
      /\ Become(s, "crashed") /\ Forget(s) /\ "crashed" \in Phases
  BY DEF Crash, Phases
<1>3. /\ OwnTyped' /\ \A u \in Stmt \ {s} : Untouched(u)
      /\ phase'[s] = "crashed" /\ written'[s] = {} /\ todo'[s] = {} /\ seen'[s] = Other
      /\ ~created'[s]
  BY <1>1, <1>2, ForgetStep
<1>4. StmtInv(s)'
  BY <1>1, <1>2, <1>3 DEF StmtInv, Own, FoundIt, Owner, Stays, Carried, Wrote
<1>5. TypeOK'
  BY <1>1, <1>2, <1>3, QuietTypes DEF TypeOK
<1>. QED
  BY <1>2, <1>3, <1>4, <1>5, QuietStep DEF Quiet

(* Making directories and writing files.                                   *)

LEMMA MakeIInv ==
    ASSUME IInv, NEW s \in Stmt, MakeDirectory(s) \/ MakeLogDirectory(s)
    PROVE  IInv'
<1>. USE DEF setting, ownVars, cleanVars
<1>1. TypeOK /\ OwnTyped /\ StmtInv(s) /\ Storage /\ ZeroFiles
  BY DEF IInv, TypeOK, OwnTyped
<1>2. /\ UNCHANGED <<setting, files, zero, kernel, attempted, committed, written, runs,
                     cleanVars, older, spoiled, overtaken>>
      /\ dirs' \in SUBSET Place /\ dirs \subseteq dirs' /\ TableDir \in dirs'
  BY <1>1 DEF MakeDirectory, MakeLogDirectory, TypeOK, Place
<1>3. StorageStep(s) /\ Storage' /\ ZeroFiles'
  BY <1>1, <1>2 DEF StorageStep, Storage, ZeroFiles, TableKeepsItsFiles
<1>4. OwnTyped' /\ StmtInv(s)' /\ \A u \in Stmt \ {s} : Untouched(u)
  <2>1. CASE MakeDirectory(s)
    <3>1. /\ phase[s] = "make" /\ created' = [created EXCEPT ![s] = TRUE]
          /\ phase' = [phase EXCEPT ![s] = IF kernel[s] = "none" THEN "build" ELSE "copying"]
      BY <2>1 DEF MakeDirectory, Ensured, Become
    <3>2. OwnTyped' /\ \A u \in Stmt \ {s} : Untouched(u)
      BY <1>1, <1>2, <3>1 DEF OwnTyped, Untouched, Phases
    <3>3. Own(s)' /\ FoundIt(s)'
      BY <1>1, <1>2, <3>1 DEF OwnTyped, StmtInv, Own, FoundIt, Plain, Phases
    <3>4. Owner(s)' /\ Stays(s)' /\ Carried(s)'
      BY <1>1, <1>2, <3>1 DEF OwnTyped, StmtInv, Own, Owner, Stays, Carried, Wrote, FilesOf,
         Phases
    <3>. QED
      BY <3>2, <3>3, <3>4 DEF StmtInv
  <2>2. CASE MakeLogDirectory(s)
    <3>1. /\ phase[s] = "committing" /\ phase' = [phase EXCEPT ![s] = "putting"]
          /\ UNCHANGED created
      BY <2>2 DEF MakeLogDirectory, Become
    <3>2. OwnTyped' /\ \A u \in Stmt \ {s} : Untouched(u)
      BY <1>1, <1>2, <3>1 DEF OwnTyped, Untouched, Phases
    <3>3. Own(s)' /\ FoundIt(s)'
      BY <1>1, <1>2, <3>1 DEF OwnTyped, StmtInv, Own, FoundIt, Plain, Phases
    <3>4. Owner(s)' /\ Stays(s)' /\ Carried(s)'
      BY <1>1, <1>2, <3>1 DEF OwnTyped, StmtInv, Own, Owner, Stays, Carried, Wrote, FilesOf,
         Phases
    <3>. QED
      BY <3>2, <3>3, <3>4 DEF StmtInv
  <2>. QED
    BY <2>1, <2>2
<1>5. TypeOK'
  BY <1>1, <1>2, <1>4 DEF TypeOK, OwnTyped
<1>. QED
  BY <1>3, <1>4, <1>5, OneStmtStep

LEMMA WriteIInv == ASSUME IInv, NEW s \in Stmt, WriteFile(s) PROVE IInv'
<1>. USE DEF setting, cleanVars
<1>1. TypeOK /\ OwnTyped /\ StmtInv(s) /\ Storage /\ ZeroFiles
  BY DEF IInv, TypeOK, OwnTyped
<1>2. PICK d \in Part \cup {TableDir} :
         /\ files' = files \cup {[by |-> s, dir |-> d]}
         /\ written' = [written EXCEPT ![s] = @ \cup {[by |-> s, dir |-> d]}]
         /\ dirs' = WithDirs({d})
  BY DEF WriteFile
<1>. DEFINE f == [by |-> s, dir |-> d]
<1>3. f \in DataFile /\ f.by = s /\ f.dir = d
  BY DEF DataFile
<1>4. /\ phase[s] = "copying" /\ (local => TableDir \in dirs)
      /\ UNCHANGED <<setting, zero, phase, created, kernel, attempted, committed, runs,
                     cleanVars, older, spoiled, overtaken>>
  BY DEF WriteFile
<1>. HIDE DEF f
<1>5. /\ files' = files \cup {f} /\ written' = [written EXCEPT ![s] = @ \cup {f}]
      /\ written'[s] = written[s] \cup {f}
  BY <1>1, <1>2 DEF f, OwnTyped
<1>6. dirs' \in SUBSET Place /\ dirs \subseteq dirs' /\ (local => d \in dirs')
  BY <1>1, <1>2 DEF WithDirs, TypeOK, Place
<1>7. TypeOK'
  BY <1>1, <1>3, <1>4, <1>5, <1>6 DEF TypeOK
<1>8. StorageStep(s)
  BY <1>3, <1>4, <1>5, <1>6 DEF StorageStep
<1>9. Storage' /\ ZeroFiles'
  BY <1>1, <1>3, <1>4, <1>5, <1>6 DEF Storage, ZeroFiles, TableKeepsItsFiles
<1>10. \A u \in Stmt \ {s} : Untouched(u)
  BY <1>1, <1>4, <1>5 DEF OwnTyped, Untouched
<1>11. Own(s)' /\ FoundIt(s)' /\ Owner(s)'
  BY <1>1, <1>3, <1>4, <1>5, <1>6 DEF StmtInv, Own, FoundIt, Owner, Wrote, Plain
<1>12. Stays(s)'
  BY <1>1, <1>4, <1>5 DEF StmtInv, Stays, Wrote
<1>13. Carried(s)'
  <2>1. FilesOf(s)' = FilesOf(s) \cup {f}
    BY <1>3, <1>5 DEF FilesOf
  <2>. QED
    BY <1>1, <1>4, <1>5, <2>1 DEF StmtInv, Carried
<1>. QED
  BY <1>7, <1>8, <1>9, <1>10, <1>11, <1>12, <1>13, OneStmtStep DEF StmtInv

LEMMA PutIInv == ASSUME IInv, NEW s \in Stmt, CommitSucceeds(s) \/ CommitLies(s) PROVE IInv'
<1>. USE DEF setting
<1>1. TypeOK /\ OwnTyped /\ StmtInv(s) /\ Storage /\ ZeroFiles /\ written[s] \subseteq DataFile
  BY DEF IInv, TypeOK, OwnTyped
<1>2. PICK z : z = [by |-> s, files |-> written[s]]
  OBVIOUS
<1>3. /\ phase[s] \in {"putting", "committing"} /\ zero = NoTable /\ zero' = z
      /\ dirs' = WithDirs({TableDir, LogDir})
      /\ UNCHANGED <<setting, files, older, spoiled, overtaken>>
  BY <1>2 DEF CommitSucceeds, CommitLies, PutVersionZero
<1>4. z \in Version /\ z # NoTable /\ z.by = s /\ z.files = written[s]
  BY <1>1, <1>2 DEF Version
<1>5. /\ dirs' \in SUBSET Place /\ dirs \subseteq dirs'
      /\ local => TableDir \in dirs' /\ LogDir \in dirs'
  BY <1>1, <1>3 DEF WithDirs, TypeOK, Place
<1>6. Wrote(s)' /\ FilesOf(s)' = FilesOf(s) /\ StorageStep(s)
  BY <1>3, <1>4, <1>5 DEF Wrote, FilesOf, StorageStep
<1>7. Storage' /\ ZeroFiles'
  BY <1>1, <1>3, <1>4, <1>5 DEF Storage, ZeroFiles, TableKeepsItsFiles, StmtInv, Own, Stays
<1>8. /\ kernel[s] = "spent" /\ (Plain(s) \/ attempted[s])
      /\ ~overtaken /\ s \notin spoiled => FilesOf(s)' = zero'.files
  BY <1>1, <1>3, <1>4, <1>6 DEF StmtInv, Own, Carried
<1>9. /\ Rest(s) => StmtInv(s)'
  BY <1>3, <1>6, <1>8, RestInv
<1>10. /\ OwnTyped' /\ StmtInv(s)' /\ \A u \in Stmt \ {s} : Untouched(u)
       /\ committed' \in [Stmt -> BOOLEAN]
  <2>1. CASE CommitSucceeds(s)
    <3>1. Rest(s) /\ committed' = [committed EXCEPT ![s] = TRUE]
      BY <2>1 DEF CommitSucceeds
    <3>2. /\ committed' \in [Stmt -> BOOLEAN]
          /\ \A u \in Stmt \ {s} : committed'[u] = committed[u]
      BY <1>1, <3>1 DEF TypeOK
    <3>. QED
      BY <1>1, <1>9, <3>1, <3>2, RestStep
  <2>2. CASE CommitLies(s)
    <3>1. FailWith(s, TRUE) /\ committed' = committed
      BY <2>2 DEF CommitLies
    <3>2. /\ OwnTyped' /\ \A u \in Stmt \ {s} : Untouched(u)
          /\ \/ /\ ~Plain(s) /\ phase'[s] = "probe"
                /\ UNCHANGED <<created, kernel, attempted, written, todo, seen>>
             \/ Rest(s)
      BY <1>1, <3>1, FailStep
    <3>3. CASE /\ ~Plain(s) /\ phase'[s] = "probe"
               /\ UNCHANGED <<created, kernel, attempted, written, todo, seen>>
      <4>1. Own(s)' /\ FoundIt(s)'
        BY <1>1, <1>3, <1>5, <3>3 DEF StmtInv, Own, FoundIt, Plain
      <4>2. Owner(s)' /\ Stays(s)' /\ Carried(s)'
        BY <1>3, <1>6, <1>8, <3>3 DEF Owner, Stays, Carried
      <4>. QED
        BY <1>1, <3>1, <3>2, <4>1, <4>2 DEF StmtInv, TypeOK
    <3>. QED
      BY <1>1, <1>9, <3>1, <3>2, <3>3 DEF TypeOK
  <2>. QED
    BY <2>1, <2>2
<1>11. TypeOK'
  BY <1>1, <1>3, <1>4, <1>5, <1>10 DEF TypeOK, OwnTyped
<1>. QED
  BY <1>6, <1>7, <1>10, <1>11, OneStmtStep

LEMMA EnvironmentIInv == ASSUME IInv, OtherMakesDirectory \/ OtherCreatesTable PROVE IInv'
<1>. USE DEF setting, ownVars, cleanVars
<1>1. TypeOK /\ Storage /\ ZeroFiles
  BY DEF IInv
<1>2. UNCHANGED <<setting, phase, ownVars, cleanVars, older, spoiled, overtaken>>
  BY DEF OtherMakesDirectory, OtherCreatesTable
<1>3. \A u \in Stmt : Untouched(u)
  BY <1>2 DEF Untouched
<1>4. CASE OtherMakesDirectory
  <2>1. dirs' = dirs \cup {TableDir} /\ UNCHANGED <<files, zero>>
    BY <1>4 DEF OtherMakesDirectory
  <2>2. TypeOK'
    BY <1>1, <1>2, <2>1 DEF TypeOK, Place
  <2>3. StorageStep(Other) /\ Storage' /\ ZeroFiles'
    BY <1>1, <1>2, <2>1 DEF StorageStep, Storage, ZeroFiles, TableKeepsItsFiles
  <2>. QED
    BY <1>3, <2>2, <2>3, OneStmtStep
<1>5. CASE OtherCreatesTable
  <2>1. PICK f, z : f = [by |-> Other, dir |-> TableDir] /\ z = [by |-> Other, files |-> {f}]
    OBVIOUS
  <2>2. /\ zero = NoTable /\ zero' = z /\ files' = files \cup {f}
        /\ dirs' = WithDirs({TableDir, LogDir})
    BY <1>5, <2>1 DEF OtherCreatesTable
  <2>3. f \in DataFile /\ f.by = Other /\ f.dir = TableDir
    BY <2>1 DEF DataFile
  <2>4. z \in Version /\ z.by = Other /\ z.files = {f} /\ z # NoTable
    BY <2>1, <2>3 DEF Version
  <2>5. /\ dirs' \in SUBSET Place /\ dirs \subseteq dirs'
        /\ local => TableDir \in dirs' /\ LogDir \in dirs'
    BY <1>1, <2>2 DEF WithDirs, TypeOK, Place
  <2>6. TypeOK'
    BY <1>1, <1>2, <2>2, <2>3, <2>4, <2>5 DEF TypeOK
  <2>7. StorageStep(Other)
    BY <1>2, <2>2, <2>3, <2>4, <2>5 DEF StorageStep
  <2>8. Storage' /\ ZeroFiles'
    BY <1>1, <1>2, <2>2, <2>3, <2>4, <2>5 DEF Storage, ZeroFiles, TableKeepsItsFiles
  <2>. QED
    BY <1>3, <2>6, <2>7, <2>8, OneStmtStep
<1>. QED
  BY <1>4, <1>5

(* CleanUp.                                                                *)

LEMMA KeepIInv == ASSUME IInv, NEW s \in Stmt, KeepFiles(s) PROVE IInv'
<1>. USE DEF setting, storageVars
<1>1. TypeOK /\ OwnTyped /\ StmtInv(s) /\ ZeroFiles
  BY DEF IInv, TypeOK, OwnTyped
<1>2. /\ phase[s] = "probe" /\ VersionZeroIsOurs(s) /\ Rest(s)
      /\ UNCHANGED <<setting, storageVars, committed, older, spoiled, overtaken>>
  BY DEF KeepFiles
<1>3. Wrote(s)
  BY <1>1, <1>2 DEF VersionZeroIsOurs, ZeroFiles, Wrote
<1>4. Wrote(s)' /\ FilesOf(s)' = FilesOf(s) /\ StorageStep(s)
  BY <1>2, <1>3 DEF Wrote, FilesOf, StorageStep
<1>5. StmtInv(s)'
  BY <1>1, <1>2, <1>3, <1>4, RestInv DEF StmtInv, Owner, Carried
<1>6. OwnTyped' /\ \A u \in Stmt \ {s} : Untouched(u)
  BY <1>1, <1>2, RestStep
<1>7. TypeOK'
  BY <1>1, <1>2, <1>6, QuietTypes DEF TypeOK
<1>. QED
  BY <1>2, <1>5, <1>6, <1>7, QuietStep DEF Quiet

\* Removing files that carry the write_uuid of a statement: version 0 names none of them.
LEMMA RemoveOwnFiles ==
    ASSUME IInv, NEW s \in Stmt, phase[s] = "remove", NEW gone \in SUBSET FilesOf(s),
           files' = files \ gone,
           UNCHANGED <<setting, dirs, zero, older, overtaken>>, spoiled \subseteq spoiled'
    PROVE  StorageStep(s) /\ Storage' /\ ZeroFiles' /\ Wrote(s)' = Wrote(s)
<1>. USE DEF setting
<1>1. StmtInv(s) /\ Storage /\ ZeroFiles
  BY DEF IInv
<1>2. \A f \in gone : f \in files /\ f.by = s
  BY DEF FilesOf
<1>3. StorageStep(s) /\ Storage' /\ Wrote(s)' = Wrote(s)
  BY <1>1, <1>2 DEF StorageStep, Storage, Wrote
<1>4. ZeroFiles'
  BY <1>1, <1>2 DEF ZeroFiles, TableKeepsItsFiles, StmtInv, Owner, Wrote
<1>. QED
  BY <1>3, <1>4

LEMMA RemoveIInv == ASSUME IInv, NEW s \in Stmt, RemoveFiles(s) PROVE IInv'
<1>. USE DEF setting
<1>1. TypeOK /\ OwnTyped /\ StmtInv(s)
  BY DEF IInv, TypeOK, OwnTyped
<1>2. /\ phase[s] = "remove" /\ files' = files \ FilesOf(s)
      /\ UNCHANGED <<setting, dirs, zero, committed, older, spoiled, overtaken>>
  BY DEF RemoveFiles, Removed
<1>3. StorageStep(s) /\ Storage' /\ ZeroFiles' /\ Wrote(s)' = Wrote(s)
  BY <1>2, RemoveOwnFiles
<1>4. FilesOf(s)' = {}
  BY <1>2 DEF FilesOf
<1>5. Wrote(s) => kernel[s] = "spent" /\ zero' = zero /\ zero.files = {}
  BY <1>1, <1>2 DEF StmtInv, Owner
<1>6. OwnTyped' /\ StmtInv(s)' /\ \A u \in Stmt \ {s} : Untouched(u)
  <2>1. CASE local
    <3>1. /\ phase' = [phase EXCEPT ![s] = "list"]
          /\ todo' = [todo EXCEPT ![s] = DirectoriesToTry(s)]
          /\ UNCHANGED <<created, kernel, attempted, written, runs, seen>>
      BY <2>1 DEF RemoveFiles, Become
    <3>2. /\ DirectoriesToTry(s) \subseteq Place
          /\ TableDir \in DirectoriesToTry(s) => created[s]
      BY <1>1 DEF DirectoriesToTry, Removed, FilesOf, Place, TypeOK, DataFile
    <3>3. OwnTyped' /\ \A u \in Stmt \ {s} : Untouched(u)
      BY <1>1, <1>2, <3>1, <3>2 DEF OwnTyped, Untouched, Phases
    <3>4. phase'[s] = "list" /\ todo'[s] = DirectoriesToTry(s)
      BY <1>1, <3>1 DEF OwnTyped
    <3>5. Own(s)' /\ FoundIt(s)'
      BY <1>1, <1>2, <2>1, <3>1, <3>2, <3>4 DEF StmtInv, Own, FoundIt, Plain
    <3>6. Owner(s)' /\ Stays(s)' /\ Carried(s)'
      BY <1>1, <1>2, <1>3, <1>4, <1>5, <3>1, <3>4 DEF StmtInv, Owner, Stays, Carried
    <3>. QED
      BY <3>3, <3>5, <3>6 DEF StmtInv
  <2>2. CASE ~local
    <3>1. Rest(s)
      BY <2>2 DEF RemoveFiles
    <3>2. StmtInv(s)'
      BY <1>1, <1>2, <1>3, <1>4, <1>5, <3>1, RestInv DEF StmtInv, Stays
    <3>. QED
      BY <1>1, <1>2, <3>1, <3>2, RestStep
  <2>. QED
    BY <2>1, <2>2
<1>7. TypeOK'
  BY <1>1, <1>2, <1>6 DEF TypeOK, OwnTyped
<1>. QED
  BY <1>3, <1>6, <1>7, OneStmtStep

\* CleanUp fails, which spoils what is claimed of the files of this statement only.
LEMMA CleanUpFailsIInv == ASSUME IInv, NEW s \in Stmt, CleanUpFails(s) PROVE IInv'
<1>. USE DEF setting
<1>1. TypeOK /\ OwnTyped /\ StmtInv(s)
  BY DEF IInv, TypeOK, OwnTyped
<1>2. /\ phase[s] \in {"probe", "remove", "list"} /\ spoiled' = spoiled \cup {s} /\ Rest(s)
      /\ UNCHANGED <<setting, dirs, zero, committed, older, overtaken>>
  BY DEF CleanUpFails
<1>3. StorageStep(s) /\ Storage' /\ ZeroFiles' /\ Wrote(s)' = Wrote(s) /\ files' \subseteq files
  <2>1. CASE UNCHANGED files
    BY <1>2, <2>1 DEF StorageStep, IInv, Storage, ZeroFiles, TableKeepsItsFiles, Wrote
  <2>2. CASE phase[s] = "remove" /\ \E gone \in SUBSET FilesOf(s) : files' = files \ gone
    BY <1>2, <2>2, RemoveOwnFiles
  <2>. QED
    BY <2>1, <2>2 DEF CleanUpFails
<1>4. StmtInv(s)'
  BY <1>1, <1>2, <1>3, RestInv DEF StmtInv, Owner, Stays
<1>5. OwnTyped' /\ \A u \in Stmt \ {s} : Untouched(u)
  BY <1>1, <1>2, RestStep
<1>6. TypeOK'
  BY <1>1, <1>2, <1>3, <1>5 DEF TypeOK, OwnTyped
<1>. QED
  BY <1>3, <1>4, <1>5, <1>6, OneStmtStep

\* CleanUp is done with a directory, which cost nothing or overtook someone.
LEMMA TriedStep ==
    ASSUME IInv, NEW s \in Stmt, NEW p, phase[s] = "list", Tried(s, p), StorageStep(s),
           UNCHANGED <<committed, spoiled>>, older' \subseteq older,
           zero' \in {zero, NoTable}, ~overtaken' => zero' = zero /\ files' = files
    PROVE  OwnTyped' /\ StmtInv(s)' /\ \A u \in Stmt \ {s} : Untouched(u)
<1>1. TypeOK /\ OwnTyped /\ StmtInv(s) /\ local' = local /\ kind' = kind
  BY DEF IInv, TypeOK, OwnTyped, StorageStep, setting
<1>2. Wrote(s)' => Wrote(s) /\ zero' = zero
  BY DEF Wrote
<1>3. ~overtaken' => /\ ~overtaken /\ FilesOf(s)' = FilesOf(s) /\ Wrote(s)' = Wrote(s)
                     /\ zero' = zero
  BY DEF StorageStep, FilesOf, Wrote
<1>4. CASE todo[s] = {p}
  <2>1. Rest(s)
    BY <1>4 DEF Tried
  <2>2. StmtInv(s)'
    BY <1>1, <1>2, <1>3, <2>1, RestInv DEF StmtInv, Owner, Stays, Carried
  <2>. QED
    BY <1>1, <2>1, <2>2, RestStep
<1>5. CASE todo[s] # {p}
  <2>1. /\ todo' = [todo EXCEPT ![s] = @ \ {p}] /\ seen' = [seen EXCEPT ![s] = Other]
        /\ UNCHANGED <<phase, created, kernel, attempted, written, runs>>
    BY <1>5 DEF Tried
  <2>2. OwnTyped' /\ \A u \in Stmt \ {s} : Untouched(u)
    BY <1>1, <2>1 DEF OwnTyped, Untouched
  <2>3. todo'[s] \subseteq todo[s] /\ seen'[s] = Other
    BY <1>1, <2>1 DEF OwnTyped
  <2>4. Own(s)' /\ FoundIt(s)'
    BY <1>1, <2>1, <2>3 DEF StmtInv, Own, FoundIt, Plain, StorageStep
  <2>5. Owner(s)' /\ Stays(s)' /\ Carried(s)'
    BY <1>1, <1>2, <1>3, <2>1 DEF StmtInv, Owner, Stays, Carried
  <2>. QED
    BY <2>2, <2>4, <2>5 DEF StmtInv
<1>. QED
  BY <1>4, <1>5

\* A directory that is still empty is removed without anything in it.
LEMMA RemoveDirectoryStep ==
    ASSUME IInv, NEW s \in Stmt, RemoveDirectory(s)
    PROVE  /\ phase[s] = "list" /\ local /\ seen[s] \in Place
           /\ zero' \in {zero, NoTable} /\ (overtaken => overtaken')
           /\ ~overtaken' => zero' = zero /\ files' = files
           /\ StorageStep(s) /\ Storage'
<1>. USE DEF setting
<1>1. TypeOK /\ StmtInv(s) /\ Storage
  BY DEF IInv
<1>2. PICK p : p = seen[s]
  OBVIOUS
<1>3. /\ phase[s] = "list" /\ p # Other
      /\ dirs' = IF p = TableDir THEN {} ELSE dirs \ {p}
      /\ files' = IF p = TableDir THEN {} ELSE files \ FilesIn(p)
      /\ zero' = IF p \in {TableDir, LogDir} THEN NoTable ELSE zero
      /\ older' = IF p = TableDir THEN {} ELSE older
      /\ overtaken' = (overtaken \/ ~Empty(p))
      /\ UNCHANGED <<setting, committed, spoiled>>
  BY <1>2 DEF RemoveDirectory
<1>4. local /\ p \in Place
  BY <1>1, <1>2, <1>3 DEF StmtInv, Own, TypeOK
<1>5. ~overtaken' => zero' = zero /\ files' = files
  <2>. SUFFICES ASSUME Empty(p) PROVE zero' = zero /\ files' = files
    BY <1>3
  <2>1. CASE p = TableDir
    BY <1>1, <1>3, <1>4, <2>1 DEF Empty, FilesIn, Storage
  <2>2. CASE p # TableDir
    BY <1>3, <2>2 DEF Empty, FilesIn
  <2>. QED
    BY <2>1, <2>2
<1>6. zero' \in {zero, NoTable} /\ (overtaken => overtaken') /\ files' \subseteq files
  BY <1>3
<1>7. StorageStep(s)
  BY <1>3, <1>5, <1>6 DEF StorageStep
<1>8. Storage'
  <2>1. CASE p = TableDir
    BY <1>3, <2>1 DEF Storage
  <2>2. CASE p # TableDir
    BY <1>1, <1>3, <1>4, <2>2 DEF Storage, FilesIn, TypeOK, DataFile
  <2>. QED
    BY <2>1, <2>2
<1>. QED
  BY <1>2, <1>3, <1>4, <1>5, <1>6, <1>7, <1>8

LEMMA DirectoryIInv ==
    ASSUME IInv, NEW s \in Stmt, ListEmpty(s) \/ LeaveDirectory(s) \/ RemoveDirectory(s)
    PROVE  IInv'
<1>. USE DEF setting, storageVars, ownVars
<1>1. TypeOK /\ OwnTyped /\ StmtInv(s) /\ ZeroFiles
  BY DEF IInv, TypeOK, OwnTyped
<1>2. CASE ListEmpty(s)
  <2>1. PICK p \in dirs : NextToTry(s, p) /\ seen' = [seen EXCEPT ![s] = p]
    BY <1>2 DEF ListEmpty
  <2>2. /\ phase[s] = "list"
        /\ UNCHANGED <<setting, storageVars, phase, ownVars, todo, older, spoiled, overtaken>>
    BY <1>2 DEF ListEmpty
  <2>3. p \in Place /\ p \in todo[s]
    BY <1>1, <2>1 DEF TypeOK, NextToTry
  <2>4. OwnTyped' /\ seen'[s] = p /\ \A u \in Stmt \ {s} : Untouched(u)
    BY <1>1, <2>1, <2>2, <2>3 DEF OwnTyped, Untouched
  <2>5. TypeOK'
    BY <1>1, <2>2, <2>4, QuietTypes DEF TypeOK
  <2>6. Own(s)' /\ FoundIt(s)'
    BY <1>1, <2>2, <2>3, <2>4 DEF StmtInv, Own, FoundIt, Plain
  <2>7. Owner(s)' /\ Stays(s)' /\ Carried(s)'
    BY <1>1, <2>2 DEF StmtInv, Owner, Stays, Carried, Wrote, FilesOf
  <2>. QED
    BY <2>2, <2>4, <2>5, <2>6, <2>7, QuietStep DEF Quiet, StmtInv
<1>3. CASE LeaveDirectory(s)
  <2>1. PICK p \in Place : Tried(s, p)
    BY <1>3 DEF LeaveDirectory
  <2>2. /\ phase[s] = "list"
        /\ UNCHANGED <<setting, storageVars, committed, older, spoiled, overtaken>>
    BY <1>3 DEF LeaveDirectory
  <2>3. StorageStep(s)
    BY <2>2 DEF StorageStep
  <2>4. OwnTyped' /\ StmtInv(s)' /\ \A u \in Stmt \ {s} : Untouched(u)
    BY <2>1, <2>2, <2>3, TriedStep
  <2>5. TypeOK'
    BY <1>1, <2>2, <2>4, QuietTypes DEF TypeOK
  <2>. QED
    BY <2>2, <2>4, <2>5, QuietStep DEF Quiet
<1>4. CASE RemoveDirectory(s)
  <2>1. /\ phase[s] = "list" /\ zero' \in {zero, NoTable} /\ (overtaken => overtaken')
        /\ ~overtaken' => zero' = zero /\ files' = files
        /\ StorageStep(s) /\ Storage'
    BY <1>4, RemoveDirectoryStep
  <2>2. PICK p : p = seen[s] /\ Tried(s, p)
    BY <1>4 DEF RemoveDirectory
  <2>3. /\ UNCHANGED <<setting, committed, spoiled>> /\ older' \subseteq older
        /\ dirs' \subseteq dirs /\ files' \subseteq files
        /\ overtaken' = (overtaken \/ ~Empty(seen[s]))
    BY <1>4 DEF RemoveDirectory
  <2>4. OwnTyped' /\ StmtInv(s)' /\ \A u \in Stmt \ {s} : Untouched(u)
    BY <2>1, <2>2, <2>3, TriedStep
  <2>5. TypeOK'
    <3>1. overtaken' \in BOOLEAN
      BY <2>3
    <3>. QED
      BY <1>1, <2>1, <2>3, <2>4, <3>1 DEF TypeOK, OwnTyped
  <2>6. ZeroFiles'
    BY <1>1, <2>1 DEF ZeroFiles, TableKeepsItsFiles
  <2>. QED
    BY <2>1, <2>4, <2>5, <2>6, OneStmtStep
<1>. QED
  BY <1>2, <1>3, <1>4

LEMMA Inductive == Spec => []IInv
<1>1. ASSUME IInv, Next PROVE IInv'
  <2>1. CASE OtherMakesDirectory \/ OtherCreatesTable
    BY <1>1, <2>1, EnvironmentIInv
  <2>2. ASSUME NEW s \in Stmt, CleanUpStep(s) PROVE IInv'
    BY <1>1, <2>2, KeepIInv, PhaseIInv, RemoveIInv, DirectoryIInv, CleanUpFailsIInv
       DEF CleanUpStep
  <2>3. ASSUME NEW s \in Stmt,
               \/ Plan(s) \/ FindDirectory(s) \/ MissDirectory(s) \/ MakeDirectory(s)
               \/ BuildTransaction(s) \/ BuildRefused(s) \/ EndPlanning(s)
               \/ Execute(s) \/ WriteFile(s) \/ QueryFails(s) \/ Finalize(s)
               \/ MakeLogDirectory(s) \/ CommitSucceeds(s) \/ CommitLies(s) \/ CommitFails(s)
               \/ Crash(s)
        PROVE  IInv'
    BY <1>1, <2>3, PlanIInv, PhaseIInv, FailsIInv, MakeIInv, WriteIInv, PutIInv, CrashIInv
  <2>. QED
    BY <1>1, <2>1, <2>2, <2>3 DEF Next
<1>2. ASSUME IInv, UNCHANGED vars PROVE IInv'
  <2>. USE <1>2 DEF vars, setting, storageVars, ownVars, cleanVars
  <2>1. TypeOK' /\ Quiet(Other) /\ \A u \in Stmt : Untouched(u)
    BY DEF IInv, TypeOK, Quiet, Untouched
  <2>. QED
    BY <2>1, QuietStep
<1>. QED
  BY <1>1, <1>2, InitIInv, PTL DEF Spec

----------------------------------------------------------------------------
(* Theorems.                                                               *)

\* Every variable has its type, for every value of the constants.
THEOREM TypeCorrect == Spec => []TypeOK
  BY Inductive, PTL DEF IInv

\* No CleanUp, of the statement whose commit reported an error after all or of one that
\* lost the race, removes a file that version 0 names.
THEOREM FilesStay == Spec => []TableKeepsItsFiles
  BY Inductive, PTL DEF IInv, ZeroFiles

\* A statement that reported success is the one that wrote version 0, and no CleanUp and no
\* other statement at the path undoes it.
THEOREM SuccessLasts == Spec => []SuccessIsTheTable
<1>1. IInv => SuccessIsTheTable
  BY DEF IInv, StmtInv, Stays, Wrote, SuccessIsTheTable
<1>. QED
  BY <1>1, Inductive, PTL

\* However often a prepared statement is executed and fails, the glob for its write_uuid
\* leaves no file of it behind that version 0 does not name, nor takes one that it does.
THEOREM NothingIsLeft == Spec => []LeavesNothing
<1>1. ASSUME IInv PROVE LeavesNothing
  <2>. SUFFICES ASSUME NEW s \in Stmt, Resting(s), s \notin spoiled, ~overtaken
                PROVE  FilesOf(s) = IF zero # NoTable /\ zero.by = s THEN zero.files ELSE {}
    BY DEF LeavesNothing
  <2>1. Carried(s) /\ Owner(s)
    BY <1>1 DEF IInv, StmtInv
  <2>2. CASE phase[s] = "new"
    BY <2>1, <2>2 DEF Carried, Owner, Wrote
  <2>3. CASE phase[s] \in {"idle", "ended"}
    BY <2>1, <2>3 DEF Carried, Wrote
  <2>. QED
    BY <2>2, <2>3 DEF Resting
<1>. QED
  BY <1>1, Inductive, PTL

\* No step of a statement removes a table or a file of anyone else: RemoveFiles takes what
\* carries its own write_uuid, and RemoveDirectory what is empty.
THEOREM OthersStay == Spec => TouchesOnlyItsOwn
<1>. DEFINE Kept == ~overtaken' =>
                      /\ zero # NoTable => zero' = zero
                      /\ \A f \in files \ files' : f.by \in Stmt /\ phase[f.by] = "remove"
<1>1. ASSUME IInv, [Next]_vars PROVE Kept
  <2>. USE <1>1 DEF vars, setting, storageVars
  <2>1. CASE UNCHANGED vars
    BY <2>1
  <2>2. CASE OtherMakesDirectory \/ OtherCreatesTable
    BY <2>2 DEF OtherMakesDirectory, OtherCreatesTable
  <2>3. ASSUME NEW s \in Stmt, RemoveFiles(s) \/ CleanUpFails(s) PROVE Kept
    BY <2>3 DEF RemoveFiles, CleanUpFails, Removed, FilesOf
  <2>4. ASSUME NEW s \in Stmt, RemoveDirectory(s) PROVE Kept
    BY <2>4, RemoveDirectoryStep
  <2>5. ASSUME NEW s \in Stmt, KeepFiles(s) \/ DecideToRemove(s) \/ ListEmpty(s) \/ LeaveDirectory(s)
        PROVE  Kept
    BY <2>5 DEF KeepFiles, DecideToRemove, ListEmpty, LeaveDirectory
  <2>6. ASSUME NEW s \in Stmt,
               \/ Plan(s) \/ FindDirectory(s) \/ MissDirectory(s) \/ MakeDirectory(s)
               \/ BuildTransaction(s) \/ BuildRefused(s) \/ EndPlanning(s)
               \/ Execute(s) \/ QueryFails(s) \/ Finalize(s) \/ MakeLogDirectory(s)
               \/ CommitFails(s) \/ Crash(s)
        PROVE  Kept
    BY <2>6 DEF Plan, FindDirectory, MissDirectory, MakeDirectory, BuildTransaction,
       BuildRefused, EndPlanning, Execute, QueryFails, Finalize, MakeLogDirectory,
       CommitFails, Crash
  <2>7. ASSUME NEW s \in Stmt, WriteFile(s) \/ CommitSucceeds(s) \/ CommitLies(s) PROVE Kept
    BY <2>7 DEF WriteFile, CommitSucceeds, CommitLies, PutVersionZero
  <2>. QED
    BY <2>1, <2>2, <2>3, <2>4, <2>5, <2>6, <2>7 DEF Next, CleanUpStep
<1>2. ASSUME IInv, [Next]_vars PROVE [Kept]_vars
  BY <1>1, <1>2
<1>. QED
  BY <1>2, Inductive, PTL DEF Spec, TouchesOnlyItsOwn

\* The steps that may make the table's directory disappear.
LEMMA WhoRemoves ==
    ASSUME [Next]_vars, TableDir \in dirs \ dirs'
    PROVE  \E s \in Stmt : RemoveDirectory(s) /\ seen[s] = TableDir
<1>. USE DEF vars, setting, storageVars
<1>1. CASE UNCHANGED vars
  BY <1>1
<1>2. CASE OtherMakesDirectory \/ OtherCreatesTable
  BY <1>2 DEF OtherMakesDirectory, OtherCreatesTable, WithDirs
<1>3. ASSUME NEW s \in Stmt, RemoveDirectory(s) PROVE seen[s] = TableDir
  BY <1>3 DEF RemoveDirectory
<1>4. ASSUME NEW s \in Stmt,
             \/ RemoveFiles(s) \/ CleanUpFails(s) \/ KeepFiles(s) \/ DecideToRemove(s)
             \/ ListEmpty(s) \/ LeaveDirectory(s)
      PROVE  FALSE
  BY <1>4 DEF RemoveFiles, CleanUpFails, KeepFiles, DecideToRemove, ListEmpty, LeaveDirectory
<1>5. ASSUME NEW s \in Stmt,
             \/ Plan(s) \/ FindDirectory(s) \/ MissDirectory(s) \/ MakeDirectory(s)
             \/ BuildTransaction(s) \/ BuildRefused(s) \/ EndPlanning(s)
             \/ Execute(s) \/ QueryFails(s) \/ Finalize(s) \/ MakeLogDirectory(s)
             \/ CommitFails(s) \/ Crash(s)
      PROVE  FALSE
  BY <1>5 DEF Plan, FindDirectory, MissDirectory, MakeDirectory, BuildTransaction,
     BuildRefused, EndPlanning, Execute, QueryFails, Finalize, MakeLogDirectory,
     CommitFails, Crash
<1>6. ASSUME NEW s \in Stmt, WriteFile(s) \/ CommitSucceeds(s) \/ CommitLies(s) PROVE FALSE
  BY <1>6 DEF WriteFile, CommitSucceeds, CommitLies, PutVersionZero, WithDirs
<1>. QED
  BY <1>1, <1>2, <1>3, <1>4, <1>5, <1>6 DEF Next, CleanUpStep

\* created_directory is what protects a directory that was there before: CleanUp tries the
\* table's directory only for a statement that made it, and none that found it did.
THEOREM DirectoryStays == Spec => DirectoryThereBeforeStays
<1>. DEFINE Stands == \A s \in older :
              TableDir \in dirs \ dirs' => ~(phase[s] = "list" /\ seen'[s] # seen[s])
<1>1. ASSUME IInv, [Next]_vars PROVE Stands
  <2>. SUFFICES ASSUME NEW s \in older, TableDir \in dirs \ dirs', seen'[s] # seen[s]
                PROVE  FALSE
    OBVIOUS
  <2>1. PICK u \in Stmt : RemoveDirectory(u) /\ seen[u] = TableDir
    BY <1>1, WhoRemoves
  <2>2. s \in Stmt /\ StmtInv(s) /\ StmtInv(u) /\ OwnTyped
    BY <1>1 DEF IInv, TypeOK, OwnTyped
  <2>3. s # u
    BY <2>1, <2>2 DEF StmtInv, Own, FoundIt, Place
  <2>4. seen'[s] = seen[s]
    <3>1. PICK p : Tried(u, p) /\ UNCHANGED committed
      BY <2>1 DEF RemoveDirectory
    <3>2. CASE todo[u] = {p}
      BY <2>2, <2>3, <3>1, <3>2, RestStep DEF Tried, Untouched
    <3>3. CASE todo[u] # {p}
      BY <2>2, <2>3, <3>1, <3>3 DEF Tried, OwnTyped
    <3>. QED
      BY <3>2, <3>3
  <2>. QED
    BY <2>4
<1>2. ASSUME IInv, [Next]_vars PROVE [Stands]_vars
  BY <1>1, <1>2
<1>. QED
  BY <1>2, Inductive, PTL DEF Spec, DirectoryThereBeforeStays
=============================================================================
