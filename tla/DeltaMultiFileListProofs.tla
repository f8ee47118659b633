---------------------- MODULE DeltaMultiFileListProofs ----------------------
(***************************************************************************)
(* Proofs about DeltaMultiFileList, for any number of scans, files,        *)
(* columns, filters, versions and failures and every setting.              *)
(***************************************************************************)
EXTENDS DeltaMultiFileList, FiniteSetTheorems, TLAPS

\* What is true of a list at any time.  Every file of the table's version is still to come
\* from the kernel or was found once, or has no rows for the filters; as long as nothing
\* failed halfway, what was found of a file is what is true of it.
ListOK(L) ==
    /\ L \in List
    /\ L.version <= Len(table)
    /\ L.pending \subseteq table[L.version].live
    /\ \A i \in 1..Len(L.resolved) :
         /\ L.resolved[i].file \in table[L.version].live \ L.pending
         /\ ~L.damaged => L.resolved[i] = Truth(L.version, L.resolved[i].file)
         /\ \A j \in 1..Len(L.resolved) : L.resolved[i].file = L.resolved[j].file => i = j
    /\ L.ready /\ ~L.damaged =>
         \A f \in table[L.version].live \cap Matching(L.filters) :
            f \in L.pending \/ \E i \in 1..Len(L.resolved) : L.resolved[i].file = f
    /\ ~L.ready => L.resolved = <<>> /\ L.pending = {} /\ ~L.exhausted /\ ~L.damaged
    /\ L.exhausted => L.pending = {}

\* A list may become another one: it only grows, and not once it came to its end.
Grows(L, M) ==
    /\ M.version = L.version /\ M.filters = L.filters
    /\ Len(L.resolved) <= Len(M.resolved)
    /\ \A i \in 1..Len(L.resolved) : M.resolved[i] = L.resolved[i]
    /\ L.damaged => M.damaged
    /\ L.exhausted => M = L

\* A list that is through has every file with rows for its filters.
Through(L) == L.ready /\ L.exhausted

Catalog == ListOK(shared) /\ shared.filters = NoFilters

\* The lists of a scan r, when c is the catalog's.
PlanOf(r, c) == IF r.plan = None THEN c ELSE r.plan
ReadOf(r, c) == IF r.exec = None THEN PlanOf(r, c) ELSE r.exec

\* The lists a scan made are on the catalog's snapshot.
OwnLists(r, c) ==
    /\ r.plan # None => ListOK(r.plan) /\ r.plan.version = c.version
    /\ r.exec # None => ListOK(r.exec) /\ r.exec.version = c.version

\* How far a scan got in its list, and which files its list may leave out.
Progress(r, c) ==
    /\ r.phase \notin {"reading", "done"} => r.exec = None /\ r.next = 1
    /\ r.next - 1 <= Len(ReadOf(r, c).resolved)
    /\ r.wanted \subseteq Matching(PlanOf(r, c).filters)
    /\ r.phase \in {"reading", "done"} => r.needed \subseteq Matching(ReadOf(r, c).filters)
    /\ r.phase = "done" => /\ Through(ReadOf(r, c))
                           /\ r.next = Len(ReadOf(r, c).resolved) + 1

\* The first pass of filter pushdown counts the catalog's list, a later one a list that
\* has no more files.
Counted(r, c) ==
    /\ report = "explain" /\ r.plan # None => r.total # None
    /\ r.total # None /\ ~c.damaged => r.total = Cardinality(table[c.version].live)

ScanInv(r, c) == OwnLists(r, c) /\ Progress(r, c) /\ Counted(r, c)

IInv ==
    /\ TypeOK
    /\ Catalog
    /\ \A s \in Scan : ScanInv(scan[s], shared)

----------------------------------------------------------------------------
USE FilterAssumption, DeletedAssumption, ListBounds, ListSettings, FilesAreFinite,
    NoneAssumption

(* Versions of the table.                                                  *)

LEMMA ContentFields ==
    ASSUME NEW c
    PROVE  /\ c \in Content => c.live \subseteq File /\ c.deleted \subseteq c.live
           /\ \A l \in SUBSET File, d \in SUBSET File :
                d \subseteq l => [live |-> l, deleted |-> d] \in Content
<1>1. ASSUME c \in Content PROVE c.live \subseteq File /\ c.deleted \subseteq c.live
  <2>1. PICK l \in SUBSET File : c \in [live : {l}, deleted : SUBSET l]
    BY <1>1 DEF Content
  <2>. QED
    BY <2>1
<1>2. ASSUME NEW l \in SUBSET File, NEW d \in SUBSET File, d \subseteq l
      PROVE  [live |-> l, deleted |-> d] \in Content
  <2>1. [live |-> l, deleted |-> d] \in [live : {l}, deleted : SUBSET l]
    BY <1>2
  <2>. QED
    BY <2>1 DEF Content
<1>. QED
  BY <1>1, <1>2

(* Opening and filling a list.                                             *)

\* A list as its fields.
LEMMA ListFields ==
    ASSUME NEW L \in List
    PROVE  /\ L = [version |-> L.version, filters |-> L.filters, ready |-> L.ready,
                   ids |-> L.ids, pending |-> L.pending, resolved |-> L.resolved,
                   exhausted |-> L.exhausted, damaged |-> L.damaged]
           /\ L.version \in 1..MaxVersion /\ L.filters \in Filters
           /\ L.ready \in BOOLEAN /\ L.ids \in BOOLEAN /\ L.pending \in SUBSET File
           /\ L.resolved \in Seq(Entry) /\ Len(L.resolved) \in Nat
           /\ L.exhausted \in BOOLEAN /\ L.damaged \in BOOLEAN
  BY DEF List

LEMMA GrowsTransitive ==
    ASSUME NEW L \in List, NEW M \in List, NEW N \in List, Grows(L, M), Grows(M, N)
    PROVE  Grows(L, N)
<1>1. Len(L.resolved) \in Nat /\ Len(M.resolved) \in Nat /\ Len(N.resolved) \in Nat
  BY ListFields
<1>2. \A i \in 1..Len(L.resolved) : N.resolved[i] = L.resolved[i]
  BY <1>1 DEF Grows
<1>. QED
  BY <1>1, <1>2 DEF Grows

LEMMA NewListOK ==
    ASSUME TypeOK, NEW v \in 1..Len(table), NEW fs \in Filters
    PROVE  ListOK(NewList(v, fs))
<1>1. v \in 1..MaxVersion /\ v <= Len(table) /\ <<>> \in Seq(Entry) /\ Len(<<>>) = 0
  BY DEF TypeOK
<1>2. PICK L : L = NewList(v, fs)
  OBVIOUS
<1>3. /\ L.version = v /\ L.filters = fs /\ ~L.ready /\ ~L.ids /\ L.pending = {}
      /\ L.resolved = <<>> /\ ~L.exhausted /\ ~L.damaged
  BY <1>2 DEF NewList
<1>4. L \in List
  BY <1>1, <1>2 DEF NewList, List
<1>5. Len(L.resolved) = 0
  BY <1>1, <1>3
<1>6. ListOK(L)
  BY <1>1, <1>3, <1>4, <1>5 DEF ListOK
<1>. QED
  BY <1>2, <1>6

LEMMA OpenedGrows ==
    ASSUME TypeOK, NEW L, ListOK(L), NEW M \in Opened(L)
    PROVE  ListOK(M) /\ Grows(L, M) /\ M.ready
<1>1. L \in List
  BY DEF ListOK
<1>2. CASE L.ready
  BY <1>1, <1>2, ListFields DEF Opened, Grows
<1>3. CASE ~L.ready
  <2>1. PICK k \in Kept(L) : M = [L EXCEPT !.ready = TRUE, !.ids = partitioned, !.pending = k]
    BY <1>3 DEF Opened
  <2>2. /\ k \subseteq table[L.version].live
        /\ table[L.version].live \cap Matching(L.filters) \subseteq k
    BY <2>1 DEF Kept
  <2>3. table[L.version].live \subseteq File /\ partitioned \in BOOLEAN
    <3>1. L.version \in 1..Len(table)
      BY <1>1, ListFields DEF ListOK, TypeOK
    <3>2. table[L.version] \in Content
      BY <3>1 DEF TypeOK
    <3>. QED
      BY <3>2, ContentFields DEF TypeOK
  <2>4. /\ L.resolved = <<>> /\ ~L.exhausted /\ ~L.damaged /\ L.version <= Len(table)
    BY <1>3 DEF ListOK
  <2>5. M = [version |-> L.version, filters |-> L.filters, ready |-> TRUE,
             ids |-> partitioned, pending |-> k, resolved |-> L.resolved,
             exhausted |-> L.exhausted, damaged |-> L.damaged]
    BY <1>1, <2>1 DEF List
  <2>6. M \in List
    BY <1>1, <2>2, <2>3, <2>5, ListFields DEF List
  <2>7. Len(L.resolved) = 0
    BY <2>4
  <2>8. ListOK(M) /\ M.ready
    BY ONLY <2>2, <2>4, <2>5, <2>6, <2>7 DEF ListOK
  <2>9. Grows(L, M)
    BY ONLY <2>4, <2>5, <2>7 DEF Grows
  <2>. QED
    BY <2>8, <2>9
<1>. QED
  BY <1>2, <1>3

LEMMA ConcatAt ==
    ASSUME NEW S, NEW a \in Seq(S), NEW b \in Seq(S)
    PROVE  /\ a \o b \in Seq(S)
           /\ Len(a \o b) = Len(a) + Len(b)
           /\ \A i \in 1..Len(a) : (a \o b)[i] = a[i]
           /\ \A i \in 1..Len(b) : (a \o b)[Len(a) + i] = b[i]
<1>1. a \o b \in Seq(S) /\ Len(a \o b) = Len(a) + Len(b)
  OBVIOUS
<1>2. \A i \in 1..Len(a) : (a \o b)[i] = a[i]
  OBVIOUS
<1>3. ASSUME NEW i \in 1..Len(b) PROVE (a \o b)[Len(a) + i] = b[i]
  <2>1. Len(a) \in Nat /\ Len(b) \in Nat
    OBVIOUS
  <2>2. /\ Len(a) + i \in 1..(Len(a) + Len(b)) /\ ~(Len(a) + i <= Len(a))
        /\ (Len(a) + i) - Len(a) = i
    BY <2>1
  <2>. QED
    BY <2>1, <2>2
<1>. QED
  BY <1>1, <1>2, <1>3

\* What a list gets of a batch.
Batch(L, q, fault) == [i \in DOMAIN q |-> VisitCallback(L, q[i], fault[i])]

\* A list after a batch was visited, of which the kernel may have lost files.
After(L, q, fault, lost, d) ==
    [version |-> L.version, filters |-> L.filters, ready |-> L.ready, ids |-> L.ids,
     pending |-> (L.pending \ Elements(q)) \ lost,
     resolved |-> L.resolved \o Batch(L, q, fault),
     exhausted |-> FALSE, damaged |-> L.damaged \/ d]

Faults == {"none", "vector", "values"}

LEMMA AfterGrows ==
    ASSUME TypeOK, NEW L, ListOK(L), L.ready, ~L.exhausted,
           NEW n \in Nat, NEW q \in [1..n -> L.pending],
           \A i, j \in 1..n : q[i] = q[j] => i = j,
           NEW fault \in [1..n -> Faults], NEW lost, NEW d \in BOOLEAN,
           ~d => /\ lost = {}
                 /\ \A i \in 1..n : VisitCallback(L, q[i], fault[i]) = Truth(L.version, q[i]),
           NEW M, M = After(L, q, fault, lost, d)
    PROVE  /\ ListOK(M) /\ Grows(L, M)
           /\ Len(M.resolved) = Len(L.resolved) + n /\ M.ready /\ ~M.exhausted
<1>1. L \in List
  BY DEF ListOK
<1>. DEFINE w == Batch(L, q, fault)
            r == L.resolved
            live == table[L.version].live
<1>2. /\ L.version \in 1..MaxVersion /\ L.filters \in Filters /\ L.ids \in BOOLEAN
      /\ L.pending \in SUBSET File /\ r \in Seq(Entry) /\ Len(r) \in Nat
      /\ L.damaged \in BOOLEAN /\ L.version <= Len(table) /\ L.pending \subseteq live
  BY <1>1, ListFields DEF ListOK
<1>3. \A i \in 1..n : /\ VisitCallback(L, q[i], fault[i]) \in Entry
                      /\ VisitCallback(L, q[i], fault[i]).file = q[i]
  BY <1>2 DEF VisitCallback, Truth, Entry, TypeOK
<1>4. w \in Seq(Entry) /\ Len(w) = n /\ \A i \in 1..n : w[i] \in Entry /\ w[i].file = q[i]
  <2>1. w = [i \in 1..n |-> VisitCallback(L, q[i], fault[i])]
    BY DEF Batch
  <2>. QED
    BY <1>3, <2>1
<1>5. M.resolved = r \o w
  BY DEF After
<1>. HIDE DEF w
<1>6. /\ r \o w \in Seq(Entry) /\ Len(r \o w) = Len(r) + n
      /\ \A i \in 1..Len(r) : (r \o w)[i] = r[i]
      /\ \A i \in 1..n : (r \o w)[Len(r) + i] = w[i]
  <2>1. r \in Seq(Entry) /\ w \in Seq(Entry)
    BY <1>2, <1>4
  <2>2. /\ r \o w \in Seq(Entry) /\ Len(r \o w) = Len(r) + Len(w)
        /\ \A i \in 1..Len(r) : (r \o w)[i] = r[i]
        /\ \A i \in 1..Len(w) : (r \o w)[Len(r) + i] = w[i]
    BY ONLY <2>1, ConcatAt
  <2>. QED
    BY ONLY <1>4, <2>2
<1>7. /\ M.version = L.version /\ M.filters = L.filters /\ M.ready = L.ready /\ M.ids = L.ids
      /\ M.pending = (L.pending \ Elements(q)) \ lost
      /\ M.exhausted = FALSE /\ M.damaged = (L.damaged \/ d)
  BY DEF After
<1>8. M \in List
  BY <1>2, <1>5, <1>6, <1>7 DEF After, List, w
<1>9. Elements(q) = {q[i] : i \in 1..n} /\ Elements(q) \subseteq L.pending
  BY DEF Elements
<1>10. ASSUME NEW k \in 1..Len(r) + n
       PROVE  \/ k \in 1..Len(r) /\ M.resolved[k] = r[k]
              \/ \E i \in 1..n : k = Len(r) + i /\ M.resolved[k] = w[i]
  <2>1. CASE k <= Len(r)
    BY <1>2, <1>5, <1>6, <2>1
  <2>2. CASE k > Len(r)
    <3>1. k - Len(r) \in 1..n /\ k = Len(r) + (k - Len(r))
      <4>1. PICK m \in Nat : m = Len(r)
        BY <1>2
      <4>2. k \in 1..m + n /\ k > m
        BY <2>2, <4>1
      <4>3. k - m \in 1..n /\ k = m + (k - m)
        BY ONLY <4>2, n \in Nat, m \in Nat
      <4>. QED
        BY <4>1, <4>3
    <3>. QED
      BY <1>5, <1>6, <3>1
  <2>. QED
    BY <1>2, <2>1, <2>2
<1>11. \A i \in 1..Len(r) : /\ r[i].file \in live \ L.pending
                            /\ ~L.damaged => r[i] = Truth(L.version, r[i].file)
                            /\ \A j \in 1..Len(r) : r[i].file = r[j].file => i = j
  BY DEF ListOK
<1>12. \A k \in 1..Len(r) + n : M.resolved[k].file \in live \ M.pending
  <2>. SUFFICES ASSUME NEW k \in 1..Len(r) + n PROVE M.resolved[k].file \in live \ M.pending
    OBVIOUS
  <2>1. CASE k \in 1..Len(r) /\ M.resolved[k] = r[k]
    BY <1>7, <1>11, <2>1
  <2>2. CASE \E i \in 1..n : k = Len(r) + i /\ M.resolved[k] = w[i]
    <3>1. PICK i \in 1..n : M.resolved[k] = w[i]
      BY <2>2
    <3>2. M.resolved[k].file = q[i] /\ q[i] \in L.pending /\ q[i] \in Elements(q)
      BY <1>4, <1>9, <3>1
    <3>. QED
      BY <1>2, <1>7, <3>2
  <2>. QED
    BY <1>10, <2>1, <2>2
<1>13. ASSUME NEW k \in 1..Len(r) + n, ~M.damaged
       PROVE  M.resolved[k] = Truth(L.version, M.resolved[k].file)
  <2>1. ~L.damaged /\ \A i \in 1..n : w[i] = Truth(L.version, q[i])
    BY <1>7, <1>13 DEF w, Batch
  <2>2. CASE k \in 1..Len(r) /\ M.resolved[k] = r[k]
    BY <1>11, <2>1, <2>2
  <2>3. CASE \E i \in 1..n : k = Len(r) + i /\ M.resolved[k] = w[i]
    <3>1. PICK i \in 1..n : M.resolved[k] = w[i]
      BY <2>3
    <3>. QED
      BY <1>4, <2>1, <3>1
  <2>. QED
    BY <1>10, <2>2, <2>3
<1>14. ASSUME NEW k \in 1..Len(r) + n, NEW m \in 1..Len(r) + n,
              M.resolved[k].file = M.resolved[m].file
       PROVE  k = m
  <2>1. \A i \in 1..n : w[i].file \in L.pending
    BY <1>4
  <2>2. CASE k \in 1..Len(r) /\ M.resolved[k] = r[k]
    <3>1. M.resolved[m] = r[m] /\ m \in 1..Len(r)
      <4>1. CASE \E j \in 1..n : M.resolved[m] = w[j]
        BY <1>11, <1>14, <2>1, <2>2, <4>1
      <4>. QED
        BY <1>10, <4>1
    <3>. QED
      BY <1>11, <1>14, <2>2, <3>1
  <2>3. CASE \E i \in 1..n : k = Len(r) + i /\ M.resolved[k] = w[i]
    <3>1. PICK i \in 1..n : k = Len(r) + i /\ M.resolved[k] = w[i]
      BY <2>3
    <3>2. PICK j \in 1..n : m = Len(r) + j /\ M.resolved[m] = w[j]
      BY <1>10, <1>11, <1>14, <2>1, <3>1
    <3>3. q[i] = q[j]
      BY <1>4, <1>14, <3>1, <3>2
    <3>. QED
      BY <3>1, <3>2, <3>3
  <2>. QED
    BY <1>10, <2>2, <2>3
<1>15. ASSUME ~M.damaged, NEW f \in live \cap Matching(L.filters)
       PROVE  f \in M.pending \/ \E k \in 1..Len(r) + n : M.resolved[k].file = f
  <2>1. f \in L.pending \/ \E i \in 1..Len(r) : r[i].file = f
    BY <1>7, <1>15 DEF ListOK
  <2>2. CASE f \in L.pending
    <3>1. lost = {}
      BY <1>7, <1>15
    <3>2. CASE f \in Elements(q)
      <4>1. PICK i \in 1..n : f = q[i]
        BY <1>9, <3>2
      <4>2. Len(r) + i \in 1..Len(r) + n /\ M.resolved[Len(r) + i].file = f
        BY <1>2, <1>4, <1>5, <1>6, <4>1
      <4>. QED
        BY <4>2
    <3>. QED
      BY <1>7, <2>2, <3>1, <3>2
  <2>3. CASE \E i \in 1..Len(r) : r[i].file = f
    <3>1. PICK i \in 1..Len(r) : r[i].file = f
      BY <2>3
    <3>2. i \in 1..Len(r) + n /\ M.resolved[i].file = f
      BY <1>2, <1>5, <1>6, <3>1
    <3>. QED
      BY <3>2
  <2>. QED
    BY <2>1, <2>2, <2>3
<1>16. Len(M.resolved) = Len(r) + n
  BY <1>5, <1>6
<1>17. ListOK(M)
  BY <1>2, <1>7, <1>8, <1>12, <1>13, <1>14, <1>15, <1>16 DEF ListOK
<1>18. Grows(L, M)
  BY <1>2, <1>5, <1>6, <1>7, <1>16 DEF Grows
<1>. QED
  BY <1>7, <1>16, <1>17, <1>18

\* The orders in which files come: each file once.
LEMMA OrderOnce ==
    ASSUME NEW S \in SUBSET File, NEW q \in Orders(S)
    PROVE  /\ Cardinality(S) \in Nat /\ q \in [1..Cardinality(S) -> S]
           /\ \A i, j \in 1..Cardinality(S) : q[i] = q[j] => i = j
           /\ Elements(q) = S
<1>. DEFINE n == Cardinality(S)
<1>1. IsFiniteSet(S) /\ n \in Nat
  BY FS_Subset, FS_CardinalityType
<1>2. q \in [1..n -> S] /\ Elements(q) = S
  BY DEF Orders
<1>3. IsFiniteSet(1..n) /\ Cardinality(1..n) = n
  BY <1>1, FS_Interval
<1>4. \A x \in S : \E i \in 1..n : q[i] = x
  BY <1>2 DEF Elements
<1>. HIDE DEF n
<1>5. q \in Surjection(1..n, S)
  BY <1>2, <1>4 DEF Surjection
<1>6. Cardinality(1..n) = Cardinality(S)
  BY <1>3 DEF n
<1>7. q \in Injection(1..n, S)
  BY <1>3, <1>5, <1>6, FS_SurjSameCardinalityImpliesInj
<1>8. \A i, j \in 1..n : q[i] = q[j] => i = j
  BY <1>7 DEF Injection, IsInjective
<1>. QED
  BY <1>1, <1>2, <1>8 DEF n

LEMMA SomeOrderOnce ==
    ASSUME NEW S \in SUBSET File, NEW q \in SomeOrders(S)
    PROVE  \E n \in Nat : /\ q \in [1..n -> S]
                          /\ \A i, j \in 1..n : q[i] = q[j] => i = j
<1>1. PICK part \in SUBSET S : q \in Orders(part)
  BY DEF SomeOrders
<1>2. /\ Cardinality(part) \in Nat /\ q \in [1..Cardinality(part) -> part]
      /\ \A i, j \in 1..Cardinality(part) : q[i] = q[j] => i = j
  BY <1>1, OrderOnce
<1>3. q \in [1..Cardinality(part) -> S]
  BY <1>2
<1>. QED
  BY <1>2, <1>3

LEMMA FineIsTruth ==
    ASSUME TypeOK, NEW L \in List, NEW f \in File
    PROVE  VisitCallback(L, f, "none") = Truth(L.version, f)
<1>. DEFINE T == Truth(L.version, f)
<1>1. /\ T = [file |-> f, vector |-> f \in table[L.version].deleted, values |-> partitioned]
      /\ T.vector \in BOOLEAN /\ T.values \in BOOLEAN
  BY DEF Truth, TypeOK
<1>2. VisitCallback(L, f, "none") =
        [T EXCEPT !.vector = T.vector /\ "none" # "vector", !.values = T.values /\ "none" = "none"]
  BY <1>1 DEF VisitCallback
<1>3. (T.vector /\ "none" # "vector") = T.vector /\ (T.values /\ "none" = "none") = T.values
  BY <1>1
<1>4. VisitCallback(L, f, "none") = [T EXCEPT !.vector = T.vector, !.values = T.values]
  BY <1>2, <1>3
<1>5. [T EXCEPT !.vector = T.vector, !.values = T.values] = T
  BY <1>1
<1>. QED
  BY <1>4, <1>5

\* A list whose files were visited, as its fields.
LEMMA VisitedFields ==
    ASSUME NEW L \in List, NEW q, NEW fault
    PROVE  Visited(L, q, fault) =
             [version |-> L.version, filters |-> L.filters, ready |-> L.ready, ids |-> L.ids,
              pending |-> L.pending \ Elements(q), resolved |-> L.resolved \o Batch(L, q, fault),
              exhausted |-> L.exhausted, damaged |-> L.damaged]
<1>1. PICK r, k : r = L.resolved \o Batch(L, q, fault) /\ k = L.pending \ Elements(q)
  OBVIOUS
<1>2. Visited(L, q, fault) = [L EXCEPT !.resolved = r, !.pending = k]
  BY <1>1 DEF Visited, List, Batch
<1>3. PICK M : M = [L EXCEPT !.resolved = r, !.pending = k]
  OBVIOUS
<1>4. M = [version |-> L.version, filters |-> L.filters, ready |-> L.ready, ids |-> L.ids,
           pending |-> k, resolved |-> r, exhausted |-> L.exhausted, damaged |-> L.damaged]
  BY <1>3 DEF List
<1>. QED
  BY <1>1, <1>2, <1>3, <1>4

\* A whole batch that nothing went wrong with.
LEMMA FineBatch ==
    ASSUME TypeOK, NEW L, ListOK(L), L.ready, ~L.exhausted,
           NEW n \in Nat, NEW q \in [1..n -> L.pending],
           \A i, j \in 1..n : q[i] = q[j] => i = j
    PROVE  /\ ListOK(Visited(L, q, Fine(q))) /\ Grows(L, Visited(L, q, Fine(q)))
           /\ Visited(L, q, Fine(q)).ready /\ ~Visited(L, q, Fine(q)).exhausted
           /\ Len(Visited(L, q, Fine(q)).resolved) = Len(L.resolved) + n
<1>1. L \in List /\ L.pending \subseteq File
  BY ListFields DEF ListOK
<1>2. DOMAIN q = 1..n /\ Fine(q) \in [1..n -> Faults] /\ \A i \in 1..n : Fine(q)[i] = "none"
  BY DEF Fine, Faults
<1>3. Visited(L, q, Fine(q)) = After(L, q, Fine(q), {}, FALSE)
  <2>1. L.exhausted = FALSE /\ (L.damaged \/ FALSE) = L.damaged
    BY <1>1 DEF List
  <2>2. (L.pending \ Elements(q)) \ {} = L.pending \ Elements(q)
    OBVIOUS
  <2>. QED
    BY <1>1, <2>1, <2>2, VisitedFields DEF After
<1>4. \A i \in 1..n : VisitCallback(L, q[i], Fine(q)[i]) = Truth(L.version, q[i])
  BY <1>1, <1>2, FineIsTruth
<1>5. PICK M : M = Visited(L, q, Fine(q))
  OBVIOUS
<1>6. /\ ListOK(M) /\ Grows(L, M) /\ Len(M.resolved) = Len(L.resolved) + n
      /\ M.ready /\ ~M.exhausted
  <2>1. PICK fault \in [1..n -> Faults] : fault = Fine(q)
    BY <1>2
  <2>2. \A i \in 1..n : VisitCallback(L, q[i], fault[i]) = Truth(L.version, q[i])
    BY <1>4, <2>1
  <2>3. PICK lost : lost = {}
    OBVIOUS
  <2>4. PICK d \in BOOLEAN : d = FALSE
    OBVIOUS
  <2>5. M = After(L, q, fault, lost, d)
    BY <1>3, <1>5, <2>1, <2>3, <2>4
  <2>6. ~d => /\ lost = {}
              /\ \A i \in 1..n : VisitCallback(L, q[i], fault[i]) = Truth(L.version, q[i])
    BY <2>2, <2>3
  <2>. QED
    BY <2>5, <2>6, AfterGrows
<1>. QED
  BY <1>5, <1>6

\* The kernel says that there are no more files.
LEMMA EndGrows ==
    ASSUME NEW L, ListOK(L), L.ready, ~L.exhausted, L.pending = {},
           NEW M, M = [L EXCEPT !.exhausted = TRUE]
    PROVE  ListOK(M) /\ Grows(L, M) /\ M.ready /\ M.exhausted /\ M.resolved = L.resolved
<1>1. L \in List /\ Len(L.resolved) \in Nat
  BY ListFields DEF ListOK
<1>2. M = [version |-> L.version, filters |-> L.filters, ready |-> L.ready, ids |-> L.ids,
           pending |-> L.pending, resolved |-> L.resolved,
           exhausted |-> TRUE, damaged |-> L.damaged]
  BY <1>1 DEF List
<1>3. M \in List
  BY <1>1, <1>2, ListFields DEF List
<1>4. ListOK(M)
  BY <1>2, <1>3 DEF ListOK
<1>5. Grows(L, M)
  BY <1>1, <1>2 DEF Grows
<1>. QED
  BY <1>2, <1>4, <1>5

LEMMA AdvancedGrows ==
    ASSUME TypeOK, NEW L, ListOK(L), L.ready, NEW M \in Advanced(L)
    PROVE  /\ ListOK(M) /\ Grows(L, M) /\ M.ready
           /\ M.exhausted \/ Len(M.resolved) > Len(L.resolved)
<1>1. L \in List /\ L.pending \in SUBSET File /\ Len(L.resolved) \in Nat
  BY ListFields DEF ListOK
<1>2. CASE L.exhausted
  BY <1>1, <1>2 DEF Advanced, Grows
<1>3. CASE ~L.exhausted /\ L.pending = {} /\ M = [L EXCEPT !.exhausted = TRUE]
  BY <1>3, EndGrows
<1>4. ASSUME ~L.exhausted, NEW q \in SomeOrders(L.pending) \ {<<>>}, M = Visited(L, q, Fine(q))
      PROVE  /\ ListOK(M) /\ Grows(L, M) /\ M.ready
             /\ M.exhausted \/ Len(M.resolved) > Len(L.resolved)
  <2>1. PICK n \in Nat : /\ q \in [1..n -> L.pending]
                         /\ \A i, j \in 1..n : q[i] = q[j] => i = j
    BY <1>1, SomeOrderOnce
  <2>2. n # 0
    <3>. SUFFICES ASSUME n = 0 PROVE FALSE
      OBVIOUS
    <3>1. q \in Seq(L.pending) /\ Len(q) = 0
      BY <2>1
    <3>2. q = <<>>
      BY <3>1
    <3>. QED
      BY <3>2
  <2>3. ListOK(M) /\ Grows(L, M) /\ M.ready /\ Len(M.resolved) = Len(L.resolved) + n
    BY <1>4, <2>1, FineBatch
  <2>. QED
    BY <1>1, <2>2, <2>3
<1>. QED
  BY <1>2, <1>3, <1>4 DEF Advanced

LEMMA ExpandedGrows ==
    ASSUME TypeOK, NEW L, ListOK(L), NEW M \in Expanded(L)
    PROVE  ListOK(M) /\ Grows(L, M) /\ Through(M)
<1>1. PICK o \in Opened(L) : \E q \in IF o.exhausted THEN {<<>>} ELSE Orders(o.pending) :
                               M = [Visited(o, q, Fine(q)) EXCEPT !.exhausted = TRUE]
  BY DEF Expanded
<1>2. ListOK(o) /\ Grows(L, o) /\ o.ready
  BY <1>1, OpenedGrows
<1>3. L \in List /\ o \in List /\ o.pending \in SUBSET File /\ o.resolved \in Seq(Entry)
  BY <1>2, ListFields DEF ListOK
<1>4. CASE o.exhausted
  <2>1. M = [Visited(o, <<>>, Fine(<<>>)) EXCEPT !.exhausted = TRUE]
    BY <1>1, <1>4
  <2>2. Batch(o, <<>>, Fine(<<>>)) = <<>> /\ Elements(<<>>) = {}
    BY DEF Batch, Elements
  <2>3. o.resolved \o <<>> = o.resolved /\ o.pending \ {} = o.pending /\ o.exhausted = TRUE
    BY <1>3, <1>4, ListFields
  <2>4. Visited(o, <<>>, Fine(<<>>)) = o
    <3>1. Visited(o, <<>>, Fine(<<>>)) =
            [version |-> o.version, filters |-> o.filters, ready |-> o.ready, ids |-> o.ids,
             pending |-> o.pending \ Elements(<<>>),
             resolved |-> o.resolved \o Batch(o, <<>>, Fine(<<>>)),
             exhausted |-> o.exhausted, damaged |-> o.damaged]
      BY <1>3, VisitedFields
    <3>2. Visited(o, <<>>, Fine(<<>>)) =
            [version |-> o.version, filters |-> o.filters, ready |-> o.ready, ids |-> o.ids,
             pending |-> o.pending, resolved |-> o.resolved,
             exhausted |-> o.exhausted, damaged |-> o.damaged]
      BY <2>2, <2>3, <3>1, Zenon
    <3>. QED
      BY <1>3, <3>2, ListFields, Zenon
  <2>5. [o EXCEPT !.exhausted = TRUE] = o
    BY <1>3, <2>3 DEF List
  <2>6. M = o
    BY <2>1, <2>4, <2>5
  <2>. QED
    BY <1>2, <1>4, <2>6 DEF Through
<1>5. CASE ~o.exhausted
  <2>1. PICK q \in Orders(o.pending) : M = [Visited(o, q, Fine(q)) EXCEPT !.exhausted = TRUE]
    BY <1>1, <1>5
  <2>2. PICK V : V = Visited(o, q, Fine(q))
    OBVIOUS
  <2>3. PICK n \in Nat : /\ q \in [1..n -> o.pending] /\ Elements(q) = o.pending
                         /\ \A i, j \in 1..n : q[i] = q[j] => i = j
    BY <1>3, OrderOnce
  <2>4. ListOK(V) /\ Grows(o, V) /\ V.ready /\ ~V.exhausted
    BY <1>2, <1>5, <2>2, <2>3, FineBatch
  <2>5. V.pending = {}
    BY <1>3, <2>2, <2>3, VisitedFields
  <2>6. ListOK(M) /\ Grows(V, M) /\ M.ready /\ M.exhausted
    BY <2>1, <2>2, <2>4, <2>5, EndGrows
  <2>7. V \in List /\ M \in List
    BY <2>4, <2>6 DEF ListOK
  <2>8. Grows(o, M)
    BY <1>3, <2>4, <2>6, <2>7, GrowsTransitive
  <2>9. Grows(L, M)
    BY <1>2, <1>3, <2>7, <2>8, GrowsTransitive
  <2>. QED
    BY <2>6, <2>9 DEF Through
<1>. QED
  BY <1>4, <1>5

LEMMA OpenFailuresGrow ==
    ASSUME TypeOK, NEW L, ListOK(L), NEW M \in OpenFailures(L)
    PROVE  ListOK(M) /\ Grows(L, M)
<1>1. L \in List /\ Len(L.resolved) \in Nat /\ ~L.ready /\ partitioned \in BOOLEAN
  BY ListFields DEF ListOK, OpenFailures, TypeOK
<1>2. CASE M = L
  BY <1>1, <1>2 DEF Grows
<1>3. CASE M = [L EXCEPT !.ids = partitioned]
  <2>1. M = [version |-> L.version, filters |-> L.filters, ready |-> L.ready,
             ids |-> partitioned, pending |-> L.pending, resolved |-> L.resolved,
             exhausted |-> L.exhausted, damaged |-> L.damaged]
    BY <1>1, <1>3 DEF List
  <2>2. M \in List
    BY <1>1, <2>1, ListFields DEF List
  <2>3. ListOK(M)
    BY <2>1, <2>2 DEF ListOK
  <2>4. ~L.exhausted
    BY <1>1 DEF ListOK
  <2>5. Grows(L, M)
    BY <1>1, <2>1, <2>4 DEF Grows
  <2>. QED
    BY <2>3, <2>5
<1>. QED
  BY <1>1, <1>2, <1>3 DEF OpenFailures

\* What a list may be after a batch in which something failed.
FailedIn(L, q) ==
    UNION {{[Visited(L, q, fault) EXCEPT
                !.pending = @ \ lost,
                !.damaged = @ \/ Damages(L, q, fault, lost)] :
               lost \in IF MaySkip THEN SUBSET (L.pending \ Elements(q)) ELSE {{}}} :
           fault \in [DOMAIN q -> Faults]}

LEMMA AdvanceFailuresGrow ==
    ASSUME TypeOK, NEW L, ListOK(L), L.ready, NEW M \in AdvanceFailures(L)
    PROVE  ListOK(M) /\ Grows(L, M)
<1>1. ~L.exhausted /\ L \in List /\ L.pending \in SUBSET File
  BY ListFields DEF ListOK, AdvanceFailures
<1>2. PICK q \in SomeOrders(L.pending) : \E fault \in [DOMAIN q -> Faults] :
        \E lost \in IF MaySkip THEN SUBSET (L.pending \ Elements(q)) ELSE {{}} :
          M = [Visited(L, q, fault) EXCEPT
                 !.pending = @ \ lost,
                 !.damaged = @ \/ Damages(L, q, fault, lost)]
  <2>1. PICK q \in SomeOrders(L.pending) : M \in FailedIn(L, q)
    <3>1. AdvanceFailures(L) = UNION {FailedIn(L, q) : q \in SomeOrders(L.pending)}
      BY <1>1, Zenon DEF AdvanceFailures, FailedIn, Faults
    <3>. QED
      BY <3>1, Zenon
  <2>2. PICK fault \in [DOMAIN q -> Faults] :
            M \in {[Visited(L, q, fault) EXCEPT
                 !.pending = @ \ lost,
                 !.damaged = @ \/ Damages(L, q, fault, lost)] :
                lost \in IF MaySkip THEN SUBSET (L.pending \ Elements(q)) ELSE {{}}}
    BY <2>1, Zenon DEF FailedIn
  <2>. QED
    BY <2>2, Zenon
<1>3. PICK n \in Nat : /\ q \in [1..n -> L.pending]
                       /\ \A i, j \in 1..n : q[i] = q[j] => i = j
  BY <1>1, <1>2, SomeOrderOnce
<1>4. PICK fault \in [1..n -> Faults],
           lost \in IF MaySkip THEN SUBSET (L.pending \ Elements(q)) ELSE {{}} :
          M = [Visited(L, q, fault) EXCEPT
                 !.pending = @ \ lost,
                 !.damaged = @ \/ Damages(L, q, fault, lost)]
  BY <1>2, <1>3
<1>5. PICK d \in BOOLEAN : d = Damages(L, q, fault, lost)
  <2>1. Damages(L, q, fault, lost) \in BOOLEAN
    BY DEF Damages
  <2>. QED
    BY <2>1
<1>6. ~d => /\ lost = {}
            /\ \A i \in 1..n : VisitCallback(L, q[i], fault[i]) = Truth(L.version, q[i])
  BY <1>3, <1>5 DEF Damages
<1>7. M = After(L, q, fault, lost, d)
  <2>1. PICK p, r : p = L.pending \ Elements(q) /\ r = L.resolved \o Batch(L, q, fault)
    OBVIOUS
  <2>2. Visited(L, q, fault) =
          [version |-> L.version, filters |-> L.filters, ready |-> L.ready, ids |-> L.ids,
           pending |-> p, resolved |-> r, exhausted |-> FALSE, damaged |-> L.damaged]
    <3>1. L.exhausted = FALSE
      BY <1>1, ListFields
    <3>. QED
      BY <1>1, <2>1, <3>1, VisitedFields
  <2>3. M = [Visited(L, q, fault) EXCEPT !.pending = @ \ lost, !.damaged = @ \/ d]
    BY <1>4, <1>5
  <2>4. PICK V : V = Visited(L, q, fault)
    OBVIOUS
  <2>5. V.pending = p /\ V.damaged = L.damaged
    BY <2>2, <2>4
  <2>6. PICK x, y : x = p \ lost /\ y = (L.damaged \/ d)
    OBVIOUS
  <2>7. M = [version |-> L.version, filters |-> L.filters, ready |-> L.ready, ids |-> L.ids,
             pending |-> x, resolved |-> r, exhausted |-> FALSE, damaged |-> y]
    <3>1. M = [V EXCEPT !.pending = V.pending \ lost, !.damaged = V.damaged \/ d]
      BY <2>2, <2>3, <2>4
    <3>2. M = [V EXCEPT !.pending = x, !.damaged = y]
      BY <2>5, <2>6, <3>1
    <3>3. /\ V.version = L.version /\ V.filters = L.filters /\ V.ready = L.ready /\ V.ids = L.ids
          /\ V.resolved = r /\ V.exhausted = FALSE
          /\ V = [version |-> V.version, filters |-> V.filters, ready |-> V.ready, ids |-> V.ids,
                  pending |-> V.pending, resolved |-> V.resolved,
                  exhausted |-> V.exhausted, damaged |-> V.damaged]
      BY <2>2, <2>4
    <3>4. M = [version |-> V.version, filters |-> V.filters, ready |-> V.ready, ids |-> V.ids,
               pending |-> x, resolved |-> V.resolved, exhausted |-> V.exhausted, damaged |-> y]
      BY ONLY <3>2, <3>3
    <3>. QED
      BY <3>3, <3>4
  <2>. QED
    BY <2>1, <2>6, <2>7 DEF After
<1>. QED
  BY <1>1, <1>3, <1>4, <1>5, <1>6, <1>7, AfterGrows

LEMMA ExpandFailuresGrow ==
    ASSUME TypeOK, NEW L, ListOK(L), NEW M \in ExpandFailures(L)
    PROVE  ListOK(M) /\ Grows(L, M)
<1>1. CASE M \in OpenFailures(L)
  BY <1>1, OpenFailuresGrow
<1>2. ASSUME NEW o \in Opened(L), NEW q \in SomeOrders(o.pending),
             M \in AdvanceFailures(Visited(o, q, Fine(q)))
      PROVE  ListOK(M) /\ Grows(L, M)
  <2>1. ListOK(o) /\ Grows(L, o) /\ o.ready
    BY OpenedGrows
  <2>2. L \in List /\ o \in List /\ o.pending \in SUBSET File
    BY <2>1, ListFields DEF ListOK
  <2>3. PICK V : V = Visited(o, q, Fine(q))
    OBVIOUS
  <2>4. V.exhausted = o.exhausted
    BY <2>2, <2>3, VisitedFields
  <2>5. ~o.exhausted
    BY <1>2, <2>3, <2>4 DEF AdvanceFailures
  <2>6. PICK n \in Nat : /\ q \in [1..n -> o.pending]
                         /\ \A i, j \in 1..n : q[i] = q[j] => i = j
    BY <2>2, SomeOrderOnce
  <2>7. ListOK(V) /\ Grows(o, V) /\ V.ready
    BY <2>1, <2>3, <2>5, <2>6, FineBatch
  <2>8. ListOK(M) /\ Grows(V, M)
    BY <1>2, <2>3, <2>7, AdvanceFailuresGrow
  <2>9. V \in List /\ M \in List
    BY <2>7, <2>8 DEF ListOK
  <2>10. Grows(o, M)
    BY <2>2, <2>7, <2>8, <2>9, GrowsTransitive
  <2>11. Grows(L, M)
    BY <2>1, <2>2, <2>9, <2>10, GrowsTransitive
  <2>. QED
    BY <2>8, <2>11
<1>. QED
  BY <1>1, <1>2 DEF ExpandFailures

\* A new list has the filters asked for and those of the list it is made of.
LEMMA PushedDownOK ==
    ASSUME TypeOK, NEW L, ListOK(L), NEW new \in Filters, NEW n, n = PushedDown(L, new)
    PROVE  /\ ListOK(n) /\ n.version = L.version
           /\ Matching(L.filters) \cap Matching(new) \subseteq Matching(n.filters)
<1>1. L \in List /\ L.version \in 1..Len(table) /\ L.filters \in Filters
  BY ListFields DEF ListOK, TypeOK
<1>. DEFINE fs == [c \in Col |-> IF new[c] # None THEN new[c] ELSE L.filters[c]]
<1>2. fs \in Filters
  BY <1>1 DEF Filters
<1>3. n = NewList(L.version, fs)
  BY DEF PushedDown
<1>4. \A c \in Col : fs[c] = new[c] \/ fs[c] = L.filters[c]
  OBVIOUS
<1>. HIDE DEF fs
<1>5. ListOK(n)
  BY <1>1, <1>2, <1>3, NewListOK
<1>6. n.version = L.version /\ n.filters = fs
  BY <1>3 DEF NewList
<1>7. Matching(L.filters) \cap Matching(new) \subseteq Matching(fs)
  BY <1>4 DEF Matching
<1>. QED
  BY <1>5, <1>6, <1>7

LEMMA UnknownOK ==
    ASSUME NEW L \in List, NEW new \in Filters
    PROVE  /\ Unknown(L, new) \in Filters
           /\ Matching(new) \subseteq Matching(Unknown(L, new))
<1>1. Unknown(L, new) \in Filters
  BY DEF Unknown, Filters
<1>2. \A c \in Col : Unknown(L, new)[c] # None => Unknown(L, new)[c] = new[c]
  BY DEF Unknown
<1>. QED
  BY <1>1, <1>2 DEF Matching

(* How many files a list has.                                              *)

LEMMA LiveFinite ==
    ASSUME TypeOK, NEW L, ListOK(L)
    PROVE  /\ table[L.version].live \subseteq File /\ IsFiniteSet(table[L.version].live)
           /\ Cardinality(table[L.version].live) \in Nat
           /\ Cardinality(table[L.version].live) <= Cardinality(File)
           /\ Cardinality(File) \in Nat
<1>1. L.version \in 1..Len(table)
  BY ListFields DEF ListOK, TypeOK
<1>2. table[L.version] \in Content
  BY <1>1 DEF TypeOK
<1>3. table[L.version].live \subseteq File
  BY <1>2, ContentFields
<1>. QED
  BY <1>3, FS_Subset, FS_CardinalityType

LEMMA LengthBound ==
    ASSUME TypeOK, NEW L, ListOK(L)
    PROVE  /\ Len(L.resolved) \in Number
           /\ Len(L.resolved) <= Cardinality(table[L.version].live)
           /\ Through(L) /\ ~L.damaged /\ L.filters = NoFilters =>
                Len(L.resolved) = Cardinality(table[L.version].live)
<1>. DEFINE n == Len(L.resolved)
            live == table[L.version].live
            g == [i \in 1..n |-> L.resolved[i].file]
<1>1. L \in List /\ n \in Nat
  BY ListFields DEF ListOK
<1>2. /\ live \subseteq File /\ IsFiniteSet(live) /\ Cardinality(live) \in Nat
      /\ Cardinality(live) <= Cardinality(File) /\ Cardinality(File) \in Nat
  BY LiveFinite
<1>3. /\ \A i \in 1..n : g[i] = L.resolved[i].file /\ g[i] \in live
      /\ \A i, j \in 1..n : g[i] = g[j] => i = j
      /\ g \in [1..n -> live]
  BY DEF ListOK
<1>4. Cardinality(1..n) = n
  BY <1>1, FS_Interval
<1>. HIDE DEF n, live, g
<1>5. g \in Injection(1..n, live)
  BY <1>3 DEF Injection, IsInjective
<1>6. /\ Cardinality(1..n) <= Cardinality(live)
      /\ Cardinality(1..n) = Cardinality(live) <=> g \in Surjection(1..n, live)
  BY <1>2, <1>5, FS_Injection
<1>7. ASSUME Through(L), ~L.damaged, L.filters = NoFilters
      PROVE  n = Cardinality(live)
  <2>1. \A f \in live : \E i \in 1..n : g[i] = f
    <3>1. live \subseteq Matching(L.filters)
      BY <1>2, <1>7 DEF Matching, NoFilters
    <3>2. L.ready /\ L.pending = {}
      BY <1>7 DEF ListOK, Through
    <3>3. \A f \in live : \E i \in 1..n : L.resolved[i].file = f
      BY <1>7, <3>1, <3>2 DEF ListOK, n, live
    <3>. QED
      BY <1>3, <3>3
  <2>2. g \in Surjection(1..n, live)
    BY <1>3, <2>1 DEF Surjection
  <2>. QED
    BY <1>4, <1>6, <2>2
<1>8. n \in Number /\ n <= Cardinality(live)
  BY <1>1, <1>2, <1>4, <1>6 DEF Number
<1>. QED
  BY <1>7, <1>8 DEF n, live

(* A scan while its lists grow.                                            *)

\* A scan as its fields.
LEMMA ScanFields ==
    ASSUME NEW r \in Scanning
    PROVE  /\ r = [phase |-> r.phase, plan |-> r.plan, exec |-> r.exec, next |-> r.next,
                   wanted |-> r.wanted, needed |-> r.needed, total |-> r.total,
                   filtered |-> r.filtered]
           /\ r.phase \in {"new", "planning", "reading", "done", "failed"}
           /\ r.plan \in List \cup {None} /\ r.exec \in List \cup {None}
           /\ r.next \in 1..Cardinality(File) + 1 /\ r.next \in Nat
           /\ r.wanted \in SUBSET File /\ r.needed \in SUBSET File
           /\ r.total \in Number \cup {None} /\ r.filtered \in Number \cup {None}
<1>1. Cardinality(File) \in Nat
  BY FS_CardinalityType
<1>. QED
  BY <1>1 DEF Scanning

\* A list that grows keeps what its reader found and may still find.
LEMMA ReaderStays ==
    ASSUME NEW L \in List, NEW M \in List, Grows(L, M), NEW k \in Nat
    PROVE  /\ k - 1 <= Len(L.resolved) => k - 1 <= Len(M.resolved)
           /\ M.filters = L.filters /\ M.version = L.version
           /\ Through(L) => M = L
  BY ListFields DEF Grows, Through

\* Somebody else fills the catalog's list.
LEMMA CatalogGrows ==
    ASSUME TypeOK, NEW r \in Scanning, NEW c, NEW d, ListOK(c), ListOK(d), Grows(c, d),
           ScanInv(r, c)
    PROVE  ScanInv(r, d)
<1>1. c \in List /\ d \in List /\ d.version = c.version /\ (c.damaged => d.damaged)
  BY DEF ListOK, Grows
<1>2. r.next \in Nat
  BY ScanFields
<1>3. OwnLists(r, d)
  BY <1>1 DEF ScanInv, OwnLists
<1>4. Counted(r, d)
  BY <1>1 DEF ScanInv, Counted
<1>5. PlanOf(r, d).filters = PlanOf(r, c).filters
  BY DEF PlanOf, Grows
<1>6. /\ ReadOf(r, d).filters = ReadOf(r, c).filters
      /\ r.next - 1 <= Len(ReadOf(r, d).resolved)
      /\ Through(ReadOf(r, c)) => ReadOf(r, d) = ReadOf(r, c)
  BY <1>1, <1>2, ReaderStays DEF ReadOf, PlanOf, ScanInv, Progress
<1>7. Progress(r, d)
  BY <1>5, <1>6 DEF ScanInv, Progress
<1>. QED
  BY <1>3, <1>4, <1>7 DEF ScanInv

\* A scan fills a list of its own.
LEMMA PlanGrows ==
    ASSUME TypeOK, NEW r \in Scanning, NEW c, ListOK(c), ScanInv(r, c), r.plan # None,
           NEW M, ListOK(M), Grows(r.plan, M),
           NEW q, q = [r EXCEPT !.plan = M]
    PROVE  q \in Scanning /\ ScanInv(q, c) /\ PlanOf(q, c) = M
<1>1. r.plan \in List /\ M \in List /\ M # None /\ r.next \in Nat
  BY ScanFields DEF ListOK, ScanInv, OwnLists
<1>2. q = [phase |-> r.phase, plan |-> M, exec |-> r.exec, next |-> r.next,
           wanted |-> r.wanted, needed |-> r.needed, total |-> r.total, filtered |-> r.filtered]
  BY DEF Scanning
<1>3. q \in Scanning
  BY <1>1, <1>2, ScanFields DEF Scanning
<1>4. OwnLists(q, c)
  BY <1>1, <1>2 DEF ScanInv, OwnLists, Grows
<1>5. Counted(q, c)
  BY <1>2 DEF ScanInv, Counted
<1>6. PlanOf(q, c) = M /\ PlanOf(r, c) = r.plan
  BY <1>1, <1>2 DEF PlanOf
<1>7. /\ ReadOf(q, c).filters = ReadOf(r, c).filters
      /\ r.next - 1 <= Len(ReadOf(q, c).resolved)
      /\ Through(ReadOf(r, c)) => ReadOf(q, c) = ReadOf(r, c)
  <2>1. q.exec = r.exec
    BY <1>2
  <2>2. r.next - 1 <= Len(ReadOf(r, c).resolved)
    BY DEF ScanInv, Progress
  <2>. QED
    BY <1>1, <1>6, <2>1, <2>2, ReaderStays DEF ReadOf
<1>8. PlanOf(q, c).filters = PlanOf(r, c).filters
  BY <1>6 DEF Grows
<1>9. Progress(q, c)
  BY <1>2, <1>7, <1>8 DEF ScanInv, Progress
<1>. QED
  BY <1>3, <1>4, <1>5, <1>6, <1>9 DEF ScanInv

LEMMA ExecGrows ==
    ASSUME TypeOK, NEW r \in Scanning, NEW c, ListOK(c), ScanInv(r, c), r.exec # None,
           NEW M, ListOK(M), Grows(r.exec, M),
           NEW q, q = [r EXCEPT !.exec = M]
    PROVE  q \in Scanning /\ ScanInv(q, c) /\ ReadOf(q, c) = M
<1>1. r.exec \in List /\ M \in List /\ M # None /\ r.next \in Nat
  BY ScanFields DEF ListOK, ScanInv, OwnLists
<1>2. q = [phase |-> r.phase, plan |-> r.plan, exec |-> M, next |-> r.next,
           wanted |-> r.wanted, needed |-> r.needed, total |-> r.total, filtered |-> r.filtered]
  BY DEF Scanning
<1>3. q \in Scanning
  BY <1>1, <1>2, ScanFields DEF Scanning
<1>4. OwnLists(q, c)
  BY <1>1, <1>2 DEF ScanInv, OwnLists, Grows
<1>5. Counted(q, c)
  BY <1>2 DEF ScanInv, Counted
<1>6. ReadOf(q, c) = M /\ ReadOf(r, c) = r.exec /\ PlanOf(q, c) = PlanOf(r, c)
  BY <1>1, <1>2 DEF ReadOf, PlanOf
<1>7. /\ M.filters = r.exec.filters
      /\ r.next - 1 <= Len(M.resolved)
      /\ Through(r.exec) => M = r.exec
  <2>1. r.next - 1 <= Len(r.exec.resolved)
    BY <1>6 DEF ScanInv, Progress
  <2>. QED
    BY <1>1, <2>1, ReaderStays
<1>8. r.phase \in {"reading", "done"}
  BY ScanFields DEF ScanInv, Progress
<1>9. Progress(q, c)
  BY <1>2, <1>6, <1>7, <1>8 DEF ScanInv, Progress
<1>. QED
  BY <1>3, <1>4, <1>5, <1>6, <1>9 DEF ScanInv

(* What is true of a list and of a scan depends only on the settings and on *)
(* versions the table has.                                                 *)

VersionsStay ==
    /\ Len(table') \in Nat /\ Len(table) <= Len(table')
    /\ \A v \in 1..Len(table) : table'[v] = table[v]

LEMMA CatalogCarries ==
    ASSUME TypeOK, VersionsStay, UNCHANGED settings, NEW c, ListOK(c), shared' = c
    PROVE  ListOK(shared)'
<1>1. partitioned' = partitioned /\ Len(table) \in Nat
  BY DEF settings, TypeOK
<1>2. c \in List /\ c.version \in Nat /\ c.version \in 1..Len(table)
  BY <1>1, ListFields DEF ListOK
<1>3. table'[c.version] = table[c.version] /\ c.version <= Len(table')
  BY <1>1, <1>2 DEF VersionsStay
<1>. QED
  BY <1>1, <1>2, <1>3 DEF ListOK, Truth

LEMMA ScanCarries ==
    ASSUME TypeOK, VersionsStay, UNCHANGED settings,
           NEW u \in Scan, NEW r, NEW c, ListOK(c), ScanInv(r, c), scan'[u] = r, shared' = c
    PROVE  ScanInv(scan[u], shared)'
<1>1. partitioned' = partitioned /\ report' = report /\ Len(table) \in Nat
  BY DEF settings, TypeOK
<1>2. OwnLists(scan[u], shared)'
  <2>1. OwnLists(r, c)
    BY DEF ScanInv
  <2>2. ASSUME r.plan # None PROVE ListOK(scan[u].plan)' /\ r.plan.version = c.version
    <3>1. PICK L : L = r.plan /\ ListOK(L) /\ L.version = c.version
      BY <2>1, <2>2 DEF OwnLists
    <3>2. scan'[u].plan = L
      BY <3>1
    <3>3. L.version \in 1..Len(table)
      BY <1>1, <3>1, ListFields DEF ListOK
    <3>4. table'[L.version] = table[L.version] /\ L.version <= Len(table')
      BY <1>1, <3>3 DEF VersionsStay
    <3>5. ListOK(L)'
      BY ONLY <1>1, <3>1, <3>4 DEF ListOK, Truth
    <3>6. ListOK(scan[u].plan)'
      BY ONLY <3>2, <3>5 DEF ListOK, Truth
    <3>. QED
      BY <3>1, <3>6
  <2>3. ASSUME r.exec # None PROVE ListOK(scan[u].exec)' /\ r.exec.version = c.version
    <3>1. PICK L : L = r.exec /\ ListOK(L) /\ L.version = c.version
      BY <2>1, <2>3 DEF OwnLists
    <3>2. scan'[u].exec = L
      BY <3>1
    <3>3. L.version \in 1..Len(table)
      BY <1>1, <3>1, ListFields DEF ListOK
    <3>4. table'[L.version] = table[L.version] /\ L.version <= Len(table')
      BY <1>1, <3>3 DEF VersionsStay
    <3>5. ListOK(L)'
      BY ONLY <1>1, <3>1, <3>4 DEF ListOK, Truth
    <3>6. ListOK(scan[u].exec)'
      BY ONLY <3>2, <3>5 DEF ListOK, Truth
    <3>. QED
      BY <3>1, <3>6
  <2>. QED
    BY <2>2, <2>3 DEF OwnLists
<1>3. Progress(scan[u], shared)'
  BY DEF ScanInv, Progress, ReadOf, PlanOf, Through
<1>4. Counted(scan[u], shared)'
  <2>1. c.version \in 1..Len(table)
    BY <1>1, ListFields DEF ListOK
  <2>2. table'[c.version] = table[c.version]
    BY <2>1 DEF VersionsStay
  <2>. QED
    BY <1>1, <2>2 DEF ScanInv, Counted
<1>. QED
  BY <1>2, <1>3, <1>4 DEF ScanInv

\* A step of a scan, in which its own part holds and the catalog's list only grows.
LEMMA ScanStep ==
    ASSUME IInv, NEW s \in Scan, UNCHANGED <<table, settings>>,
           NEW d, ListOK(d), Grows(shared, d), shared' = d,
           NEW q \in Scanning, ScanInv(q, d), scan' = [scan EXCEPT ![s] = q],
           failures' \in 0..MaxFailures
    PROVE  IInv' /\ Grows(shared, shared')
<1>1. TypeOK /\ ListOK(shared) /\ shared.filters = NoFilters /\ scan \in [Scan -> Scanning]
  BY DEF IInv, Catalog, TypeOK
<1>2. scan' \in [Scan -> Scanning] /\ scan'[s] = q /\ \A u \in Scan \ {s} : scan'[u] = scan[u]
  BY <1>1
<1>3. TypeOK'
  <2>1. table' = table /\ partitioned' = partitioned /\ report' = report /\ d \in List
    BY DEF settings, ListOK
  <2>. QED
    BY <1>1, <1>2, <2>1 DEF TypeOK
<1>4. VersionsStay
  BY <1>1 DEF VersionsStay, TypeOK
<1>5. Catalog'
  <2>1. ListOK(shared)'
    BY <1>1, <1>4, CatalogCarries
  <2>2. d.filters = NoFilters
    BY <1>1 DEF Grows
  <2>. QED
    BY <2>1, <2>2 DEF Catalog
<1>6. ASSUME NEW u \in Scan PROVE ScanInv(scan[u], shared)'
  <2>1. CASE u = s
    BY <1>1, <1>2, <1>4, <2>1, ScanCarries
  <2>2. CASE u # s
    <3>1. PICK r \in Scanning : r = scan[u] /\ scan'[u] = r
      BY <1>1, <1>2, <2>2
    <3>2. ScanInv(r, shared)
      BY <3>1 DEF IInv
    <3>3. ScanInv(r, d)
      BY <1>1, <3>2, CatalogGrows
    <3>. QED
      BY <1>1, <1>4, <3>1, <3>3, ScanCarries
  <2>. QED
    BY <2>1, <2>2
<1>. QED
  BY <1>3, <1>5, <1>6 DEF IInv

(* A scan and the catalog's list after a call on a list of the scan.       *)

AfterPlan(r, M) == IF r.plan = None THEN r ELSE [r EXCEPT !.plan = M]
CatalogAfterPlan(r, c, M) == IF r.plan = None THEN M ELSE c

AfterRead(r, M) == IF r.exec = None THEN AfterPlan(r, M) ELSE [r EXCEPT !.exec = M]
CatalogAfterRead(r, c, M) == IF r.exec = None THEN CatalogAfterPlan(r, c, M) ELSE c

LEMMA GrowsSelf ==
    ASSUME NEW L, ListOK(L)
    PROVE  Grows(L, L)
  BY ListFields DEF ListOK, Grows

LEMMA ListsOK ==
    ASSUME TypeOK, NEW r \in Scanning, NEW c, ListOK(c), ScanInv(r, c)
    PROVE  /\ ListOK(PlanOf(r, c)) /\ ListOK(ReadOf(r, c))
           /\ PlanOf(r, c).version = c.version /\ ReadOf(r, c).version = c.version
  BY DEF ScanInv, OwnLists, PlanOf, ReadOf

LEMMA PlanStep ==
    ASSUME TypeOK, NEW r \in Scanning, NEW c, ListOK(c), ScanInv(r, c),
           NEW M, ListOK(M), Grows(PlanOf(r, c), M),
           NEW q, q = AfterPlan(r, M), NEW d, d = CatalogAfterPlan(r, c, M)
    PROVE  /\ ListOK(d) /\ Grows(c, d)
           /\ q \in Scanning /\ ScanInv(q, d) /\ PlanOf(q, d) = M
<1>1. CASE r.plan = None
  <2>1. q = r /\ d = M /\ PlanOf(r, c) = c /\ PlanOf(q, d) = M
    BY <1>1 DEF AfterPlan, CatalogAfterPlan, PlanOf
  <2>2. ScanInv(r, M)
    BY <2>1, CatalogGrows
  <2>. QED
    BY <2>1, <2>2
<1>2. CASE r.plan # None
  <2>1. q = [r EXCEPT !.plan = M] /\ d = c /\ PlanOf(r, c) = r.plan
    BY <1>2 DEF AfterPlan, CatalogAfterPlan, PlanOf
  <2>2. q \in Scanning /\ ScanInv(q, c) /\ PlanOf(q, c) = M
    BY <1>2, <2>1, PlanGrows
  <2>. QED
    BY <2>1, <2>2, GrowsSelf
<1>. QED
  BY <1>1, <1>2

LEMMA ReadStep ==
    ASSUME TypeOK, NEW r \in Scanning, NEW c, ListOK(c), ScanInv(r, c),
           NEW M, ListOK(M), Grows(ReadOf(r, c), M),
           NEW q, q = AfterRead(r, M), NEW d, d = CatalogAfterRead(r, c, M)
    PROVE  /\ ListOK(d) /\ Grows(c, d)
           /\ q \in Scanning /\ ScanInv(q, d) /\ ReadOf(q, d) = M
<1>1. CASE r.exec = None
  <2>1. /\ q = AfterPlan(r, M) /\ d = CatalogAfterPlan(r, c, M)
        /\ ReadOf(r, c) = PlanOf(r, c)
    BY <1>1 DEF AfterRead, CatalogAfterRead, ReadOf
  <2>2. /\ ListOK(d) /\ Grows(c, d)
        /\ q \in Scanning /\ ScanInv(q, d) /\ PlanOf(q, d) = M
    BY <2>1, PlanStep
  <2>3. q.exec = None
    BY <1>1, <2>1 DEF AfterPlan, Scanning
  <2>. QED
    BY <2>2, <2>3 DEF ReadOf
<1>2. CASE r.exec # None
  <2>1. q = [r EXCEPT !.exec = M] /\ d = c /\ ReadOf(r, c) = r.exec
    BY <1>2 DEF AfterRead, CatalogAfterRead, ReadOf
  <2>2. q \in Scanning /\ ScanInv(q, c) /\ ReadOf(q, c) = M
    BY <1>2, <2>1, ExecGrows
  <2>. QED
    BY <2>1, <2>2, GrowsSelf
<1>. QED
  BY <1>1, <1>2

(* A scan that goes on, with its lists as they are.                        *)

LEMMA FreshScan ==
    ASSUME TypeOK, NEW c, ListOK(c), c.filters = NoFilters,
           NEW q, q = Unbound \/ q = [Unbound EXCEPT !.phase = "planning"]
    PROVE  q \in Scanning /\ ScanInv(q, c)
<1>1. c \in List /\ Len(c.resolved) \in Nat /\ Cardinality(File) \in Nat
  BY ListFields, FS_CardinalityType DEF ListOK
<1>2. /\ q = [phase |-> q.phase, plan |-> None, exec |-> None, next |-> 1, wanted |-> File,
              needed |-> File, total |-> None, filtered |-> None]
      /\ q.phase \in {"new", "planning"}
  BY DEF Unbound
<1>3. q \in Scanning
  BY <1>1, <1>2 DEF Scanning
<1>4. PlanOf(q, c) = c /\ ReadOf(q, c) = c
  BY <1>2 DEF PlanOf, ReadOf
<1>5. Matching(c.filters) = File
  BY DEF Matching, NoFilters
<1>6. OwnLists(q, c) /\ Counted(q, c)
  BY <1>2 DEF OwnLists, Counted
<1>7. Progress(q, c)
  BY <1>1, <1>2, <1>4, <1>5 DEF Progress
<1>. QED
  BY <1>3, <1>6, <1>7 DEF ScanInv

LEMMA NextFile ==
    ASSUME TypeOK, NEW r \in Scanning, NEW c, ListOK(c), ScanInv(r, c), r.phase = "reading",
           r.next <= Len(ReadOf(r, c).resolved),
           NEW q, q = [r EXCEPT !.next = r.next + 1]
    PROVE  q \in Scanning /\ ScanInv(q, c)
<1>1. /\ Len(ReadOf(r, c).resolved) \in Nat
      /\ Len(ReadOf(r, c).resolved) <= Cardinality(File) /\ Cardinality(File) \in Nat
  BY ListsOK, LengthBound, LiveFinite DEF Number
<1>2. q = [phase |-> r.phase, plan |-> r.plan, exec |-> r.exec, next |-> r.next + 1,
           wanted |-> r.wanted, needed |-> r.needed, total |-> r.total, filtered |-> r.filtered]
  BY DEF Scanning
<1>3. q \in Scanning
  BY <1>1, <1>2, ScanFields DEF Scanning
<1>4. PlanOf(q, c) = PlanOf(r, c) /\ ReadOf(q, c) = ReadOf(r, c)
  BY <1>2 DEF PlanOf, ReadOf
<1>5. OwnLists(q, c) /\ Counted(q, c)
  BY <1>2 DEF ScanInv, OwnLists, Counted
<1>6. Progress(q, c)
  BY <1>1, <1>2, <1>4, ScanFields DEF ScanInv, Progress
<1>. QED
  BY <1>3, <1>5, <1>6 DEF ScanInv

LEMMA NoMoreFiles ==
    ASSUME TypeOK, NEW r \in Scanning, NEW c, ListOK(c), ScanInv(r, c), r.phase = "reading",
           r.next > Len(ReadOf(r, c).resolved), Through(ReadOf(r, c)),
           NEW q, q = [r EXCEPT !.phase = "done"]
    PROVE  q \in Scanning /\ ScanInv(q, c)
<1>1. Len(ReadOf(r, c).resolved) \in Nat
  BY ListsOK, ListFields DEF ListOK
<1>2. q = [phase |-> "done", plan |-> r.plan, exec |-> r.exec, next |-> r.next,
           wanted |-> r.wanted, needed |-> r.needed, total |-> r.total, filtered |-> r.filtered]
  BY DEF Scanning
<1>3. q \in Scanning
  BY <1>2, ScanFields DEF Scanning
<1>4. PlanOf(q, c) = PlanOf(r, c) /\ ReadOf(q, c) = ReadOf(r, c)
  BY <1>2 DEF PlanOf, ReadOf
<1>5. OwnLists(q, c) /\ Counted(q, c)
  BY <1>2 DEF ScanInv, OwnLists, Counted
<1>6. Progress(q, c)
  BY <1>1, <1>2, <1>4, ScanFields DEF ScanInv, Progress
<1>. QED
  BY <1>3, <1>5, <1>6 DEF ScanInv

\* An execution ends with an error, or another one begins.
LEMMA Restarts ==
    ASSUME TypeOK, NEW r \in Scanning, NEW c, ListOK(c), ScanInv(r, c),
           NEW q, \/ q = [r EXCEPT !.phase = "failed", !.exec = None, !.next = 1, !.needed = File]
                  \/ q = [r EXCEPT !.phase = "reading", !.exec = None, !.next = 1, !.needed = r.wanted]
    PROVE  q \in Scanning /\ ScanInv(q, c)
<1>1. Len(PlanOf(r, c).resolved) \in Nat /\ Cardinality(File) \in Nat
  BY ListsOK, ListFields, FS_CardinalityType DEF ListOK
<1>2. /\ q = [phase |-> q.phase, plan |-> r.plan, exec |-> None, next |-> 1,
              wanted |-> r.wanted, needed |-> q.needed, total |-> r.total, filtered |-> r.filtered]
      /\ \/ q.phase = "failed" /\ q.needed = File
         \/ q.phase = "reading" /\ q.needed = r.wanted
  BY DEF Scanning
<1>3. q \in Scanning
  BY <1>1, <1>2, ScanFields DEF Scanning
<1>4. PlanOf(q, c) = PlanOf(r, c) /\ ReadOf(q, c) = PlanOf(r, c)
  BY <1>2 DEF PlanOf, ReadOf
<1>5. OwnLists(q, c) /\ Counted(q, c)
  BY <1>2 DEF ScanInv, OwnLists, Counted
<1>6. Progress(q, c)
  BY <1>1, <1>2, <1>4 DEF ScanInv, Progress
<1>. QED
  BY <1>3, <1>5, <1>6 DEF ScanInv

\* A list with more filters takes the place of the one in the plan, and the files of both
\* may have been counted.
LEMMA FilterPlan ==
    ASSUME TypeOK, NEW r \in Scanning, NEW c, ListOK(c), ScanInv(r, c), r.phase = "planning",
           NEW new \in Filters, NEW m, ListOK(m), m.version = c.version,
           Matching(PlanOf(r, c).filters) \cap Matching(new) \subseteq Matching(m.filters),
           NEW total \in Number \cup {None}, NEW filtered \in Number \cup {None},
           report = "explain" => total # None,
           total # None /\ ~c.damaged => total = Cardinality(table[c.version].live),
           NEW q, q = [phase |-> r.phase, plan |-> m, exec |-> r.exec, next |-> r.next,
                       wanted |-> r.wanted \cap Matching(new), needed |-> r.needed,
                       total |-> total, filtered |-> filtered]
    PROVE  q \in Scanning /\ ScanInv(q, c)
<1>1. m \in List /\ m # None /\ Len(m.resolved) \in Nat
  BY ListFields DEF ListOK
<1>2. r.exec = None /\ r.next = 1
  BY DEF ScanInv, Progress
<1>3. q \in Scanning
  BY <1>1, ScanFields DEF Scanning
<1>4. PlanOf(q, c) = m /\ ReadOf(q, c) = m
  BY <1>1, <1>2 DEF PlanOf, ReadOf
<1>5. OwnLists(q, c) /\ Counted(q, c)
  BY <1>2 DEF OwnLists, Counted
<1>6. r.wanted \cap Matching(new) \subseteq Matching(m.filters)
  BY DEF ScanInv, Progress
<1>7. Progress(q, c)
  <2>1. q.phase = "planning" /\ q.exec = None /\ q.next = 1 /\ q.wanted = r.wanted \cap Matching(new)
    BY <1>2
  <2>2. 1 - 1 <= Len(m.resolved)
    BY <1>1
  <2>. QED
    BY ONLY <1>4, <1>6, <2>1, <2>2 DEF Progress
<1>. QED
  BY <1>3, <1>5, <1>7 DEF ScanInv

\* The list of an execution has more filters than the one in the plan.
LEMMA FilterExecution ==
    ASSUME TypeOK, NEW r \in Scanning, NEW c, ListOK(c), ScanInv(r, c),
           r.phase = "reading", r.next = 1, r.exec = None,
           NEW new \in Filters, NEW m, ListOK(m), m.version = c.version,
           Matching(PlanOf(r, c).filters) \cap Matching(new) \subseteq Matching(m.filters),
           NEW q, q = [phase |-> r.phase, plan |-> r.plan, exec |-> m, next |-> r.next,
                       wanted |-> r.wanted, needed |-> r.needed \cap Matching(new),
                       total |-> r.total, filtered |-> r.filtered]
    PROVE  q \in Scanning /\ ScanInv(q, c)
<1>1. m \in List /\ m # None /\ Len(m.resolved) \in Nat
  BY ListFields DEF ListOK
<1>2. q \in Scanning
  BY <1>1, ScanFields DEF Scanning
<1>3. PlanOf(q, c) = PlanOf(r, c) /\ ReadOf(q, c) = m /\ ReadOf(r, c) = PlanOf(r, c)
  BY <1>1 DEF PlanOf, ReadOf
<1>4. OwnLists(q, c) /\ Counted(q, c)
  BY DEF ScanInv, OwnLists, Counted
<1>5. r.needed \cap Matching(new) \subseteq Matching(m.filters)
  BY <1>3 DEF ScanInv, Progress
<1>6. Progress(q, c)
  <2>1. /\ q.phase = "reading" /\ q.next = 1 /\ q.wanted = r.wanted
        /\ q.needed = r.needed \cap Matching(new)
    OBVIOUS
  <2>2. 1 - 1 <= Len(m.resolved)
    BY <1>1
  <2>3. r.wanted \subseteq Matching(PlanOf(r, c).filters)
    BY DEF ScanInv, Progress
  <2>. QED
    BY ONLY <1>3, <1>5, <2>1, <2>2, <2>3 DEF Progress
<1>. QED
  BY <1>2, <1>4, <1>6 DEF ScanInv

----------------------------------------------------------------------------
(* The invariant is kept, one action after the other.                      *)

\* What every step of a scan starts from.
LEMMA Before ==
    ASSUME IInv, NEW s \in Scan
    PROVE  /\ TypeOK /\ ListOK(shared) /\ shared.filters = NoFilters
           /\ scan \in [Scan -> Scanning] /\ scan[s] \in Scanning /\ ScanInv(scan[s], shared)
           /\ PlanList(s) = PlanOf(scan[s], shared) /\ ReadList(s) = ReadOf(scan[s], shared)
           /\ ListOK(PlanList(s)) /\ ListOK(ReadList(s))
           /\ PlanList(s).version = shared.version /\ failures \in 0..MaxFailures
<1>1. /\ TypeOK /\ ListOK(shared) /\ shared.filters = NoFilters
      /\ scan \in [Scan -> Scanning] /\ scan[s] \in Scanning /\ ScanInv(scan[s], shared)
      /\ failures \in 0..MaxFailures
  BY DEF IInv, TypeOK, Catalog
<1>2. PlanList(s) = PlanOf(scan[s], shared) /\ ReadList(s) = ReadOf(scan[s], shared)
  BY DEF PlanList, ReadList, PlanOf, ReadOf
<1>. QED
  BY <1>1, <1>2, ListsOK

LEMMA FailCounts ==
    ASSUME TypeOK, NEW L, Fail(L)
    PROVE  failures' \in 0..MaxFailures
  BY DEF Fail, TypeOK

LEMMA CreateFileListStep ==
    ASSUME IInv, NEW s \in Scan, CreateFileList(s)
    PROVE  IInv' /\ Grows(shared, shared')
<1>1. TypeOK /\ ListOK(shared) /\ shared.filters = NoFilters /\ failures \in 0..MaxFailures
  BY Before
<1>2. PICK q : q = [Unbound EXCEPT !.phase = "planning"]
  OBVIOUS
<1>3. q \in Scanning /\ ScanInv(q, shared)
  BY <1>1, <1>2, FreshScan
<1>4. /\ scan' = [scan EXCEPT ![s] = q] /\ UNCHANGED <<table, settings>>
      /\ shared' = shared /\ failures' = failures
  BY <1>2 DEF CreateFileList
<1>5. PICK d : d = shared
  OBVIOUS
<1>. QED
  BY <1>1, <1>3, <1>4, <1>5, GrowsSelf, ScanStep

LEMMA ExecuteStep ==
    ASSUME IInv, NEW s \in Scan, Execute(s)
    PROVE  IInv' /\ Grows(shared, shared')
<1>1. /\ TypeOK /\ ListOK(shared) /\ scan \in [Scan -> Scanning] /\ scan[s] \in Scanning
      /\ ScanInv(scan[s], shared) /\ failures \in 0..MaxFailures
  BY Before
<1>2. PICK q : q = [scan[s] EXCEPT !.phase = "reading", !.exec = None, !.next = 1,
                                  !.needed = scan[s].wanted]
  OBVIOUS
<1>3. q \in Scanning /\ ScanInv(q, shared)
  BY <1>1, <1>2, Restarts
<1>4. /\ scan' = [scan EXCEPT ![s] = q] /\ UNCHANGED <<table, settings>>
      /\ shared' = shared /\ failures' = failures
  BY <1>1, <1>2 DEF Execute
<1>5. PICK d : d = shared
  OBVIOUS
<1>. QED
  BY <1>1, <1>3, <1>4, <1>5, GrowsSelf, ScanStep

LEMMA GetCardinalityStep ==
    ASSUME IInv, NEW s \in Scan, GetCardinality(s)
    PROVE  IInv' /\ Grows(shared, shared')
<1>. DEFINE r == scan[s]
<1>1. /\ TypeOK /\ ListOK(shared) /\ r \in Scanning /\ ScanInv(r, shared)
      /\ PlanList(s) = PlanOf(r, shared) /\ ListOK(PlanList(s)) /\ failures \in 0..MaxFailures
  BY Before
<1>2. PICK L \in Expanded(PlanList(s)) : PlanListBecomes(s, L, r)
  BY DEF GetCardinality
<1>3. ListOK(L) /\ Grows(PlanOf(r, shared), L)
  BY <1>1, <1>2, ExpandedGrows
<1>4. PICK q, d : q = AfterPlan(r, L) /\ d = CatalogAfterPlan(r, shared, L)
  OBVIOUS
<1>5. ListOK(d) /\ Grows(shared, d) /\ q \in Scanning /\ ScanInv(q, d)
  BY <1>1, <1>3, <1>4, PlanStep
<1>6. shared' = d /\ scan' = [scan EXCEPT ![s] = q]
  BY <1>2, <1>4 DEF PlanListBecomes, AfterPlan, CatalogAfterPlan
<1>7. UNCHANGED <<table, settings>> /\ failures' = failures
  BY DEF GetCardinality
<1>. QED
  BY <1>1, <1>5, <1>6, <1>7, ScanStep

LEMMA PlanningFailsStep ==
    ASSUME IInv, NEW s \in Scan, NEW L, ListOK(L), Grows(PlanList(s), L), PlanningFails(s, L),
           UNCHANGED <<table, settings>>, failures' \in 0..MaxFailures
    PROVE  IInv' /\ Grows(shared, shared')
<1>1. /\ TypeOK /\ ListOK(shared) /\ shared.filters = NoFilters
      /\ PlanList(s) = PlanOf(scan[s], shared)
  BY Before
<1>2. PICK d : d = CatalogAfterPlan(scan[s], shared, L)
  OBVIOUS
<1>3. ListOK(d) /\ Grows(shared, d)
  BY <1>1, <1>2, GrowsSelf DEF CatalogAfterPlan, PlanOf
<1>4. d.filters = NoFilters
  BY <1>1, <1>3 DEF Grows
<1>5. PICK q : q = Unbound
  OBVIOUS
<1>6. q \in Scanning /\ ScanInv(q, d)
  BY <1>1, <1>3, <1>4, <1>5, FreshScan
<1>7. shared' = d /\ scan' = [scan EXCEPT ![s] = q]
  BY <1>2, <1>5 DEF PlanningFails, CatalogAfterPlan
<1>. QED
  BY <1>3, <1>6, <1>7, ScanStep

LEMMA GetCardinalityFailsStep ==
    ASSUME IInv, NEW s \in Scan, GetCardinalityFails(s)
    PROVE  IInv' /\ Grows(shared, shared')
<1>1. TypeOK /\ ListOK(PlanList(s))
  BY Before
<1>2. PICK L \in ExpandFailures(PlanList(s)) : PlanningFails(s, L)
  BY DEF GetCardinalityFails
<1>3. ListOK(L) /\ Grows(PlanList(s), L)
  BY <1>1, <1>2, ExpandFailuresGrow
<1>4. UNCHANGED <<table, settings>> /\ failures' \in 0..MaxFailures
  BY <1>1, FailCounts DEF GetCardinalityFails
<1>. QED
  BY <1>2, <1>3, <1>4, PlanningFailsStep

LEMMA ReportFilterPushdownFailsStep ==
    ASSUME IInv, NEW s \in Scan, ReportFilterPushdownFails(s)
    PROVE  IInv' /\ Grows(shared, shared')
<1>1. TypeOK /\ ListOK(PlanList(s))
  BY Before
<1>2. PICK L \in ExpandFailures(PlanList(s)) \cup Expanded(PlanList(s)) : PlanningFails(s, L)
  BY DEF ReportFilterPushdownFails
<1>3. ListOK(L) /\ Grows(PlanList(s), L)
  BY <1>1, <1>2, ExpandFailuresGrow, ExpandedGrows
<1>4. UNCHANGED <<table, settings>> /\ failures' \in 0..MaxFailures
  BY <1>1, FailCounts DEF ReportFilterPushdownFails
<1>. QED
  BY <1>2, <1>3, <1>4, PlanningFailsStep

\* A scan whose execution failed, and which keeps its plan.
Stopped(q) == [q EXCEPT !.phase = "failed", !.exec = None, !.next = 1, !.needed = File]

\* The record after a failed execution, when a list in the plan became L.
LEMMA FailedAfterPlan ==
    ASSUME NEW s \in Scan, scan[s] \in Scanning, NEW L,
           NEW q \in Scanning, q = AfterPlan(scan[s], L),
           NEW z, z = Stopped(q)
    PROVE  z = IF scan[s].plan = None THEN Failed(s) ELSE [Failed(s) EXCEPT !.plan = L]
<1>. DEFINE r == scan[s]
<1>1. r = [phase |-> r.phase, plan |-> r.plan, exec |-> r.exec, next |-> r.next,
           wanted |-> r.wanted, needed |-> r.needed, total |-> r.total, filtered |-> r.filtered]
  BY ScanFields
<1>2. CASE r.plan = None
  BY <1>2 DEF AfterPlan, Failed, Stopped
<1>3. CASE r.plan # None
  <2>1. q = [phase |-> r.phase, plan |-> L, exec |-> r.exec, next |-> r.next,
             wanted |-> r.wanted, needed |-> r.needed, total |-> r.total, filtered |-> r.filtered]
    BY <1>1, <1>3 DEF AfterPlan
  <2>2. z = [phase |-> "failed", plan |-> L, exec |-> None, next |-> 1,
             wanted |-> r.wanted, needed |-> File, total |-> r.total, filtered |-> r.filtered]
    <3>1. z = [phase |-> "failed", plan |-> q.plan, exec |-> None, next |-> 1,
               wanted |-> q.wanted, needed |-> File, total |-> q.total, filtered |-> q.filtered]
      BY DEF Scanning, Stopped
    <3>2. q.plan = L /\ q.wanted = r.wanted /\ q.total = r.total /\ q.filtered = r.filtered
      BY <2>1
    <3>. QED
      BY <3>1, <3>2
  <2>3. Failed(s) = [phase |-> "failed", plan |-> r.plan, exec |-> None, next |-> 1,
             wanted |-> r.wanted, needed |-> File, total |-> r.total, filtered |-> r.filtered]
    <3>1. PICK y : y = Failed(s)
      OBVIOUS
    <3>2. y = [r EXCEPT !.phase = "failed", !.exec = None, !.next = 1, !.needed = File]
      BY <3>1 DEF Failed
    <3>3. y = [phase |-> "failed", plan |-> r.plan, exec |-> None, next |-> 1,
             wanted |-> r.wanted, needed |-> File, total |-> r.total, filtered |-> r.filtered]
      BY <3>2 DEF Scanning
    <3>. QED
      BY <3>1, <3>3
  <2>4. PICK y : y = [Failed(s) EXCEPT !.plan = L]
    OBVIOUS
  <2>5. y = [phase |-> "failed", plan |-> L, exec |-> None, next |-> 1,
             wanted |-> r.wanted, needed |-> File, total |-> r.total, filtered |-> r.filtered]
    BY <2>3, <2>4
  <2>. QED
    BY <1>3, <2>2, <2>4, <2>5
<1>. QED
  BY <1>2, <1>3

LEMMA ExecutionFailsStep ==
    ASSUME IInv, NEW s \in Scan, NEW L, ListOK(L), Grows(PlanList(s), L),
           PlanListBecomes(s, L, Failed(s)),
           UNCHANGED <<table, settings>>, failures' \in 0..MaxFailures
    PROVE  IInv' /\ Grows(shared, shared')
<1>. DEFINE r == scan[s]
<1>1. /\ TypeOK /\ ListOK(shared) /\ r \in Scanning /\ ScanInv(r, shared)
      /\ PlanList(s) = PlanOf(r, shared)
  BY Before
<1>2. PICK q, d : q = AfterPlan(r, L) /\ d = CatalogAfterPlan(r, shared, L)
  OBVIOUS
<1>3. ListOK(d) /\ Grows(shared, d) /\ q \in Scanning /\ ScanInv(q, d)
  BY <1>1, <1>2, PlanStep
<1>4. PICK z : z = Stopped(q)
  OBVIOUS
<1>5. z \in Scanning /\ ScanInv(z, d)
  BY <1>1, <1>3, <1>4, Restarts DEF Stopped
<1>6. z = IF r.plan = None THEN Failed(s) ELSE [Failed(s) EXCEPT !.plan = L]
  BY <1>1, <1>2, <1>3, <1>4, FailedAfterPlan
<1>7. shared' = d /\ scan' = [scan EXCEPT ![s] = z]
  BY <1>2, <1>6 DEF PlanListBecomes, CatalogAfterPlan
<1>. QED
  BY <1>3, <1>5, <1>7, ScanStep

LEMMA DynamicFilterPushdownFailsStep ==
    ASSUME IInv, NEW s \in Scan, DynamicFilterPushdownFails(s)
    PROVE  IInv' /\ Grows(shared, shared')
<1>1. TypeOK /\ ListOK(PlanList(s))
  BY Before
<1>2. PICK L \in ExpandFailures(PlanList(s)) \cup Expanded(PlanList(s)) :
          PlanListBecomes(s, L, Failed(s))
  BY DEF DynamicFilterPushdownFails
<1>3. ListOK(L) /\ Grows(PlanList(s), L)
  BY <1>1, <1>2, ExpandFailuresGrow, ExpandedGrows
<1>4. UNCHANGED <<table, settings>> /\ failures' \in 0..MaxFailures
  BY <1>1, FailCounts DEF DynamicFilterPushdownFails
<1>. QED
  BY <1>2, <1>3, <1>4, ExecutionFailsStep

LEMMA GetFileFailsStep ==
    ASSUME IInv, NEW s \in Scan, GetFileFails(s)
    PROVE  IInv' /\ Grows(shared, shared')
<1>. DEFINE r == scan[s]
<1>1. /\ TypeOK /\ ListOK(shared) /\ r \in Scanning /\ ScanInv(r, shared)
      /\ ListOK(ReadList(s)) /\ PlanList(s) = PlanOf(r, shared)
      /\ ReadList(s) = ReadOf(r, shared)
  BY Before
<1>2. PICK L \in OpenFailures(ReadList(s)) \cup
                 UNION {AdvanceFailures(o) : o \in {o \in Opened(ReadList(s)) :
                           scan[s].next > Len(o.resolved)}} :
          IF r.exec = None
          THEN PlanListBecomes(s, L, Failed(s))
          ELSE scan' = [scan EXCEPT ![s] = Failed(s)] /\ UNCHANGED shared
  BY DEF GetFileFails
<1>3. ListOK(L) /\ Grows(ReadList(s), L)
  <2>1. CASE L \in OpenFailures(ReadList(s))
    BY <1>1, <2>1, OpenFailuresGrow
  <2>2. ASSUME NEW o \in Opened(ReadList(s)), L \in AdvanceFailures(o)
        PROVE  ListOK(L) /\ Grows(ReadList(s), L)
    <3>1. ListOK(o) /\ Grows(ReadList(s), o) /\ o.ready
      BY <1>1, OpenedGrows
    <3>2. ListOK(L) /\ Grows(o, L)
      BY <1>1, <2>2, <3>1, AdvanceFailuresGrow
    <3>3. ReadList(s) \in List /\ o \in List /\ L \in List
      BY <1>1, <3>1, <3>2 DEF ListOK
    <3>. QED
      BY <3>1, <3>2, <3>3, GrowsTransitive
  <2>. QED
    BY <1>2, <2>1, <2>2
<1>4. UNCHANGED <<table, settings>> /\ failures' \in 0..MaxFailures
  BY <1>1, FailCounts DEF GetFileFails
<1>5. CASE r.exec = None
  <2>1. PlanList(s) = ReadList(s)
    BY <1>5 DEF ReadList
  <2>. QED
    BY <1>2, <1>3, <1>4, <1>5, <2>1, ExecutionFailsStep
<1>6. CASE r.exec # None
  <2>1. PICK d, z : d = shared /\ z = Failed(s)
    OBVIOUS
  <2>2. z = [r EXCEPT !.phase = "failed", !.exec = None, !.next = 1, !.needed = File]
    BY <2>1 DEF Failed
  <2>3. z \in Scanning /\ ScanInv(z, d)
    BY <1>1, <2>1, <2>2, Restarts
  <2>4. shared' = d /\ scan' = [scan EXCEPT ![s] = z] /\ ListOK(d) /\ Grows(shared, d)
    BY <1>1, <1>2, <1>6, <2>1, GrowsSelf
  <2>. QED
    BY <1>4, <2>3, <2>4, ScanStep
<1>. QED
  BY <1>5, <1>6

LEMMA DynamicFilterPushdownStep ==
    ASSUME IInv, NEW s \in Scan, DynamicFilterPushdown(s)
    PROVE  IInv' /\ Grows(shared, shared')
<1>. DEFINE r == scan[s]
            P == PlanList(s)
<1>1. /\ TypeOK /\ ListOK(shared) /\ r \in Scanning /\ ScanInv(r, shared)
      /\ P = PlanOf(r, shared) /\ ListOK(P) /\ P.version = shared.version
      /\ failures \in 0..MaxFailures
  BY Before
<1>2. r.phase = "reading" /\ r.next = 1 /\ r.exec = None
  BY DEF DynamicFilterPushdown
<1>3. PICK new \in NewFilters :
        LET n == PushedDown(P, Unknown(P, new))
        IN  \E L \in IF report = "log" THEN Expanded(P) ELSE {P},
               m \in IF report = "log" THEN Expanded(n) ELSE {n} :
              PlanListBecomes(s, L, [r EXCEPT !.exec = m, !.needed = @ \cap Matching(new)])
  BY DEF DynamicFilterPushdown
<1>4. PICK n : n = PushedDown(P, Unknown(P, new))
  OBVIOUS
<1>5. PICK L \in IF report = "log" THEN Expanded(P) ELSE {P},
           m \in IF report = "log" THEN Expanded(n) ELSE {n} :
        PlanListBecomes(s, L, [r EXCEPT !.exec = m, !.needed = @ \cap Matching(new)])
  BY <1>3, <1>4
<1>6. new \in Filters
  BY <1>3 DEF NewFilters
<1>7. /\ ListOK(n) /\ n.version = shared.version
      /\ Matching(P.filters) \cap Matching(new) \subseteq Matching(n.filters)
  <2>1. P \in List
    BY <1>1 DEF ListOK
  <2>2. Unknown(P, new) \in Filters /\ Matching(new) \subseteq Matching(Unknown(P, new))
    BY <1>6, <2>1, UnknownOK
  <2>3. /\ ListOK(n) /\ n.version = P.version
        /\ Matching(P.filters) \cap Matching(Unknown(P, new)) \subseteq Matching(n.filters)
    BY <1>1, <1>4, <2>2, PushedDownOK
  <2>. QED
    BY <1>1, <2>2, <2>3
<1>8. ListOK(L) /\ Grows(P, L)
  BY <1>1, <1>5, ExpandedGrows, GrowsSelf
<1>9. ListOK(m) /\ Grows(n, m)
  BY <1>1, <1>5, <1>7, ExpandedGrows, GrowsSelf
<1>10. PICK q, d : q = AfterPlan(r, L) /\ d = CatalogAfterPlan(r, shared, L)
  OBVIOUS
<1>11. ListOK(d) /\ Grows(shared, d) /\ q \in Scanning /\ ScanInv(q, d) /\ PlanOf(q, d) = L
  BY <1>1, <1>8, <1>10, PlanStep
<1>12. /\ q.phase = r.phase /\ q.next = r.next /\ q.exec = r.exec /\ q.wanted = r.wanted
       /\ q.needed = r.needed /\ q.total = r.total /\ q.filtered = r.filtered
       /\ q.plan = IF r.plan = None THEN r.plan ELSE L
  BY <1>1, <1>10 DEF AfterPlan, Scanning
<1>13. PICK z : z = [phase |-> q.phase, plan |-> q.plan, exec |-> m, next |-> q.next,
                     wanted |-> q.wanted, needed |-> q.needed \cap Matching(new),
                     total |-> q.total, filtered |-> q.filtered]
  OBVIOUS
<1>14. z \in Scanning /\ ScanInv(z, d)
  <2>1. m.version = d.version
    BY <1>7, <1>9, <1>11 DEF Grows
  <2>2. Matching(PlanOf(q, d).filters) \cap Matching(new) \subseteq Matching(m.filters)
    BY <1>7, <1>8, <1>9, <1>11 DEF Grows
  <2>. QED
    BY <1>1, <1>2, <1>6, <1>9, <1>11, <1>12, <1>13, <2>1, <2>2, FilterExecution
<1>15. PICK y : y = [r EXCEPT !.exec = m, !.needed = @ \cap Matching(new)]
  OBVIOUS
<1>16. y = [phase |-> r.phase, plan |-> r.plan, exec |-> m, next |-> r.next,
            wanted |-> r.wanted, needed |-> r.needed \cap Matching(new),
            total |-> r.total, filtered |-> r.filtered]
  BY <1>1, <1>15 DEF Scanning
<1>17. z = IF r.plan = None THEN y ELSE [y EXCEPT !.plan = L]
  <2>1. CASE r.plan = None
    BY <1>12, <1>13, <1>16, <2>1
  <2>2. CASE r.plan # None
    <3>1. PICK x : x = [y EXCEPT !.plan = L]
      OBVIOUS
    <3>2. x = [phase |-> r.phase, plan |-> L, exec |-> m, next |-> r.next,
               wanted |-> r.wanted, needed |-> r.needed \cap Matching(new),
               total |-> r.total, filtered |-> r.filtered]
      BY <1>16, <3>1
    <3>. QED
      BY <1>12, <1>13, <2>2, <3>1, <3>2
  <2>. QED
    BY <2>1, <2>2
<1>18. shared' = d /\ scan' = [scan EXCEPT ![s] = z]
  BY <1>5, <1>10, <1>15, <1>17 DEF PlanListBecomes, CatalogAfterPlan
<1>19. UNCHANGED <<table, settings>> /\ failures' = failures
  BY DEF DynamicFilterPushdown
<1>. QED
  BY <1>1, <1>11, <1>14, <1>18, <1>19, ScanStep

LEMMA ComplexFilterPushdownStep ==
    ASSUME IInv, NEW s \in Scan, ComplexFilterPushdown(s)
    PROVE  IInv' /\ Grows(shared, shared')
<1>. DEFINE r == scan[s]
            P == PlanList(s)
<1>1. /\ TypeOK /\ ListOK(shared) /\ shared.filters = NoFilters
      /\ r \in Scanning /\ ScanInv(r, shared)
      /\ P = PlanOf(r, shared) /\ ListOK(P) /\ P.version = shared.version
      /\ failures \in 0..MaxFailures
  BY Before
<1>2. r.phase = "planning" /\ UNCHANGED <<table, settings>> /\ failures' = failures
  BY DEF ComplexFilterPushdown
<1>3. PICK new \in NewFilters :
        LET n == PushedDown(P, new)
        IN  \/ /\ report = "off"
               /\ scan' = [scan EXCEPT ![s] = Pushed(s, n, new)]
               /\ UNCHANGED shared
            \/ /\ report # "off"
               /\ \E L \in Expanded(P), m \in Expanded(n) :
                     /\ shared' = IF r.plan = None THEN L ELSE shared
                     /\ scan' = [scan EXCEPT ![s] =
                           IF report = "log" THEN Pushed(s, m, new)
                           ELSE [Pushed(s, m, new) EXCEPT
                                   !.total = TotalFiles(@, Len(L.resolved)),
                                   !.filtered = FilteredFiles(@, Len(m.resolved))]]
  BY DEF ComplexFilterPushdown
<1>4. new \in Filters
  BY <1>3 DEF NewFilters
<1>5. PICK n : n = PushedDown(P, new)
  OBVIOUS
<1>6. /\ ListOK(n) /\ n.version = shared.version
      /\ Matching(P.filters) \cap Matching(new) \subseteq Matching(n.filters)
  BY <1>1, <1>4, <1>5, PushedDownOK
<1>7. ASSUME NEW m
      PROVE  Pushed(s, m, new) =
               [phase |-> r.phase, plan |-> m, exec |-> r.exec, next |-> r.next,
                wanted |-> r.wanted \cap Matching(new), needed |-> r.needed,
                total |-> r.total, filtered |-> r.filtered]
  <2>1. PICK y : y = Pushed(s, m, new)
    OBVIOUS
  <2>2. y = [phase |-> r.phase, plan |-> m, exec |-> r.exec, next |-> r.next,
             wanted |-> r.wanted \cap Matching(new), needed |-> r.needed,
             total |-> r.total, filtered |-> r.filtered]
    BY <1>1, <2>1 DEF Pushed, Scanning
  <2>. QED
    BY <2>1, <2>2
<1>8. CASE report = "off"
  <2>1. PICK d, q : d = shared /\ q = Pushed(s, n, new)
    OBVIOUS
  <2>2. r.total \in Number \cup {None} /\ r.filtered \in Number \cup {None}
    BY <1>1, ScanFields
  <2>3. r.total # None /\ ~d.damaged => r.total = Cardinality(table[d.version].live)
    BY <1>1, <2>1 DEF ScanInv, Counted
  <2>4. q = [phase |-> r.phase, plan |-> n, exec |-> r.exec, next |-> r.next,
             wanted |-> r.wanted \cap Matching(new), needed |-> r.needed,
             total |-> r.total, filtered |-> r.filtered]
    BY <1>7, <2>1
  <2>5. q \in Scanning /\ ScanInv(q, d)
    BY <1>1, <1>2, <1>4, <1>6, <1>8, <2>1, <2>2, <2>3, <2>4, FilterPlan
  <2>6. scan' = [scan EXCEPT ![s] = q] /\ shared' = d /\ ListOK(d) /\ Grows(shared, d)
    BY <1>1, <1>3, <1>5, <1>8, <2>1, GrowsSelf
  <2>. QED
    BY <1>1, <1>2, <2>5, <2>6, ScanStep
<1>9. CASE report # "off"
  <2>1. PICK L \in Expanded(P), m \in Expanded(n) :
                     /\ shared' = IF r.plan = None THEN L ELSE shared
                     /\ scan' = [scan EXCEPT ![s] =
                           IF report = "log" THEN Pushed(s, m, new)
                           ELSE [Pushed(s, m, new) EXCEPT
                                   !.total = TotalFiles(@, Len(L.resolved)),
                                   !.filtered = FilteredFiles(@, Len(m.resolved))]]
    BY <1>3, <1>5, <1>9
  <2>2. ListOK(L) /\ Grows(P, L) /\ Through(L)
    BY <1>1, <2>1, ExpandedGrows
  <2>3. ListOK(m) /\ Grows(n, m)
    BY <1>1, <1>6, <2>1, ExpandedGrows
  <2>4. PICK a, d : a = AfterPlan(r, L) /\ d = CatalogAfterPlan(r, shared, L)
    OBVIOUS
  <2>5. ListOK(d) /\ Grows(shared, d)
    BY <1>1, <2>2, <2>4, PlanStep
  <2>6. shared' = d
    BY <2>1, <2>4 DEF CatalogAfterPlan
  <2>7. ScanInv(r, d)
    BY <1>1, <2>5, CatalogGrows
  <2>8. /\ m.version = d.version
        /\ Matching(PlanOf(r, d).filters) \cap Matching(new) \subseteq Matching(m.filters)
    <3>1. PlanOf(r, d).filters = P.filters
      BY <1>1, <2>5 DEF PlanOf, Grows
    <3>. QED
      BY <1>6, <2>3, <2>5, <3>1 DEF Grows
  <2>9. r.total \in Number \cup {None} /\ r.filtered \in Number \cup {None}
    BY <1>1, ScanFields
  <2>10. r.total # None /\ ~d.damaged => r.total = Cardinality(table[d.version].live)
    BY <2>7 DEF ScanInv, Counted
  <2>11. CASE report = "log"
    <3>1. PICK q : q = Pushed(s, m, new)
      OBVIOUS
    <3>2. q = [phase |-> r.phase, plan |-> m, exec |-> r.exec, next |-> r.next,
               wanted |-> r.wanted \cap Matching(new), needed |-> r.needed,
               total |-> r.total, filtered |-> r.filtered]
      BY <1>7, <3>1
    <3>3. q \in Scanning /\ ScanInv(q, d)
      BY <1>1, <1>2, <1>4, <2>3, <2>5, <2>7, <2>8, <2>9, <2>10, <2>11, <3>2, FilterPlan
    <3>4. scan' = [scan EXCEPT ![s] = q]
      BY <2>1, <2>11, <3>1
    <3>. QED
      BY <1>1, <1>2, <2>5, <2>6, <3>3, <3>4, ScanStep
  <2>12. CASE report # "log"
    <3>1. PICK total, filtered : /\ total = TotalFiles(r.total, Len(L.resolved))
                                 /\ filtered = FilteredFiles(r.filtered, Len(m.resolved))
      OBVIOUS
    <3>2. /\ Len(L.resolved) \in Number /\ Len(m.resolved) \in Number
          /\ Len(L.resolved) <= Cardinality(table[d.version].live)
      <4>1. L.version = d.version
        BY <1>1, <2>2, <2>5 DEF Grows
      <4>. QED
        BY <1>1, <2>2, <2>3, <4>1, LengthBound
    <3>3. total \in Number /\ filtered \in Number \cup {None}
      BY <2>9, <3>1, <3>2 DEF TotalFiles, FilteredFiles
    <3>4. ASSUME ~d.damaged PROVE total = Cardinality(table[d.version].live)
      <4>1. CASE r.total # None
        <5>1. /\ r.total = Cardinality(table[d.version].live) /\ r.total \in Nat
              /\ Len(L.resolved) \in Nat /\ Cardinality(File) \in Nat
          BY <2>9, <2>10, <3>2, <3>4, <4>1, FS_CardinalityType DEF Number
        <5>. QED
          BY <3>1, <3>2, <4>1, <5>1 DEF TotalFiles
      <4>2. CASE r.total = None
        <5>1. r.plan = None
          <6>1. report = "explain"
            BY <1>1, <1>9, <2>12 DEF TypeOK
          <6>. QED
            BY <1>1, <4>2, <6>1 DEF ScanInv, Counted
        <5>2. d = L /\ L.filters = NoFilters
          BY <1>1, <2>2, <2>4, <5>1 DEF CatalogAfterPlan, PlanOf, Grows
        <5>3. Len(L.resolved) = Cardinality(table[d.version].live)
          BY <1>1, <2>2, <3>4, <5>2, LengthBound
        <5>. QED
          BY <3>1, <4>2, <5>3 DEF TotalFiles
      <4>. QED
        BY <4>1, <4>2
    <3>5. total # None
      BY <3>3
    <3>6. PICK q : q = [Pushed(s, m, new) EXCEPT
                          !.total = TotalFiles(@, Len(L.resolved)),
                          !.filtered = FilteredFiles(@, Len(m.resolved))]
      OBVIOUS
    <3>7. q = [phase |-> r.phase, plan |-> m, exec |-> r.exec, next |-> r.next,
               wanted |-> r.wanted \cap Matching(new), needed |-> r.needed,
               total |-> total, filtered |-> filtered]
      <4>1. PICK y : y = Pushed(s, m, new)
        OBVIOUS
      <4>2. y = [phase |-> r.phase, plan |-> m, exec |-> r.exec, next |-> r.next,
                 wanted |-> r.wanted \cap Matching(new), needed |-> r.needed,
                 total |-> r.total, filtered |-> r.filtered]
        BY <1>7, <4>1
      <4>3. y.total = r.total /\ y.filtered = r.filtered
        BY <4>2
      <4>4. q = [y EXCEPT !.total = TotalFiles(y.total, Len(L.resolved)),
                          !.filtered = FilteredFiles(y.filtered, Len(m.resolved))]
        BY <3>6, <4>1, <4>2
      <4>5. q = [y EXCEPT !.total = total, !.filtered = filtered]
        BY <3>1, <4>3, <4>4
      <4>6. /\ y = [phase |-> y.phase, plan |-> y.plan, exec |-> y.exec, next |-> y.next,
                    wanted |-> y.wanted, needed |-> y.needed, total |-> y.total,
                    filtered |-> y.filtered]
            /\ y.phase = r.phase /\ y.plan = m /\ y.exec = r.exec /\ y.next = r.next
            /\ y.wanted = r.wanted \cap Matching(new) /\ y.needed = r.needed
        BY <4>2
      <4>7. q = [phase |-> y.phase, plan |-> y.plan, exec |-> y.exec, next |-> y.next,
                 wanted |-> y.wanted, needed |-> y.needed, total |-> total,
                 filtered |-> filtered]
        BY ONLY <4>5, <4>6
      <4>. QED
        BY <4>6, <4>7
    <3>8. q \in Scanning /\ ScanInv(q, d)
      BY <1>1, <1>2, <1>4, <2>3, <2>5, <2>7, <2>8, <3>3, <3>4, <3>5, <3>7, FilterPlan
    <3>9. scan' = [scan EXCEPT ![s] = q]
      BY <2>1, <2>12, <3>6
    <3>. QED
      BY <1>1, <1>2, <2>5, <2>6, <3>8, <3>9, ScanStep
  <2>. QED
    BY <2>11, <2>12
<1>. QED
  BY <1>8, <1>9

LEMMA GetFileStep ==
    ASSUME IInv, NEW s \in Scan, GetFile(s)
    PROVE  IInv' /\ Grows(shared, shared')
<1>. DEFINE r == scan[s]
            R == ReadList(s)
<1>1. /\ TypeOK /\ ListOK(shared) /\ r \in Scanning /\ ScanInv(r, shared)
      /\ R = ReadOf(r, shared) /\ ListOK(R) /\ failures \in 0..MaxFailures
  BY Before
<1>2. r.phase = "reading" /\ UNCHANGED <<table, settings>> /\ failures' = failures
  BY DEF GetFile
<1>3. PICK o \in Opened(R) :
          \E L \in IF r.next <= Len(o.resolved) THEN {o} ELSE Advanced(o) :
              ReadListBecomes(s, L,
                  IF r.next <= Len(L.resolved)
                  THEN [r EXCEPT !.next = @ + 1]
                  ELSE [r EXCEPT !.phase = "done"])
  BY DEF GetFile
<1>4. PICK L \in IF r.next <= Len(o.resolved) THEN {o} ELSE Advanced(o) :
              ReadListBecomes(s, L,
                  IF r.next <= Len(L.resolved)
                  THEN [r EXCEPT !.next = @ + 1]
                  ELSE [r EXCEPT !.phase = "done"])
  BY <1>3
<1>5. ListOK(o) /\ Grows(R, o) /\ o.ready
  BY <1>1, <1>3, OpenedGrows
<1>6. /\ ListOK(L) /\ Grows(o, L) /\ L.ready
      /\ r.next <= Len(o.resolved) \/ L.exhausted \/ Len(L.resolved) > Len(o.resolved)
      /\ r.next <= Len(o.resolved) => L = o
  BY <1>1, <1>4, <1>5, AdvancedGrows, GrowsSelf
<1>7. Grows(R, L)
  <2>1. R \in List /\ o \in List /\ L \in List
    BY <1>1, <1>5, <1>6 DEF ListOK
  <2>. QED
    BY <1>5, <1>6, <2>1, GrowsTransitive
<1>8. PICK q, d : q = AfterRead(r, L) /\ d = CatalogAfterRead(r, shared, L)
  OBVIOUS
<1>9. ListOK(d) /\ Grows(shared, d) /\ q \in Scanning /\ ScanInv(q, d) /\ ReadOf(q, d) = L
  BY <1>1, <1>6, <1>7, <1>8, ReadStep
<1>10. /\ q.phase = r.phase /\ q.next = r.next /\ q.wanted = r.wanted
       /\ q.needed = r.needed /\ q.total = r.total /\ q.filtered = r.filtered
       /\ q.exec = IF r.exec = None THEN r.exec ELSE L
       /\ q.plan = IF r.exec = None /\ r.plan # None THEN L ELSE r.plan
  BY <1>1, <1>8 DEF AfterRead, AfterPlan, Scanning
<1>11. ASSUME NEW rec \in Scanning, ReadListBecomes(s, L, rec),
              rec.plan = r.plan, rec.exec = r.exec,
              NEW z, z = [phase |-> rec.phase, plan |-> q.plan, exec |-> q.exec,
                          next |-> rec.next, wanted |-> rec.wanted, needed |-> rec.needed,
                          total |-> rec.total, filtered |-> rec.filtered]
       PROVE  shared' = d /\ scan' = [scan EXCEPT ![s] = z]
  <2>1. CASE r.exec # None
    <3>1. PICK y : y = [rec EXCEPT !.exec = L]
      OBVIOUS
    <3>2. y = [phase |-> rec.phase, plan |-> rec.plan, exec |-> L,
               next |-> rec.next, wanted |-> rec.wanted, needed |-> rec.needed,
               total |-> rec.total, filtered |-> rec.filtered]
      BY <1>11, <3>1 DEF Scanning
    <3>3. y = z
      BY <1>10, <1>11, <2>1, <3>2
    <3>. QED
      BY <1>8, <1>11, <2>1, <3>1, <3>3 DEF ReadListBecomes, CatalogAfterRead
  <2>2. CASE r.exec = None /\ r.plan # None
    <3>1. PICK y : y = [rec EXCEPT !.plan = L]
      OBVIOUS
    <3>2. y = [phase |-> rec.phase, plan |-> L, exec |-> rec.exec,
               next |-> rec.next, wanted |-> rec.wanted, needed |-> rec.needed,
               total |-> rec.total, filtered |-> rec.filtered]
      BY <1>11, <3>1 DEF Scanning
    <3>3. y = z
      BY <1>10, <1>11, <2>2, <3>2
    <3>. QED
      BY <1>8, <1>11, <2>2, <3>1, <3>3
      DEF ReadListBecomes, PlanListBecomes, CatalogAfterRead, CatalogAfterPlan
  <2>3. CASE r.exec = None /\ r.plan = None
    <3>1. rec = z
      BY <1>10, <1>11, <2>3, ScanFields
    <3>. QED
      BY <1>8, <1>11, <2>3, <3>1
      DEF ReadListBecomes, PlanListBecomes, CatalogAfterRead, CatalogAfterPlan
  <2>. QED
    BY <2>1, <2>2, <2>3
<1>12. /\ r.next \in Nat /\ Len(R.resolved) \in Nat /\ Len(o.resolved) \in Nat
       /\ Len(L.resolved) \in Nat /\ Len(L.resolved) <= Cardinality(File)
       /\ Cardinality(File) \in Nat /\ r.next - 1 <= Len(R.resolved)
       /\ Len(R.resolved) <= Len(o.resolved)
  <2>1. r.next - 1 <= Len(R.resolved)
    BY <1>1 DEF ScanInv, Progress
  <2>2. /\ Len(R.resolved) \in Nat /\ Len(o.resolved) \in Nat /\ Len(L.resolved) \in Nat
        /\ Len(L.resolved) <= Cardinality(File) /\ Cardinality(File) \in Nat
    BY <1>1, <1>5, <1>6, LengthBound, FS_CardinalityType DEF Number
  <2>3. r.next \in Nat
    BY <1>1, ScanFields
  <2>4. Len(R.resolved) <= Len(o.resolved)
    BY <1>5 DEF Grows
  <2>. QED
    BY <2>1, <2>2, <2>3, <2>4
<1>13. CASE r.next <= Len(L.resolved)
  <2>1. PICK rec : rec = [r EXCEPT !.next = r.next + 1]
    OBVIOUS
  <2>2. rec = [phase |-> r.phase, plan |-> r.plan, exec |-> r.exec, next |-> r.next + 1,
               wanted |-> r.wanted, needed |-> r.needed, total |-> r.total,
               filtered |-> r.filtered]
    BY <1>1, <2>1 DEF Scanning
  <2>3. rec \in Scanning
    BY <1>1, <1>12, <1>13, <2>2, ScanFields DEF Scanning
  <2>4. ReadListBecomes(s, L, rec)
    BY <1>4, <1>13, <2>1
  <2>5. PICK z : z = [q EXCEPT !.next = q.next + 1]
    OBVIOUS
  <2>6. z \in Scanning /\ ScanInv(z, d)
    BY <1>1, <1>2, <1>9, <1>10, <1>13, <2>5, NextFile
  <2>7. z = [phase |-> q.phase, plan |-> q.plan, exec |-> q.exec, next |-> q.next + 1,
             wanted |-> q.wanted, needed |-> q.needed, total |-> q.total,
             filtered |-> q.filtered]
    BY <1>9, <2>5 DEF Scanning
  <2>8. /\ rec.phase = q.phase /\ rec.next = q.next + 1 /\ rec.wanted = q.wanted
        /\ rec.needed = q.needed /\ rec.total = q.total /\ rec.filtered = q.filtered
        /\ rec.plan = r.plan /\ rec.exec = r.exec
    BY <1>10, <2>2
  <2>9. shared' = d /\ scan' = [scan EXCEPT ![s] = z]
    BY <1>11, <2>3, <2>4, <2>7, <2>8
  <2>. QED
    BY <1>1, <1>2, <1>9, <2>6, <2>9, ScanStep
<1>14. CASE ~(r.next <= Len(L.resolved))
  <2>1. PICK rec : rec = [r EXCEPT !.phase = "done"]
    OBVIOUS
  <2>2. rec = [phase |-> "done", plan |-> r.plan, exec |-> r.exec, next |-> r.next,
               wanted |-> r.wanted, needed |-> r.needed, total |-> r.total,
               filtered |-> r.filtered]
    BY <1>1, <2>1 DEF Scanning
  <2>3. rec \in Scanning
    BY <1>1, <2>2, ScanFields DEF Scanning
  <2>4. ReadListBecomes(s, L, rec)
    BY <1>4, <1>14, <2>1
  <2>5. Through(L)
    BY <1>6, <1>12, <1>14 DEF Through
  <2>6. PICK z : z = [q EXCEPT !.phase = "done"]
    OBVIOUS
  <2>7. z \in Scanning /\ ScanInv(z, d)
    <3>1. q.next > Len(ReadOf(q, d).resolved) /\ q.phase = "reading"
      BY <1>2, <1>9, <1>10, <1>12, <1>14
    <3>. QED
      BY <1>1, <1>9, <2>5, <2>6, <3>1, NoMoreFiles
  <2>8. z = [phase |-> "done", plan |-> q.plan, exec |-> q.exec, next |-> q.next,
             wanted |-> q.wanted, needed |-> q.needed, total |-> q.total,
             filtered |-> q.filtered]
    BY <1>9, <2>6 DEF Scanning
  <2>9. /\ rec.phase = "done" /\ rec.next = q.next /\ rec.wanted = q.wanted
        /\ rec.needed = q.needed /\ rec.total = q.total /\ rec.filtered = q.filtered
        /\ rec.plan = r.plan /\ rec.exec = r.exec
    BY <1>10, <2>2
  <2>10. shared' = d /\ scan' = [scan EXCEPT ![s] = z]
    BY <1>11, <2>3, <2>4, <2>8, <2>9
  <2>. QED
    BY <1>1, <1>2, <1>9, <2>7, <2>10, ScanStep
<1>. QED
  BY <1>13, <1>14

LEMMA CommitStep ==
    ASSUME IInv, Commit
    PROVE  IInv' /\ Grows(shared, shared')
<1>1. /\ TypeOK /\ ListOK(shared) /\ shared.filters = NoFilters /\ scan \in [Scan -> Scanning]
      /\ \A s \in Scan : ScanInv(scan[s], shared)
  BY DEF IInv, Catalog, TypeOK
<1>2. /\ Len(table) \in Nat /\ Len(table) \in 1..MaxVersion /\ Len(table) < MaxVersion
      /\ table \in Seq(Content) /\ UNCHANGED <<settings, shared, scan, failures>>
  BY <1>1 DEF TypeOK, Commit
<1>3. PICK x \in Content : table' = Append(table, x)
  <2>1. PICK last : last = table[Len(table)]
    OBVIOUS
  <2>2. last \in Content
    BY <1>2, <2>1
  <2>3. /\ last.live \subseteq File /\ last.deleted \subseteq last.live
        /\ last = [live |-> last.live, deleted |-> last.deleted]
    <3>1. PICK l \in SUBSET File : last \in [live : {l}, deleted : SUBSET l]
      BY <2>2 DEF Content
    <3>. QED
      BY <3>1
  <2>4. PICK f \in last.live :
          \/ table' = Append(table, [live |-> last.live \ {f}, deleted |-> last.deleted \ {f}])
          \/ table' = Append(table, [last EXCEPT !.deleted = @ \cup {f}])
    BY <2>1 DEF Commit
  <2>5. [live |-> last.live \ {f}, deleted |-> last.deleted \ {f}] \in Content
    <3>1. PICK l \in SUBSET File, e \in SUBSET File : l = last.live \ {f} /\ e = last.deleted \ {f}
      BY <2>3
    <3>2. e \subseteq l
      BY <2>3, <3>1
    <3>. QED
      BY <3>1, <3>2, ContentFields
  <2>6. [last EXCEPT !.deleted = @ \cup {f}] \in Content
    <3>1. PICK l \in SUBSET File, e \in SUBSET File : l = last.live /\ e = last.deleted \cup {f}
      BY <2>3, <2>4
    <3>2. e \subseteq l
      BY <2>3, <2>4, <3>1
    <3>3. [last EXCEPT !.deleted = @ \cup {f}] = [live |-> l, deleted |-> e]
      <4>1. last \in [live : SUBSET File, deleted : SUBSET File]
        BY <2>3
      <4>2. PICK y : y = [last EXCEPT !.deleted = e]
        OBVIOUS
      <4>3. y = [live |-> last.live, deleted |-> e]
        BY <4>1, <4>2
      <4>4. [last EXCEPT !.deleted = @ \cup {f}] = [last EXCEPT !.deleted = e]
        BY <3>1, <4>1
      <4>. QED
        BY <3>1, <4>2, <4>3, <4>4
    <3>. QED
      BY <3>2, <3>3, ContentFields
  <2>. QED
    BY <2>4, <2>5, <2>6
<1>4. /\ table' \in Seq(Content) /\ Len(table') = Len(table) + 1
      /\ \A v \in 1..Len(table) : table'[v] = table[v]
  BY <1>2, <1>3
<1>5. VersionsStay
  BY <1>2, <1>4 DEF VersionsStay
<1>6. TypeOK'
  BY <1>1, <1>2, <1>4 DEF TypeOK, settings
<1>7. Catalog'
  <2>1. PICK c : c = shared
    OBVIOUS
  <2>2. ListOK(shared)'
    BY <1>1, <1>2, <1>5, <2>1, CatalogCarries
  <2>. QED
    BY <1>1, <1>2, <2>2 DEF Catalog
<1>8. ASSUME NEW s \in Scan PROVE ScanInv(scan[s], shared)'
  <2>1. PICK c, r : c = shared /\ r = scan[s]
    OBVIOUS
  <2>2. ScanInv(r, c) /\ ListOK(c) /\ shared' = c /\ scan'[s] = r
    BY <1>1, <1>2, <2>1
  <2>. QED
    BY <1>1, <1>2, <1>5, <2>2, ScanCarries
<1>9. Grows(shared, shared')
  BY <1>1, <1>2, GrowsSelf
<1>. QED
  BY <1>6, <1>7, <1>8, <1>9 DEF IInv

LEMMA InitInv ==
    ASSUME Init
    PROVE  IInv
<1>1. /\ table = <<[live |-> File, deleted |-> Deleted]>> /\ partitioned \in BOOLEAN
      /\ report \in {"off", "explain", "log"} /\ shared = NewList(1, NoFilters)
      /\ scan = [s \in Scan |-> Unbound] /\ failures = 0
  BY DEF Init
<1>2. [live |-> File, deleted |-> Deleted] \in Content
  <2>1. File \in SUBSET File /\ Deleted \in SUBSET File
    OBVIOUS
  <2>. QED
    BY <2>1, ContentFields
<1>3. table \in Seq(Content) /\ Len(table) = 1 /\ 1 \in 1..MaxVersion
  BY <1>1, <1>2
<1>4. NoFilters \in Filters
  BY DEF NoFilters, Filters
<1>5. NewList(1, NoFilters) \in List /\ NewList(1, NoFilters).filters = NoFilters
  <2>1. <<>> \in Seq(Entry)
    OBVIOUS
  <2>. QED
    BY <1>3, <1>4, <2>1 DEF NewList, List
<1>6. Unbound \in Scanning
  <2>1. Cardinality(File) \in Nat
    BY FS_CardinalityType
  <2>. QED
    BY <2>1 DEF Unbound, Scanning
<1>7. TypeOK
  BY <1>1, <1>3, <1>5, <1>6 DEF TypeOK
<1>8. ListOK(shared) /\ shared.filters = NoFilters
  BY <1>1, <1>3, <1>4, <1>5, <1>7, NewListOK
<1>9. ASSUME NEW s \in Scan PROVE ScanInv(scan[s], shared)
  BY <1>1, <1>7, <1>8, FreshScan
<1>. QED
  BY <1>7, <1>8, <1>9 DEF IInv, Catalog

LEMMA NextInv ==
    ASSUME IInv, Next
    PROVE  IInv' /\ Grows(shared, shared')
  BY CommitStep, CreateFileListStep, GetCardinalityStep, GetCardinalityFailsStep,
     ComplexFilterPushdownStep, ReportFilterPushdownFailsStep, ExecuteStep,
     DynamicFilterPushdownStep, DynamicFilterPushdownFailsStep, GetFileStep, GetFileFailsStep
  DEF Next

LEMMA StutterInv ==
    ASSUME IInv, UNCHANGED vars
    PROVE  IInv' /\ Grows(shared, shared')
<1>1. /\ table' = table /\ settings' = settings /\ partitioned' = partitioned /\ report' = report
      /\ shared' = shared /\ scan' = scan /\ failures' = failures
  BY DEF vars, settings
<1>2. /\ TypeOK /\ ListOK(shared) /\ shared.filters = NoFilters
      /\ \A s \in Scan : ScanInv(scan[s], shared)
  BY DEF IInv, Catalog
<1>3. VersionsStay
  BY <1>1, <1>2 DEF VersionsStay, TypeOK
<1>4. TypeOK'
  BY <1>1, <1>2 DEF TypeOK
<1>5. PICK c : c = shared
  OBVIOUS
<1>6. Catalog'
  <2>1. ListOK(shared)'
    BY <1>1, <1>2, <1>3, <1>5, CatalogCarries
  <2>. QED
    BY <1>1, <1>2, <2>1 DEF Catalog
<1>7. ASSUME NEW s \in Scan PROVE ScanInv(scan[s], shared)'
  <2>1. PICK r : r = scan[s]
    OBVIOUS
  <2>2. ScanInv(r, c) /\ ListOK(c) /\ shared' = c /\ scan'[s] = r
    BY <1>1, <1>2, <1>5, <2>1
  <2>. QED
    BY <1>1, <1>2, <1>3, <2>2, ScanCarries
<1>. QED
  BY <1>1, <1>2, <1>4, <1>6, <1>7, GrowsSelf DEF IInv

\* What ties the lists of every scan to the catalog's and to the table is kept by every
\* step.
THEOREM Inductive == Spec => []IInv
<1>1. Init => IInv
  BY InitInv
<1>2. IInv /\ [Next]_vars => IInv'
  BY NextInv, StutterInv
<1>. QED
  BY <1>1, <1>2, PTL DEF Spec

----------------------------------------------------------------------------
(* What the runs check, for every value of the constants.                  *)

\* Every variable has the type its comment says: a scan never gets past the last file
\* there can be, and no count of files is larger than the number of files.
THEOREM TypeCorrect == Spec => []TypeOK
<1>1. IInv => TypeOK
  BY DEF IInv
<1>. QED
  BY <1>1, Inductive, PTL

\* A scan whose list was not hit by a failure halfway reads the files of its version, each
\* once and with the right deletion vector and partition values, and all that it needs.
THEOREM ScansRead == Spec => []ScansAreExact
<1>1. IInv => ScansAreExact
  <2>. SUFFICES ASSUME IInv, NEW s \in Scan, scan[s].phase \in {"reading", "done"},
                       ~ReadList(s).damaged
                PROVE  ReadsTheTable(s)
    BY DEF ScansAreExact
  <2>. DEFINE r == scan[s]
              R == ReadList(s)
              k == scan[s].next - 1
              got == Got(s)
              v == shared.version
  <2>1. /\ TypeOK /\ ListOK(shared) /\ r \in Scanning /\ ScanInv(r, shared)
        /\ R = ReadOf(r, shared) /\ ListOK(R)
    BY Before
  <2>2. R.version = v
    BY <2>1, ListsOK
  <2>3. R.resolved \in Seq(Entry) /\ Len(R.resolved) \in Nat /\ r.next \in 1..Cardinality(File) + 1
    BY <2>1, ListFields, ScanFields DEF ListOK
  <2>4. Cardinality(File) \in Nat
    BY FS_CardinalityType
  <2>5. k \in Nat /\ k <= Len(R.resolved)
    BY <2>1, <2>3, <2>4 DEF ScanInv, Progress
  <2>6. Got(s) = SubSeq(R.resolved, 1, k)
    BY DEF Got
  <2>7. DOMAIN Got(s) = 1..k /\ \A i \in 1..k : Got(s)[i] = R.resolved[i] /\ i \in 1..Len(R.resolved)
    <3>. HIDE DEF k, R
    <3>. QED
      BY <2>3, <2>5, <2>6
  <2>. HIDE DEF got, k
  <2>8. \A i \in DOMAIN got :
          /\ got[i].file \in table[v].live
          /\ got[i] = Truth(v, got[i].file)
          /\ \A j \in DOMAIN got : got[i].file = got[j].file => i = j
    <3>. SUFFICES ASSUME NEW i \in 1..k
                  PROVE  /\ got[i].file \in table[v].live
                         /\ got[i] = Truth(v, got[i].file)
                         /\ \A j \in 1..k : got[i].file = got[j].file => i = j
      BY <2>7 DEF got
    <3>1. got[i] = R.resolved[i] /\ i \in 1..Len(R.resolved)
      BY <2>7 DEF got
    <3>2. \A j \in 1..k : got[j] = R.resolved[j] /\ j \in 1..Len(R.resolved)
      BY <2>7 DEF got
    <3>3. /\ R.resolved[i].file \in table[v].live
          /\ R.resolved[i] = Truth(v, R.resolved[i].file)
          /\ \A j \in 1..Len(R.resolved) : R.resolved[i].file = R.resolved[j].file => i = j
      BY <2>1, <2>2, <3>1 DEF ListOK
    <3>. QED
      BY <3>1, <3>2, <3>3
  <2>9. ASSUME r.phase = "done"
        PROVE  table[v].live \cap r.needed \subseteq {e.file : e \in Elements(got)}
    <3>1. Through(R) /\ k = Len(R.resolved) /\ r.needed \subseteq Matching(R.filters)
      BY <2>1, <2>3, <2>9 DEF ScanInv, Progress, k
    <3>2. R.ready /\ R.pending = {}
      BY <2>1, <3>1 DEF Through, ListOK
    <3>3. ASSUME NEW f \in table[v].live, f \in r.needed
          PROVE  f \in {e.file : e \in Elements(got)}
      <4>1. PICK i \in 1..Len(R.resolved) : R.resolved[i].file = f
        BY <2>1, <2>2, <3>1, <3>2, <3>3 DEF ListOK
      <4>2. i \in DOMAIN got /\ got[i].file = f
        BY <2>7, <3>1, <4>1 DEF got
      <4>3. got[i] \in Elements(got)
        BY <4>2 DEF Elements
      <4>. QED
        BY <4>2, <4>3
    <3>. QED
      BY <3>3
  <2>. QED
    BY <2>8, <2>9 DEF ReadsTheTable, got
<1>. QED
  BY <1>1, Inductive, PTL

\* The count of files before filter pushdown that EXPLAIN shows is that of the table, in
\* whatever order scans fill the catalog's list and filters are pushed into the plan.
THEOREM TotalsCountTheTable == Spec => []TotalIsBeforeFilters
<1>1. IInv => TotalIsBeforeFilters
  BY DEF IInv, ScanInv, Counted, TotalIsBeforeFilters
<1>. QED
  BY <1>1, Inductive, PTL

LEMMA PrefixStays ==
    ASSUME NEW S, NEW a \in Seq(S), NEW b \in Seq(S), Len(a) <= Len(b),
           \A i \in 1..Len(a) : b[i] = a[i]
    PROVE  SubSeq(b, 1, Len(a)) = a
<1>1. Len(a) \in Nat /\ Len(b) \in Nat
  OBVIOUS
<1>2. PICK c : c = SubSeq(b, 1, Len(a))
  OBVIOUS
<1>3. c \in Seq(S) /\ Len(c) = Len(a)
  BY <1>1, <1>2
<1>4. \A i \in 1..Len(a) : c[i] = a[i]
  BY <1>1, <1>2
<1>. QED
  BY <1>2, <1>3, <1>4

\* Whatever a scan does with the catalog's list, also when it fails, the files it has keep
\* their places and metadata, and after its end it does not change.
THEOREM CatalogOnlyGrows == Spec => LogicallyConst
<1>1. IInv /\ [Next]_vars =>
        [/\ shared'.version = shared.version /\ shared'.filters = shared.filters
         /\ Len(shared'.resolved) >= Len(shared.resolved)
         /\ SubSeq(shared'.resolved, 1, Len(shared.resolved)) = shared.resolved
         /\ shared.exhausted => shared' = shared]_vars
  <2>. SUFFICES ASSUME IInv, [Next]_vars
                PROVE  /\ shared'.version = shared.version /\ shared'.filters = shared.filters
                       /\ Len(shared'.resolved) >= Len(shared.resolved)
                       /\ SubSeq(shared'.resolved, 1, Len(shared.resolved)) = shared.resolved
                       /\ shared.exhausted => shared' = shared
    OBVIOUS
  <2>1. IInv' /\ Grows(shared, shared')
    BY NextInv, StutterInv
  <2>2. shared \in List /\ shared' \in List
    BY <2>1 DEF IInv, TypeOK
  <2>3. PICK a \in Seq(Entry), b \in Seq(Entry) : a = shared.resolved /\ b = shared'.resolved
    BY <2>2, ListFields
  <2>4. Len(a) <= Len(b) /\ \A i \in 1..Len(a) : b[i] = a[i]
    BY <2>1, <2>3 DEF Grows
  <2>5. SubSeq(b, 1, Len(a)) = a /\ Len(b) >= Len(a)
    BY <2>4, PrefixStays
  <2>. QED
    BY <2>1, <2>3, <2>5 DEF Grows
<1>. QED
  BY <1>1, Inductive, PTL DEF Spec, LogicallyConst
=============================================================================
