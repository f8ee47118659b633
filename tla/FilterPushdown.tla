--------------------------- MODULE FilterPushdown ---------------------------
(***************************************************************************)
(* Which files a scan with filters leaves out.  Two parts of the extension  *)
(* decide it together: an INSERT records column statistics of every file it *)
(* wrote (AddWrittenFiles, ParseColumnStats, WriteMetaData), and a scan      *)
(* translates DuckDB's filters into a predicate of the kernel               *)
(* (PredicateVisitor), which the kernel holds against the statistics.  The   *)
(* scan applies the filters to the rows it reads, so a file that is kept      *)
(* needlessly costs time; a file that is left out wrongly loses rows.        *)
(*                                                                         *)
(* A row has a column x, a struct column s with one field s.a, and a list     *)
(* column m; a path is "x", "s", "s.a" or "m.element".  Values are numbers    *)
(* and NULL.  NaN is not a value here: the copy's bounds are those of ordered *)
(* values.  The log keeps bounds of timestamps in milliseconds, rounded down, *)
(* so a value can lie above its file's recorded maximum: x is a column of an  *)
(* exact type, or a timestamp of a finer unit.                              *)
(***************************************************************************)
EXTENDS Naturals, Sequences, FiniteSets, FiniteSetsExt

CONSTANTS
  Value,        \* the values of x: numbers; s.a has one of them
  Millisecond,  \* the units of a timestamp in a millisecond
  MaxBatch      \* bound: the files one INSERT writes

ASSUME ValueAssumption == Value \subseteq Nat \ {0} /\ Value # {} /\ IsFiniteSet(Value)
ASSUME MillisecondAssumption == Millisecond \in Nat \ {0}
ASSUME BatchAssumption == MaxBatch \in Nat

VARIABLES
  grain,        \* what the log keeps bounds of x in: 1, or a millisecond
  outstanding,  \* the files the INSERT wrote, with what the copy reported
  added         \* the files in the log, with their recorded statistics

vars == <<grain, outstanding, added>>

NULL == 0
Row == [x : Value \cup {NULL}, a : {Min(Value), NULL}]
Path == {"x", "s.a", "m.element"}
At(row, path) ==
  CASE path = "x" -> row.x [] path = "s.a" -> row.a [] OTHER -> NULL
Present(rows, path) == {At(r, path) : r \in rows} \ {NULL}

-----------------------------------------------------------------------------
(* Statistics.  What the copy reports of a file, per path: bounds when the    *)
(* column has a value, and the number of nulls (external).                   *)

Reported(rows, path) ==
  LET values == Present(rows, path)
  IN  [bounded |-> values # {},
       min |-> IF values = {} THEN 0 ELSE Min(values),
       max |-> IF values = {} THEN 0 ELSE Max(values),
       nulls |-> Cardinality({r \in rows : At(r, path) = NULL}),
       counted |-> TRUE]

NoStatistics == [bounded |-> FALSE, min |-> 0, max |-> 0, nulls |-> 0, counted |-> FALSE]

\* The sets of paths the copy can have reported on.
ReportedPaths == {{}, {"x"}, {"s.a"}, Path}

(* The log nests struct fields and nothing else: a path through a list is not *)
(* recordable.                                                              *)
StatsPathIsRecordable(path) == path # "m.element"

(* AddWrittenFiles: the recordable paths of those the copy reported on.       *)
ColumnStats(rows, paths) ==
  [p \in {q \in paths : StatsPathIsRecordable(q)} |-> Reported(rows, p)]

\* Mutant: the first file's statistics stand for the batch.
CreateStatsValueOfFirst(file, first) == first.stats

(* WriteMetaData: one buffer for the whole batch, of the type of the first     *)
(* file's statistics.  A path the first file does not have is not recorded   *)
(* for the others, and a path only it has is null in theirs.                  *)
CreateStatsValue(file, first) ==
  [p \in DOMAIN first.stats |->
     IF p \in DOMAIN file.stats THEN file.stats[p] ELSE NoStatistics]

(* The struct of the one does not cast to that of the other: they name no      *)
(* path in common.                                                          *)
Mismatch(file, first) ==
  /\ DOMAIN file.stats # {} /\ DOMAIN first.stats # {}
  /\ DOMAIN file.stats \cap DOMAIN first.stats = {}

(* What the kernel's log writer leaves of a bound (external).                 *)
Grain(path) == IF path = "x" THEN grain ELSE 1
Floor(v, path) == v - (v % Grain(path))
Logged(stats) ==
  [p \in DOMAIN stats |->
     [stats[p] EXCEPT !.min = Floor(@, p), !.max = Floor(@, p)]]

(* The copy reports a file it wrote.                                        *)
AddWrittenFile(rows, paths) ==
  /\ added = {}
  /\ Len(outstanding) < MaxBatch
  /\ outstanding' = Append(outstanding, [rows |-> rows, stats |-> ColumnStats(rows, paths)])
  /\ UNCHANGED <<grain, added>>

(* The commit records the files; one that does not fit into the buffer throws, *)
(* and the transaction ends with nothing recorded.                          *)
WriteMetaData ==
  /\ outstanding # <<>> /\ added = {}
  /\ added' = IF \E i \in DOMAIN outstanding : Mismatch(outstanding[i], outstanding[1]) THEN {}
              ELSE {[rows |-> outstanding[i].rows,
                     stats |-> Logged(CreateStatsValue(outstanding[i], outstanding[1]))] :
                      i \in DOMAIN outstanding}
  /\ outstanding' = <<>>
  /\ UNCHANGED grain

Init == grain \in {1, Millisecond} /\ outstanding = <<>> /\ added = {}

Next ==
  \/ \E rows \in SUBSET Row, paths \in ReportedPaths :
       Cardinality(rows) \in 1 .. 2 /\ AddWrittenFile(rows, paths)
  \/ WriteMetaData

Spec == Init /\ [][Next]_vars

-----------------------------------------------------------------------------
(* Filters.  A simple filter compares its subject with a constant, tests it   *)
(* for NULL, or is something else; `typed` says that the constant's type is   *)
(* one the visitor hands to the kernel, `left` that the constant is on the    *)
(* left.  A filter of a column is a simple filter, a conjunction, a           *)
(* disjunction or an optional filter.                                       *)

Comparison == {"lt", "le", "gt", "ge", "eq", "ne", "distinct"}

Compare(op, subject, constant, typed, left) ==
  [test |-> op, subject |-> subject, constant |-> constant, typed |-> typed, left |-> left]
Test(test, subject) ==
  [test |-> test, subject |-> subject, constant |-> 1, typed |-> TRUE, left |-> FALSE]

Simple(subject) ==
  {Compare(op, subject, c, typed, left) :
     op \in Comparison, c \in Value, typed \in BOOLEAN, left \in BOOLEAN}
  \cup {Test(t, subject) : t \in {"is_null", "is_not_null", "other"}}

(* The filters that stand for each kind of outcome of the visitor.           *)
Typical(subject) ==
  {Compare("gt", subject, c, TRUE, FALSE) : c \in Value}
  \cup {Compare("le", subject, Min(Value), FALSE, FALSE),
        Compare("distinct", subject, Min(Value), TRUE, FALSE),
        Test("is_null", subject), Test("is_not_null", subject)}

Junction(junction, filters) == [junction |-> junction, filters |-> filters]

FiltersOnX ==
  {Junction("none", <<f>>) : f \in Simple("x")}
  \cup {Junction("optional", <<f>>) : f \in Simple("x")}
  \cup {Junction("and", <<f, g>>) : f \in Simple("x"), g \in Typical("x")}
  \cup {Junction("and", <<g, f>>) : f \in Simple("x"), g \in Typical("x")}
  \cup {Junction("or", <<f, g>>) : f \in Typical("x"), g \in Typical("x")}

FiltersOnS == {Junction("none", <<f>>) : f \in Simple("s.a") \cup Simple("s")}

(* The filters of a scan, in the order the visitor meets the columns.  A      *)
(* comparison of the whole struct with a struct holds for some rows and not   *)
(* for others, whatever its field is.                                       *)
Filters ==
  {<<f>> : f \in FiltersOnX \cup FiltersOnS}
  \cup {<<f, g>> : f \in {Junction("none", <<h>>) : h \in Typical("x")},
                   g \in {Junction("none", <<h>>) : h \in Typical("s.a") \cup Typical("s")}}
  \cup {<<g, f>> : f \in {Junction("none", <<h>>) : h \in Typical("x")},
                   g \in {Junction("none", <<h>>) : h \in Typical("s.a") \cup Typical("s")}}

Holds(op, v, c) ==
  CASE op = "lt" -> v # NULL /\ v < c
    [] op = "le" -> v # NULL /\ v <= c
    [] op = "gt" -> v # NULL /\ v > c
    [] op = "ge" -> v # NULL /\ v >= c
    [] op = "eq" -> v # NULL /\ v = c
    [] op = "ne" -> v # NULL /\ v # c
    [] op = "distinct" -> v # c
    [] op = "is_null" -> v = NULL
    [] op = "is_not_null" -> v # NULL
    [] OTHER -> TRUE

Flip(op) ==
  CASE op = "lt" -> "gt" [] op = "le" -> "ge" [] op = "gt" -> "lt" [] op = "ge" -> "le"
    [] OTHER -> op

(* Can the row pass the filter?  With the constant on the left it is the      *)
(* constant that is compared with the value.                                *)
Passes(row, f) ==
  \/ f.subject = "s"
  \/ IF f.left /\ f.test \in Comparison /\ At(row, f.subject) # NULL
       THEN Holds(f.test, f.constant, At(row, f.subject))
       ELSE Holds(f.test, At(row, f.subject), f.constant)

Matches(row, filters) ==
  \A i \in DOMAIN filters :
    LET j == filters[i]
    IN  IF j.junction = "or" THEN \E k \in DOMAIN j.filters : Passes(row, j.filters[k])
        ELSE \A k \in DOMAIN j.filters : Passes(row, j.filters[k])

-----------------------------------------------------------------------------
(* PredicateVisitor.  A visit returns what the kernel knows the predicate by: *)
(* a conjunction of tests; ~0 for what is unsupported, which the kernel drops *)
(* from a conjunction; or 0, which ends the conjunction it is met in.         *)

Nothing == [is |-> "dropped", tests |-> {}]   \* ~0
Ends == [is |-> "ends", tests |-> {}]         \* 0
Predicate(tests) == [is |-> "predicate", tests |-> tests]

(* A constant of an unsupported type makes the kernel refuse the comparison. *)
VisitConstantFilter(path, op, constant, typed) ==
  IF op = "distinct" THEN Nothing
  ELSE IF ~typed THEN Ends
  ELSE Predicate({[test |-> op, path |-> path, constant |-> constant]})

(* ResolveFilterColumnPath: a bare reference to a nested column is skipped.   *)
Resolves(f) == f.subject # "s"

\* Mutant: the constant's side is not looked at.
VisitSimpleUnflipped(f) ==
  CASE f.test \in Comparison ->
         IF ~Resolves(f) THEN Nothing
         ELSE VisitConstantFilter(f.subject, f.test, f.constant, f.typed)
    [] OTHER -> Nothing

VisitSimple(f) ==
  IF ~Resolves(f) THEN Nothing
  ELSE CASE f.test \in Comparison ->
              VisitConstantFilter(f.subject, IF f.left THEN Flip(f.test) ELSE f.test,
                                  f.constant, f.typed)
         [] f.test \in {"is_null", "is_not_null"} ->
              Predicate({[test |-> f.test, path |-> f.subject, constant |-> 1]})
         [] OTHER -> Nothing

(* visit_predicate_and over what the iterator yields: up to the first 0.      *)
And(visited) ==
  LET met == {i \in DOMAIN visited : \A k \in 1 .. i : visited[k].is # "ends"}
  IN  Predicate(UNION {visited[i].tests : i \in met})

VisitFilterExpression(j) ==
  CASE j.junction \in {"none", "optional"} -> VisitSimple(j.filters[1])
    [] j.junction = "and" -> And([k \in DOMAIN j.filters |-> VisitSimple(j.filters[k])])
    [] OTHER -> Nothing

VisitPredicate(filters) ==
  And([i \in DOMAIN filters |-> VisitFilterExpression(filters[i])]).tests

(* The kernel leaves a file out when its statistics show that a test of the   *)
(* conjunction holds for no row (external).  It takes a recorded maximum for   *)
(* the last value that rounds down to it, which is what lets the extension    *)
(* hand it constants of a finer unit than the log's.                         *)
Highest(s, path) == s.max + (Grain(path) - 1)
Refutes(t, s, count) ==
  \/ s.bounded /\
       CASE t.test = "lt" -> s.min >= t.constant
         [] t.test = "le" -> s.min > t.constant
         [] t.test = "gt" -> Highest(s, t.path) <= t.constant
         [] t.test = "ge" -> Highest(s, t.path) < t.constant
         [] t.test = "eq" -> t.constant < s.min \/ t.constant > Highest(s, t.path)
         [] t.test = "ne" -> s.min = t.constant /\ Highest(s, t.path) = t.constant
         [] OTHER -> FALSE
  \/ s.counted /\
       CASE t.test = "is_null" -> s.nulls = 0
         [] t.test = "is_not_null" -> s.nulls = count
         [] OTHER -> FALSE

LeavesOut(tests, f) ==
  \E t \in tests :
    t.path \in DOMAIN f.stats /\ Refutes(t, f.stats[t.path], Cardinality(f.rows))

\* The scans: their filters, and what the kernel is handed for them.
Scans == {[filters |-> filters, tests |-> VisitPredicate(filters)] : filters \in Filters}

-----------------------------------------------------------------------------
(* Properties.                                                              *)

(* What the log records of a file is true of that file, however the files of   *)
(* one commit differ in what the copy reported (WriteMetaData): no value is    *)
(* below the minimum, none is past the maximum by as much as a millisecond,   *)
(* both are as close as that to a value of the file, and nulls are counted.    *)
(* A timestamp may well lie above its file's maximum                         *)
(* (timestamp_stats_truncation.test).  Nothing is recorded on a path the log's *)
(* statistics cannot name.                                                  *)
StatisticsDescribeTheirFile ==
  \A f \in added : \A p \in DOMAIN f.stats :
    LET s == f.stats[p]  values == Present(f.rows, p)
    IN  /\ StatsPathIsRecordable(p)
        /\ s.bounded =>
             /\ \A v \in values : s.min <= v /\ v < s.max + Grain(p)
             /\ \E v \in values : v < s.min + Grain(p)
             /\ \E v \in values : s.max <= v
        /\ s.counted => s.nulls = Cardinality({r \in f.rows : At(r, p) = NULL})

(* No file with a row that the filters keep is left out of the scan: the       *)
(* predicate handed to the kernel is never stronger than the filters, whatever *)
(* part of them the visitor could not express (PredicateVisitor).             *)
NoMatchingRowLost ==
  \A f \in added, scan \in Scans :
    LeavesOut(scan.tests, f) => \A r \in f.rows : ~Matches(r, scan.filters)

=============================================================================
