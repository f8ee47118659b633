------------------------ MODULE FilterPushdownProofs ------------------------
(***************************************************************************)
(* Proofs about FilterPushdown, for any finite set of values, any length of *)
(* a millisecond and any number of files in a commit.                       *)
(***************************************************************************)
EXTENDS FilterPushdown, NaturalLemmas, FiniteSetTheorems, TLAPS

\* The files an INSERT can have written, with what the copy reported of them.
WrittenFiles ==
  {[rows |-> rows, stats |-> ColumnStats(rows, paths)] :
     rows \in SUBSET Row, paths \in ReportedPaths}

\* What the log keeps of what the copy reported of some rows.
Kept(rows, p) == [Reported(rows, p) EXCEPT !.min = Floor(@, p), !.max = Floor(@, p)]

\* No statistics of a column.
Blank(s) == ~s.bounded /\ ~s.counted

\* What the log has of a file: what it keeps of the copy's report, or nothing.
Recorded(f) ==
  /\ f.rows \subseteq Row
  /\ \A p \in DOMAIN f.stats :
       p \in {"x", "s.a"} /\ (f.stats[p] = Kept(f.rows, p) \/ Blank(f.stats[p]))

IInv ==
  /\ grain \in Nat \ {0}
  /\ outstanding \in Seq(WrittenFiles)
  /\ \A f \in added : Recorded(f)

-----------------------------------------------------------------------------
USE ValueAssumption, MillisecondAssumption, BatchAssumption

(* What a bound loses in the log.                                          *)

LEMMA Floored ==
  ASSUME grain \in Nat \ {0}, NEW v \in Nat, NEW p
  PROVE  /\ Grain(p) \in Nat \ {0}
         /\ Floor(v, p) \in Nat /\ Floor(v, p) <= v /\ v < Floor(v, p) + Grain(p)
<1>1. Grain(p) \in Nat \ {0}
  BY DEF Grain
<1>2. \A g \in Nat \ {0} : v % g \in 0 .. g - 1 /\ v % g <= v
  OBVIOUS
<1>. QED
  BY <1>1, <1>2 DEF Floor


(* Bounds of the values of a column.                                       *)

LEMMA GreatestOf ==
  ASSUME NEW S \in SUBSET Nat, IsFiniteSet(S), S # {}
  PROVE  \E x \in S : \A y \in S : x >= y
<1>. DEFINE above(x) == {y \in S : y > x}
            T == {Cardinality(above(x)) : x \in S}
<1>1. ASSUME NEW x \in S
      PROVE  IsFiniteSet(above(x)) /\ Cardinality(above(x)) \in Nat
  BY FS_Subset, FS_CardinalityType
<1>2. T \in SUBSET Nat /\ T # {}
  BY <1>1
<1>3. PICK n \in T : \A m \in T : n <= m
  BY <1>2, LeastNatural
<1>4. PICK x \in S : n = Cardinality(above(x))
  BY <1>3
<1>5. ASSUME NEW y \in S, y > x PROVE FALSE
  <2>1. above(y) \subseteq above(x) /\ y \in above(x) /\ y \notin above(y)
    <3>1. \A z \in S : z > y => z > x
      BY <1>5
    <3>2. ~(y > y)
      BY <1>5
    <3>. QED
      BY <1>5, <3>1, <3>2, Zenon
  <2>2. Cardinality(above(y)) <= Cardinality(above(x)) /\ Cardinality(above(y)) # Cardinality(above(x))
    BY <1>1, <2>1, FS_Subset
  <2>3. Cardinality(above(y)) \in T
    OBVIOUS
  <2>. HIDE DEF above, T
  <2>. QED
    BY <1>1, <1>2, <1>3, <1>4, <2>2, <2>3
<1>. QED
  BY <1>5

LEMMA Bounds ==
  ASSUME NEW S \in SUBSET Nat, IsFiniteSet(S), S # {}
  PROVE  /\ Min(S) \in S /\ Max(S) \in S
         /\ \A y \in S : Min(S) <= y /\ y <= Max(S)
<1>1. \E x \in S : \A y \in S : x <= y
  BY LeastNatural
<1>2. \E x \in S : \A y \in S : x >= y
  BY GreatestOf
<1>3. Min(S) \in S /\ \A y \in S : Min(S) <= y
  BY <1>1 DEF Min
<1>4. Max(S) \in S /\ \A y \in S : Max(S) >= y
  BY <1>2 DEF Max
<1>. QED
  BY <1>3, <1>4

LEMMA RowsFinite ==
  ASSUME NEW rows \in SUBSET Row
  PROVE  IsFiniteSet(rows) /\ Cardinality(rows) \in Nat
<1>. DEFINE S == Value \cup {NULL}
            T == {Min(Value), NULL}
            g == [p \in S \X T |-> [x |-> p[1], a |-> p[2]]]
<1>1. IsFiniteSet(S) /\ IsFiniteSet(T)
  <2>1. IsFiniteSet({NULL}) /\ IsFiniteSet({Min(Value)})
    BY FS_Singleton
  <2>2. T = {Min(Value)} \cup {NULL}
    OBVIOUS
  <2>. QED
    <3>1. IsFiniteSet(S)
      BY <2>1, FS_Union
    <3>2. IsFiniteSet({Min(Value)} \cup {NULL})
      BY <2>1, FS_Union
    <3>. QED
      BY <2>2, <3>1, <3>2
<1>2. IsFiniteSet(S \X T)
  BY <1>1, FS_Product
<1>3. g \in Surjection(S \X T, Row)
  <2>1. g \in [S \X T -> Row]
    BY DEF Row
  <2>2. ASSUME NEW r \in Row PROVE \E p \in S \X T : g[p] = r
    <3>1. <<r.x, r.a>> \in S \X T /\ r = [x |-> r.x, a |-> r.a]
      BY DEF Row
    <3>2. g[<<r.x, r.a>>] = r
      BY <3>1
    <3>. QED
      BY <3>1, <3>2
  <2>. QED
    BY <2>1, <2>2 DEF Surjection
<1>4. IsFiniteSet(Row)
  BY <1>2, <1>3, FS_Surjection
<1>. QED
  BY <1>4, FS_Subset, FS_CardinalityType

(* What the kernel concludes from statistics.                              *)

\* The values of a column of some rows.
LEMMA PresentValues ==
  ASSUME NEW rows \in SUBSET Row, NEW p \in {"x", "s.a"}
  PROVE  /\ \A r \in rows : At(r, p) \in Nat
         /\ Present(rows, p) \in SUBSET Nat /\ IsFiniteSet(Present(rows, p))
         /\ NULL \notin Present(rows, p)
         /\ \A r \in rows : At(r, p) # NULL => At(r, p) \in Present(rows, p)
<1>1. Min(Value) \in Value
  BY Bounds
<1>2. \A r \in rows : At(r, p) \in Value \cup {NULL}
  BY <1>1 DEF Row, At
<1>3. Present(rows, p) \in SUBSET Value
  BY <1>2 DEF Present
<1>4. IsFiniteSet(Present(rows, p))
  BY <1>3, FS_Subset
<1>. QED
  BY <1>2, <1>3, <1>4 DEF Present, NULL

\* Bounds in the log hold every value, to a millisecond, and are as close to one.
Describes(s, p, values) ==
  /\ \A v \in values : s.min <= v /\ v < s.max + Grain(p)
  /\ \E v \in values : v < s.min + Grain(p)
  /\ \E v \in values : s.max <= v

LEMMA KeptFields ==
  ASSUME NEW rows, NEW p
  PROVE  /\ Kept(rows, p).min = Floor(Reported(rows, p).min, p)
         /\ Kept(rows, p).max = Floor(Reported(rows, p).max, p)
         /\ Kept(rows, p).bounded = Reported(rows, p).bounded
         /\ Kept(rows, p).counted = Reported(rows, p).counted
         /\ Kept(rows, p).nulls = Reported(rows, p).nulls
  BY DEF Kept, Reported

LEMMA KeptBounds ==
  ASSUME grain \in Nat \ {0}, NEW rows \in SUBSET Row, NEW p \in {"x", "s.a"},
         NEW s, s = Kept(rows, p), s.bounded
  PROVE  /\ s.min \in Nat /\ s.max \in Nat
         /\ Describes(s, p, Present(rows, p))
<1>. DEFINE V == Present(rows, p)
            q == Reported(rows, p)
<1>1. /\ q.bounded = (V # {})
      /\ q.min = IF V = {} THEN 0 ELSE Min(V)
      /\ q.max = IF V = {} THEN 0 ELSE Max(V)
  BY DEF Reported
<1>2. s.min = Floor(q.min, p) /\ s.max = Floor(q.max, p) /\ s.bounded = q.bounded
  BY KeptFields
<1>3. V \in SUBSET Nat /\ IsFiniteSet(V)
  BY PresentValues
<1>. HIDE DEF V, q
<1>4. V # {} /\ s.min = Floor(Min(V), p) /\ s.max = Floor(Max(V), p)
  BY <1>1, <1>2
<1>5. Min(V) \in V /\ Max(V) \in V /\ \A y \in V : Min(V) <= y /\ y <= Max(V)
  BY <1>3, <1>4, Bounds
<1>6. /\ Grain(p) \in Nat /\ s.min \in Nat /\ s.min <= Min(V) /\ Min(V) < s.min + Grain(p)
      /\ s.max \in Nat /\ s.max <= Max(V) /\ Max(V) < s.max + Grain(p)
  <2>1. Min(V) \in Nat /\ Max(V) \in Nat
    BY <1>3, <1>5
  <2>. QED
    BY <1>4, <2>1, Floored
<1>7. ASSUME NEW v \in V PROVE v \in Nat /\ s.min <= v /\ v < s.max + Grain(p)
  <2>1. v \in Nat /\ Min(V) \in Nat /\ Max(V) \in Nat /\ Min(V) <= v /\ v <= Max(V)
    BY <1>3, <1>5
  <2>. QED
    BY <1>6, <2>1
<1>8. Describes(s, p, V)
  BY <1>5, <1>6, <1>7 DEF Describes
<1>. QED
  BY <1>6, <1>8 DEF V

\* A test that statistics refute holds for no row of the file.
LEMMA RefutedTest ==
  ASSUME grain \in Nat \ {0}, NEW rows \in SUBSET Row, NEW p \in {"x", "s.a"},
         NEW s, s = Kept(rows, p) \/ Blank(s),
         NEW t, t.path = p, t.constant \in Nat \ {0}, t.test # "distinct",
         Refutes(t, s, Cardinality(rows)), NEW r \in rows
  PROVE  ~Holds(t.test, At(r, p), t.constant)
<1>. DEFINE v == At(r, p)
            c == t.constant
            h == Highest(s, t.path)
<1>1. s = Kept(rows, p)
  BY DEF Blank, Refutes
<1>2. v \in Nat /\ c \in Nat
  BY PresentValues
<1>3. CASE s.bounded /\
             CASE t.test = "lt" -> s.min >= c
               [] t.test = "le" -> s.min > c
               [] t.test = "gt" -> h <= c
               [] t.test = "ge" -> h < c
               [] t.test = "eq" -> c < s.min \/ c > h
               [] t.test = "ne" -> s.min = c /\ h = c
               [] OTHER -> FALSE
  <2>1. /\ s.min \in Nat /\ h \in Nat
        /\ v # NULL => s.min <= v /\ v <= h
    <3>1. s.min \in Nat /\ s.max \in Nat /\ Describes(s, p, Present(rows, p))
      BY <1>1, <1>3, KeptBounds
    <3>2. v # NULL => s.min <= v /\ v < s.max + Grain(p)
      BY <3>1, PresentValues DEF Describes
    <3>3. Grain(p) \in Nat \ {0} /\ h = s.max + (Grain(p) - 1)
      BY <1>2, Floored DEF Highest
    <3>. QED
      BY <1>2, <3>1, <3>2, <3>3
  <2>. HIDE DEF v, c, h
  <2>2. CASE t.test = "lt"
    BY <1>2, <1>3, <2>1, <2>2 DEF Holds, v, c
  <2>3. CASE t.test = "le"
    BY <1>2, <1>3, <2>1, <2>3 DEF Holds, v, c
  <2>4. CASE t.test = "gt"
    BY <1>2, <1>3, <2>1, <2>4 DEF Holds, v, c
  <2>5. CASE t.test = "ge"
    BY <1>2, <1>3, <2>1, <2>5 DEF Holds, v, c
  <2>6. CASE t.test = "eq"
    BY <1>2, <1>3, <2>1, <2>6 DEF Holds, v, c
  <2>7. CASE t.test = "ne"
    BY <1>2, <1>3, <2>1, <2>7 DEF Holds, v, c
  <2>. QED
    BY <1>3, <2>2, <2>3, <2>4, <2>5, <2>6, <2>7
<1>4. CASE s.counted /\
             CASE t.test = "is_null" -> s.nulls = 0
               [] t.test = "is_not_null" -> s.nulls = Cardinality(rows)
               [] OTHER -> FALSE
  <2>. DEFINE N == {q \in rows : At(q, p) = NULL}
  <2>1. s.nulls = Cardinality(N)
    <3>1. Reported(rows, p).nulls = Cardinality(N)
      BY DEF Reported
    <3>. QED
      BY <1>1, <3>1, KeptFields
  <2>2. IsFiniteSet(rows) /\ IsFiniteSet(N) /\ N \in SUBSET rows
    BY RowsFinite, FS_Subset
  <2>3. CASE t.test = "is_null"
    <3>1. Cardinality(N) = 0
      BY <1>4, <2>1, <2>3
    <3>2. N = {}
      BY <2>2, <3>1, FS_EmptySet
    <3>3. v # NULL
      BY <3>2
    <3>. QED
      BY <2>3, <3>3 DEF Holds
  <2>4. CASE t.test = "is_not_null"
    <3>1. Cardinality(N) = Cardinality(rows)
      BY <1>4, <2>1, <2>4
    <3>2. N = rows
      BY <2>2, <3>1, FS_Subset
    <3>3. v = NULL
      BY <3>2
    <3>. QED
      BY <2>4, <3>3 DEF Holds
  <2>. QED
    BY <1>4, <2>3, <2>4
<1>. QED
  BY <1>3, <1>4 DEF Refutes

(* What the visitor makes of filters.                                      *)

Subjects == {"x", "s", "s.a"}

\* A simple filter, with a constant that is a number.
SimpleFilter(f) ==
  f.subject \in Subjects /\ f.constant \in Nat \ {0} /\ f.typed \in BOOLEAN /\ f.left \in BOOLEAN

\* A test that holds for the row
Sound(t, r) ==
  /\ t.constant \in Nat \ {0} /\ t.test # "distinct" /\ t.path \in Subjects
  /\ Holds(t.test, At(r, t.path), t.constant)

LEMMA SimpleFilters ==
  ASSUME NEW subject \in Subjects, NEW f \in Simple(subject) \cup Typical(subject)
  PROVE  SimpleFilter(f)
<1>1. ASSUME NEW op, NEW c \in Nat \ {0}, NEW b \in BOOLEAN, NEW l \in BOOLEAN,
             f = Compare(op, subject, c, b, l)
      PROVE  SimpleFilter(f)
  BY <1>1 DEF Compare, SimpleFilter
<1>2. ASSUME NEW test, f = Test(test, subject)
      PROVE  SimpleFilter(f)
  BY <1>2 DEF Test, SimpleFilter
<1>3. 1 \in Nat \ {0} /\ TRUE \in BOOLEAN /\ FALSE \in BOOLEAN /\ Value \subseteq Nat \ {0}
  OBVIOUS
<1>4. CASE f \in Simple(subject)
  <2>1. \/ \E op \in Comparison, c \in Value, b \in BOOLEAN, l \in BOOLEAN :
              f = Compare(op, subject, c, b, l)
        \/ \E test \in {"is_null", "is_not_null", "other"} : f = Test(test, subject)
    BY <1>4 DEF Simple
  <2>. QED
    BY <1>1, <1>2, <1>3, <2>1
<1>5. CASE f \in Typical(subject)
  <2>1. \/ \E c \in Value : f = Compare("gt", subject, c, TRUE, FALSE)
        \/ f = Compare("le", subject, Min(Value), FALSE, FALSE)
        \/ f = Compare("distinct", subject, Min(Value), TRUE, FALSE)
        \/ f = Test("is_null", subject) \/ f = Test("is_not_null", subject)
    BY <1>5, Zenon DEF Typical
  <2>2. CASE \E c \in Value : f = Compare("gt", subject, c, TRUE, FALSE)
    <3>1. PICK c \in Nat \ {0} : f = Compare("gt", subject, c, TRUE, FALSE)
      BY <1>3, <2>2
    <3>. QED
      BY <1>1, <1>3, <3>1
  <2>3. Min(Value) \in Nat \ {0}
    BY <1>3, Bounds
  <2>. QED
    BY <1>1, <1>2, <1>3, <2>1, <2>2, <2>3
<1>. QED
  BY <1>4, <1>5

\* The constant on the left, compared with a value, is the value compared with it.
LEMMA Flipped ==
  ASSUME NEW op \in Comparison, NEW v \in Nat, v # NULL, NEW c \in Nat \ {0}, Holds(op, c, v)
  PROVE  Holds(Flip(op), v, c)
<1>1. c # NULL
  BY DEF NULL
<1>2. CASE op = "lt"
  BY <1>1, <1>2 DEF Flip, Holds
<1>3. CASE op = "le"
  BY <1>1, <1>3 DEF Flip, Holds
<1>4. CASE op = "gt"
  BY <1>1, <1>4 DEF Flip, Holds
<1>5. CASE op = "ge"
  BY <1>1, <1>5 DEF Flip, Holds
<1>6. CASE op = "eq"
  BY <1>1, <1>6 DEF Flip, Holds
<1>7. CASE op = "ne"
  BY <1>1, <1>7 DEF Flip, Holds
<1>8. CASE op = "distinct"
  BY <1>1, <1>8 DEF Flip, Holds
<1>. QED
  BY <1>2, <1>3, <1>4, <1>5, <1>6, <1>7, <1>8 DEF Comparison

\* A comparison holds for no NULL, but for the one the visitor does not hand on.
LEMMA NullFails ==
  ASSUME NEW op \in Comparison, op # "distinct", NEW c
  PROVE  ~Holds(op, NULL, c)
  BY DEF Comparison, Holds

LEMMA VisitSimpleSound ==
  ASSUME NEW r \in Row, NEW f, SimpleFilter(f), Passes(r, f), NEW t \in VisitSimple(f).tests
  PROVE  Sound(t, r)
<1>1. f.subject \in {"x", "s.a"} /\ Resolves(f)
  BY DEF VisitSimple, Nothing, Resolves, SimpleFilter, Subjects
<1>2. At(r, f.subject) \in Nat
  <2>1. {r} \in SUBSET Row
    OBVIOUS
  <2>. QED
    BY <1>1, <2>1, PresentValues
<1>3. f.constant \in Nat \ {0} /\ f.left \in BOOLEAN
  BY DEF SimpleFilter
<1>4. CASE f.test \in Comparison
  <2>. DEFINE op == IF f.left THEN Flip(f.test) ELSE f.test
  <2>1. t \in VisitConstantFilter(f.subject, op, f.constant, f.typed).tests
    <3>1. f.test \notin {"is_null", "is_not_null"}
      BY <1>4 DEF Comparison
    <3>. QED
      BY <1>1, <1>4, <3>1 DEF VisitSimple
  <2>2. op # "distinct" /\ t = [test |-> op, path |-> f.subject, constant |-> f.constant]
    BY <2>1 DEF VisitConstantFilter, Nothing, Ends, Predicate
  <2>3. Holds(op, At(r, f.subject), f.constant)
    <3>1. CASE f.left
      <4>1. f.test # "distinct"
        BY <2>2, <3>1 DEF Flip
      <4>2. CASE At(r, f.subject) # NULL
        <5>1. Holds(f.test, f.constant, At(r, f.subject))
          BY <1>1, <1>4, <3>1, <4>2 DEF Passes
        <5>. QED
          BY <1>2, <1>3, <1>4, <3>1, <4>2, <5>1, Flipped
      <4>3. CASE At(r, f.subject) = NULL
        <5>1. Holds(f.test, NULL, f.constant)
          BY <1>1, <4>3 DEF Passes
        <5>. QED
          BY <1>4, <4>1, <5>1, NullFails
      <4>. QED
        BY <4>2, <4>3
    <3>2. CASE ~f.left
      BY <1>1, <3>2 DEF Passes
    <3>. QED
      BY <3>1, <3>2
  <2>. QED
    BY <1>1, <1>3, <2>2, <2>3 DEF Sound, Subjects
<1>5. CASE f.test \in {"is_null", "is_not_null"}
  <2>1. f.test \notin Comparison
    BY <1>5 DEF Comparison
  <2>2. t = [test |-> f.test, path |-> f.subject, constant |-> 1]
    BY <1>1, <1>5, <2>1 DEF VisitSimple, Predicate
  <2>3. Holds(f.test, At(r, f.subject), f.constant)
    BY <1>1, <2>1 DEF Passes
  <2>4. Holds(f.test, At(r, f.subject), 1)
    BY <1>5, <2>3 DEF Holds
  <2>. QED
    BY <1>1, <1>5, <2>2, <2>4 DEF Sound, Subjects
<1>. QED
  BY <1>1, <1>4, <1>5 DEF VisitSimple, Nothing

\* What is left of a conjunction is a part of it.
LEMMA AndTests ==
  ASSUME NEW visited, NEW t \in And(visited).tests
  PROVE  \E i \in DOMAIN visited : t \in visited[i].tests
  BY DEF And, Predicate

\* A filter of a column, as a conjunction, a disjunction or alone.
WellFormed(j) ==
  /\ 1 \in DOMAIN j.filters
  /\ \A k \in DOMAIN j.filters : SimpleFilter(j.filters[k])

LEMMA VisitFilterExpressionSound ==
  ASSUME NEW r \in Row, NEW j, WellFormed(j),
         IF j.junction = "or" THEN \E k \in DOMAIN j.filters : Passes(r, j.filters[k])
         ELSE \A k \in DOMAIN j.filters : Passes(r, j.filters[k]),
         NEW t \in VisitFilterExpression(j).tests
  PROVE  Sound(t, r)
<1>1. j.junction \in {"none", "optional", "and"}
  BY DEF VisitFilterExpression, Nothing
<1>2. \A k \in DOMAIN j.filters : Passes(r, j.filters[k]) /\ SimpleFilter(j.filters[k])
  BY <1>1 DEF WellFormed
<1>3. \E k \in DOMAIN j.filters : t \in VisitSimple(j.filters[k]).tests
  <2>1. CASE j.junction = "and"
    <3>. DEFINE visited == [k \in DOMAIN j.filters |-> VisitSimple(j.filters[k])]
    <3>1. t \in And(visited).tests
      BY <2>1 DEF VisitFilterExpression
    <3>2. PICK k \in DOMAIN visited : t \in visited[k].tests
      BY <3>1, AndTests
    <3>. QED
      BY <3>2
  <2>2. CASE j.junction # "and"
    BY <1>1, <2>2 DEF VisitFilterExpression, WellFormed
  <2>. QED
    BY <2>1, <2>2
<1>. QED
  BY <1>2, <1>3, VisitSimpleSound

\* The filters of a scan are well formed.
LEMMA Singles ==
  ASSUME NEW f, SimpleFilter(f), NEW junction
  PROVE  WellFormed(Junction(junction, <<f>>))
<1>1. Junction(junction, <<f>>).filters = <<f>>
  BY DEF Junction
<1>. QED
  BY <1>1 DEF WellFormed

LEMMA Pairs ==
  ASSUME NEW f, SimpleFilter(f), NEW g, SimpleFilter(g), NEW junction
  PROVE  WellFormed(Junction(junction, <<f, g>>))
<1>1. Junction(junction, <<f, g>>).filters = <<f, g>>
  BY DEF Junction
<1>. QED
  BY <1>1 DEF WellFormed

LEMMA FiltersOnXWellFormed ==
  ASSUME NEW j \in FiltersOnX
  PROVE  WellFormed(j)
<1>1. \A f \in Simple("x") \cup Typical("x") : SimpleFilter(f)
  <2>1. "x" \in Subjects
    BY DEF Subjects
  <2>. QED
    BY <2>1, SimpleFilters
<1>2. CASE \E f \in Simple("x") : j = Junction("none", <<f>>) \/ j = Junction("optional", <<f>>)
  BY <1>1, <1>2, Singles
<1>3. CASE \E f \in Simple("x"), g \in Typical("x") :
             j = Junction("and", <<f, g>>) \/ j = Junction("and", <<g, f>>)
  BY <1>1, <1>3, Pairs
<1>4. CASE \E f \in Typical("x"), g \in Typical("x") : j = Junction("or", <<f, g>>)
  BY <1>1, <1>4, Pairs
<1>. DEFINE A == {Junction("none", <<f>>) : f \in Simple("x")}
            B == {Junction("optional", <<f>>) : f \in Simple("x")}
            C == {Junction("and", <<f, g>>) : f \in Simple("x"), g \in Typical("x")}
                 \cup {Junction("and", <<g, f>>) : f \in Simple("x"), g \in Typical("x")}
            D == {Junction("or", <<f, g>>) : f \in Typical("x"), g \in Typical("x")}
<1>5. FiltersOnX = A \cup B \cup C \cup D
  BY DEF FiltersOnX
<1>6. CASE j \in A \cup B
  BY <1>2, <1>6
<1>7. CASE j \in C
  <2>. DEFINE C1 == {Junction("and", <<f, g>>) : f \in Simple("x"), g \in Typical("x")}
              C2 == {Junction("and", <<g, f>>) : f \in Simple("x"), g \in Typical("x")}
  <2>1. CASE j \in C1
    <3>1. PICK f \in Simple("x"), g \in Typical("x") : j = Junction("and", <<f, g>>)
      BY <2>1
    <3>. QED
      BY <1>3, <3>1
  <2>2. CASE j \in C2
    <3>1. PICK f \in Simple("x"), g \in Typical("x") : j = Junction("and", <<g, f>>)
      BY <2>2
    <3>. QED
      BY <1>3, <3>1
  <2>3. C = C1 \cup C2
    OBVIOUS
  <2>. HIDE DEF C, C1, C2
  <2>. QED
    BY <1>7, <2>1, <2>2, <2>3
<1>8. CASE j \in D
  BY <1>4, <1>8
<1>. HIDE DEF A, B, C, D
<1>. QED
  BY <1>5, <1>6, <1>7, <1>8

LEMMA FiltersOnSWellFormed ==
  ASSUME NEW j \in FiltersOnS
  PROVE  WellFormed(j)
<1>1. \A f \in Simple("s.a") \cup Simple("s") : SimpleFilter(f)
  <2>1. "s" \in Subjects /\ "s.a" \in Subjects
    BY DEF Subjects
  <2>. QED
    BY <2>1, SimpleFilters
<1>2. \E f \in Simple("s.a") \cup Simple("s") : j = Junction("none", <<f>>)
  BY DEF FiltersOnS
<1>. QED
  BY <1>1, <1>2, Singles

LEMMA FiltersWellFormed ==
  ASSUME NEW filters \in Filters, NEW i \in DOMAIN filters
  PROVE  WellFormed(filters[i])
<1>1. \A subject \in Subjects : \A h \in Typical(subject) : WellFormed(Junction("none", <<h>>))
  BY SimpleFilters, Singles
<1>2. "s" \in Subjects /\ "s.a" \in Subjects /\ "x" \in Subjects
  BY DEF Subjects
<1>. DEFINE X == {Junction("none", <<h>>) : h \in Typical("x")}
            S == {Junction("none", <<h>>) : h \in Typical("s.a") \cup Typical("s")}
<1>3. \A f \in X \cup S : WellFormed(f)
  BY <1>1, <1>2
<1>4. \A f \in FiltersOnX \cup FiltersOnS : WellFormed(f)
  BY FiltersOnXWellFormed, FiltersOnSWellFormed
<1>5. \/ \E f \in FiltersOnX \cup FiltersOnS : filters = <<f>>
      \/ \E f \in X, g \in S : filters = <<f, g>> \/ filters = <<g, f>>
  <2>. DEFINE A == {<<f>> : f \in FiltersOnX \cup FiltersOnS}
              B == {<<f, g>> : f \in X, g \in S}
              C == {<<g, f>> : f \in X, g \in S}
  <2>1. Filters = A \cup B \cup C
    BY DEF Filters
  <2>. HIDE DEF X, S
  <2>2. CASE filters \in A
    BY <2>2
  <2>3. CASE filters \in B
    BY <2>3
  <2>4. CASE filters \in C
    BY <2>4
  <2>. HIDE DEF A, B, C
  <2>. QED
    BY <2>1, <2>2, <2>3, <2>4
<1>. HIDE DEF X, S
<1>. QED
  BY <1>3, <1>4, <1>5

\* The predicate handed to the kernel holds for every row the filters keep.
LEMMA VisitPredicateSound ==
  ASSUME NEW r \in Row, NEW filters \in Filters, Matches(r, filters),
         NEW t \in VisitPredicate(filters)
  PROVE  Sound(t, r)
<1>. DEFINE visited == [i \in DOMAIN filters |-> VisitFilterExpression(filters[i])]
<1>1. PICK i \in DOMAIN visited : t \in visited[i].tests
  BY AndTests DEF VisitPredicate
<1>2. i \in DOMAIN filters /\ t \in VisitFilterExpression(filters[i]).tests
  BY <1>1
<1>3. WellFormed(filters[i])
  BY <1>2, FiltersWellFormed
<1>. DEFINE j == filters[i]
<1>4. IF j.junction = "or" THEN \E k \in DOMAIN j.filters : Passes(r, j.filters[k])
      ELSE \A k \in DOMAIN j.filters : Passes(r, j.filters[k])
  BY <1>2 DEF Matches
<1>. QED
  BY <1>2, <1>3, <1>4, VisitFilterExpressionSound

-----------------------------------------------------------------------------
(* The invariant.  A file's statistics are those the copy reported of it    *)
(* until the batch is recorded, and what the log keeps of them after it.    *)

LEMMA WrittenFile ==
  ASSUME NEW f \in WrittenFiles
  PROVE  /\ f.rows \in SUBSET Row
         /\ DOMAIN f.stats \in SUBSET {"x", "s.a"}
         /\ \A p \in DOMAIN f.stats : f.stats[p] = Reported(f.rows, p)
<1>1. PICK rows \in SUBSET Row, paths \in ReportedPaths :
        f = [rows |-> rows, stats |-> ColumnStats(rows, paths)]
  BY DEF WrittenFiles
<1>. DEFINE Q == {q \in paths : StatsPathIsRecordable(q)}
<1>2. Q \in SUBSET {"x", "s.a"}
  BY DEF StatsPathIsRecordable, ReportedPaths, Path
<1>3. f.rows = rows /\ f.stats = [p \in Q |-> Reported(rows, p)]
  BY <1>1 DEF ColumnStats
<1>. HIDE DEF Q
<1>. QED
  BY <1>2, <1>3

\* A report as the log keeps it, and no report.
LEMMA LoggedStats ==
  ASSUME NEW stats, NEW p \in DOMAIN stats, NEW rows,
         stats[p] \in {Reported(rows, p), NoStatistics}
  PROVE  Logged(stats)[p] = Kept(rows, p) \/ Blank(Logged(stats)[p])
<1>1. Logged(stats)[p] = [stats[p] EXCEPT !.min = Floor(@, p), !.max = Floor(@, p)]
  BY DEF Logged
<1>2. CASE stats[p] = Reported(rows, p)
  BY <1>1, <1>2 DEF Kept
<1>3. CASE stats[p] = NoStatistics
  BY <1>1, <1>3 DEF NoStatistics, Blank
<1>. QED
  BY <1>2, <1>3

LEMMA InitInv == Init => IInv
  BY MillisecondAssumption DEF Init, IInv

LEMMA AddWrittenFileInv ==
  ASSUME IInv, NEW rows \in SUBSET Row, NEW paths \in ReportedPaths,
         AddWrittenFile(rows, paths)
  PROVE  IInv'
<1>1. [rows |-> rows, stats |-> ColumnStats(rows, paths)] \in WrittenFiles
  BY DEF WrittenFiles
<1>2. outstanding' \in Seq(WrittenFiles)
  BY <1>1 DEF IInv, AddWrittenFile
<1>. QED
  BY <1>2 DEF IInv, AddWrittenFile

LEMMA WriteMetaDataInv ==
  ASSUME IInv, WriteMetaData
  PROVE  IInv'
<1>1. outstanding' \in Seq(WrittenFiles)
  BY DEF WriteMetaData
<1>2. ASSUME NEW f \in added' PROVE Recorded(f)
  <2>1. PICK i \in DOMAIN outstanding :
          f = [rows |-> outstanding[i].rows,
               stats |-> Logged(CreateStatsValue(outstanding[i], outstanding[1]))]
    BY DEF WriteMetaData
  <2>. DEFINE file == outstanding[i]
              first == outstanding[1]
  <2>2. file \in WrittenFiles /\ first \in WrittenFiles
    BY DEF IInv, WriteMetaData
  <2>. DEFINE stats == CreateStatsValue(file, first)
  <2>3. /\ f.rows = file.rows /\ f.stats = Logged(stats)
        /\ DOMAIN stats = DOMAIN first.stats
        /\ \A p \in DOMAIN first.stats :
             stats[p] = IF p \in DOMAIN file.stats THEN file.stats[p] ELSE NoStatistics
    BY <2>1 DEF CreateStatsValue
  <2>. HIDE DEF file, first, stats
  <2>4. DOMAIN f.stats = DOMAIN stats
    BY <2>3 DEF Logged
  <2>5. ASSUME NEW p \in DOMAIN f.stats
        PROVE  p \in {"x", "s.a"} /\ (f.stats[p] = Kept(f.rows, p) \/ Blank(f.stats[p]))
    <3>1. p \in DOMAIN first.stats /\ p \in {"x", "s.a"}
      BY <2>2, <2>3, <2>4, WrittenFile
    <3>2. stats[p] \in {Reported(file.rows, p), NoStatistics}
      BY <2>2, <2>3, <3>1, WrittenFile
    <3>3. Logged(stats)[p] = Kept(file.rows, p) \/ Blank(Logged(stats)[p])
      BY <2>3, <3>1, <3>2, LoggedStats DEF IInv
    <3>. QED
      BY <2>3, <3>1, <3>3
  <2>. QED
    BY <2>2, <2>3, <2>5, WrittenFile DEF Recorded
<1>3. \A f \in added' : Recorded(f)'
  BY <1>2 DEF WriteMetaData, Recorded, Kept, Blank, Floor, Grain
<1>. QED
  BY <1>1, <1>3 DEF IInv, WriteMetaData

\* What the log keeps of the copy's report on a file, or nothing, is what every step leaves
\* recorded of it.
THEOREM Inductive == Spec => []IInv
<1>1. ASSUME IInv, [Next]_vars PROVE IInv'
  <2>1. CASE \E rows \in SUBSET Row, paths \in ReportedPaths :
               Cardinality(rows) \in 1 .. 2 /\ AddWrittenFile(rows, paths)
    BY <1>1, <2>1, AddWrittenFileInv
  <2>2. CASE WriteMetaData
    BY <1>1, <2>2, WriteMetaDataInv
  <2>3. CASE UNCHANGED vars
    BY <1>1, <2>3 DEF vars, IInv, Recorded, Kept, Floor, Grain
  <2>. QED
    BY <1>1, <2>1, <2>2, <2>3 DEF Next
<1>. QED
  BY InitInv, <1>1, PTL DEF Spec

-----------------------------------------------------------------------------
(* The properties.                                                         *)

(* What the log records of a file is true of that file (AddWrittenFiles,    *)
(* ParseColumnStats, WriteMetaData), for any files in a commit: bounds of   *)
(* timestamps are off by less than a millisecond, others hold the values.   *)
THEOREM StatisticsAreTrue == Spec => []StatisticsDescribeTheirFile
<1>1. ASSUME IInv PROVE StatisticsDescribeTheirFile
  <2>. DEFINE True(f, p) ==
         LET s == f.stats[p]  values == Present(f.rows, p)
         IN  /\ StatsPathIsRecordable(p)
             /\ s.bounded => Describes(s, p, values)
             /\ s.counted => s.nulls = Cardinality({r \in f.rows : At(r, p) = NULL})
  <2>1. ASSUME NEW f \in added, NEW p \in DOMAIN f.stats PROVE True(f, p)
    <3>1. f.rows \in SUBSET Row /\ p \in {"x", "s.a"}
      BY <1>1, <2>1 DEF IInv, Recorded
    <3>2. CASE f.stats[p] = Kept(f.rows, p)
      <4>1. f.stats[p].nulls = Cardinality({r \in f.rows : At(r, p) = NULL})
        <5>1. Reported(f.rows, p).nulls = Cardinality({r \in f.rows : At(r, p) = NULL})
          BY DEF Reported
        <5>. QED
          BY <3>2, <5>1, KeptFields
      <4>2. f.stats[p].bounded => Describes(f.stats[p], p, Present(f.rows, p))
        BY <1>1, <3>1, <3>2, KeptBounds DEF IInv
      <4>. QED
        BY <3>1, <4>1, <4>2 DEF StatsPathIsRecordable
    <3>3. CASE Blank(f.stats[p])
      BY <3>1, <3>3 DEF Blank, StatsPathIsRecordable
    <3>. QED
      BY <1>1, <2>1, <3>2, <3>3 DEF IInv, Recorded
  <2>. QED
    BY <2>1 DEF StatisticsDescribeTheirFile, Describes
<1>. QED
  BY Inductive, <1>1, PTL

(* No file with a row that the filters keep is left out of the scan         *)
(* (PredicateVisitor): a test of the kernel's predicate holds for every row *)
(* that passes the filters, and statistics that refute a test are those of  *)
(* a file in which no row passes it.                                       *)
THEOREM NoRowIsLost == Spec => []NoMatchingRowLost
<1>1. ASSUME IInv PROVE NoMatchingRowLost
  <2>1. SUFFICES ASSUME NEW f \in added, NEW filters \in Filters,
                        LeavesOut(VisitPredicate(filters), f), NEW r \in f.rows,
                        Matches(r, filters)
                 PROVE  FALSE
    BY DEF NoMatchingRowLost, Scans
  <2>2. PICK t \in VisitPredicate(filters) :
          t.path \in DOMAIN f.stats /\ Refutes(t, f.stats[t.path], Cardinality(f.rows))
    BY <2>1 DEF LeavesOut
  <2>3. /\ f.rows \in SUBSET Row /\ t.path \in {"x", "s.a"}
        /\ f.stats[t.path] = Kept(f.rows, t.path) \/ Blank(f.stats[t.path])
    BY <1>1, <2>2 DEF IInv, Recorded
  <2>4. Sound(t, r)
    BY <2>1, <2>2, <2>3, VisitPredicateSound
  <2>5. ~Holds(t.test, At(r, t.path), t.constant)
    BY <1>1, <2>2, <2>3, <2>4, RefutedTest DEF Sound, IInv
  <2>. QED
    BY <2>4, <2>5 DEF Sound
<1>. QED
  BY Inductive, <1>1, PTL
=============================================================================
