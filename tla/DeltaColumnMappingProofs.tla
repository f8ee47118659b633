---------------------- MODULE DeltaColumnMappingProofs ----------------------
(***************************************************************************)
(* Proofs about DeltaColumnMapping, for any names and any number of        *)
(* columns and files.                                                      *)
(***************************************************************************)
EXTENDS DeltaColumnMapping, NaturalLemmas, FiniteSetTheorems, SequenceTheorems, TLAPS

Column ==
  [of : Nat, name : Name, id : Int, part : BOOLEAN, notnull : BOOLEAN,
   physical : Name \cup {NoName} \cup {FreshPhysicalName[n] : n \in 1 .. MaxColumns}]

\* The physical names a column can have: the one other engines drew for it or, when the
\* mapping came later than the column, the name it had then.
PhysicalNames(of) == Name \cup {FreshPhysicalName[of]}

\* Positions in the schema are told apart by the data and by the name.
Positions ==
  \A i, j \in DOMAIN schema :
    schema[i].of = schema[j].of \/ schema[i].name = schema[j].name => i = j

\* One mapped column is not another, whichever of its names is used.
MappedColumns ==
  /\ \A c \in Columns : c.id = c.of /\ c.physical \in PhysicalNames(c.of)
  /\ \A c, d \in Columns : c.physical = d.physical => c = d
  /\ property = "id" => \A c \in Columns : c.physical = FreshPhysicalName[c.of]

SchemaInv ==
  /\ property \in {"none", "name", "id"} /\ nested_ids \in BOOLEAN
  /\ created \in 3 .. MaxColumns
  /\ schema \in Seq(Column)
  /\ \A c \in Columns : c.of \in 1 .. created
  /\ \E c \in Columns : ~c.part
  /\ Positions
  /\ Mapped => MappedColumns

\* The columns of a file, by what they are found by in it.  An unmapped table keeps the
\* name of a column, a mapped one its physical name.
Keyed(f) ==
  /\ ~Mapped => \A x \in f.cols : \E c \in Columns : c.of = x.of /\ c.name = x.name
  /\ Mapped => \A x \in f.cols :
       /\ x.name \in PhysicalNames(x.of)
       /\ \A c \in Columns : x.name = c.physical <=> x.of = c.of

\* The field ids of a file that follows the protocol in id mode.
Identified(f) ==
  Mapped /\ property = "id" =>
    \A x \in f.cols : x.id = x.of /\ (x.of = 1 => x.entries = LogIds)

\* The partition values of a file, by the kernel's name.
Partitioned(f) ==
  \A c \in Partitions :
    /\ \E p \in f.parts : p.of = c.of
    /\ \A p \in f.parts : p.name = KernelName(c) <=> p.of = c.of

\* A file without field ids in id mode.
Unidentified(f) ==
  /\ Mapped /\ property = "id" /\ f.cols # {}
  /\ \A x \in f.cols : x.id = NoId /\ \A c \in Columns : x.of = c.of => ~c.part

FileTyped(f) ==
  \A x \in f.cols :
    /\ x.of \in 1 .. created /\ x.name # NoName /\ x.id \in 1 .. created \cup {NoId}
    /\ x.entries \in [Entries -> Nat \cup {NoId}]

FileInv(f) ==
  /\ FileTyped(f)
  /\ \A c \in Columns : c.notnull => c.of \notin f.nulls
  /\ f.by \in {"insert", "other"} => Keyed(f) /\ Identified(f) /\ Partitioned(f)
  /\ f.by = "physical" => /\ Unidentified(f) /\ Keyed(f)
                          /\ \A x \in f.cols : x.name = FreshPhysicalName[x.of]
  /\ f.by = "legacy" => /\ Unidentified(f) /\ Partitions = {}
                        /\ \A x \in f.cols : x.name \in Name
                        /\ \A x, y \in f.cols : x.name = y.name => x.of = y.of

IInv ==
  /\ SchemaInv
  /\ IsFiniteSet(files) /\ Cardinality(files) <= MaxFiles
  /\ \A f \in files : FileInv(f)

-----------------------------------------------------------------------------
USE BoundsAssumption, NamesAssumption

(* Names.  The copy, the log, the kernel and the list go by the same one.  *)

Key(c) == IF Mapped THEN c.physical ELSE c.name

LEMMA ColumnFacts ==
  ASSUME SchemaInv
  PROVE  /\ \A c \in Columns : c \in Column /\ c.of \in 1 .. created /\ c.name # NoName
         /\ \A c, d \in Columns : c.of = d.of \/ c.name = d.name => c = d
         /\ \A i \in DOMAIN schema : schema[i] \in Columns
         /\ DOMAIN schema = 1 .. Len(schema) /\ Len(schema) \in Nat
<1>1. \A i \in DOMAIN schema : schema[i] \in Column /\ schema[i] \in Columns
  BY DEF SchemaInv, Columns
<1>2. \A c \in Columns : c \in Column /\ c.of \in 1 .. created
  BY <1>1 DEF SchemaInv, Columns
<1>3. \A c \in Columns : c.name # NoName
  BY <1>2 DEF Column
<1>4. \A c, d \in Columns : c.of = d.of \/ c.name = d.name => c = d
  BY DEF SchemaInv, Columns, Positions
<1>. QED
  BY <1>1, <1>2, <1>3, <1>4 DEF SchemaInv

LEMMA PhysicalFacts ==
  ASSUME SchemaInv, Mapped
  PROVE  /\ \A c \in Columns : c.physical # NoName /\ c.id = c.of /\ c.id # NoId
         /\ AnyColumnMapped
<1>1. \A c \in Columns : c.of \in 1 .. MaxColumns /\ c.id = c.of /\ c.physical \in PhysicalNames(c.of)
  BY ColumnFacts DEF SchemaInv, MappedColumns
<1>2. \A c \in Columns : c.physical # NoName /\ c.id # NoId
  BY <1>1 DEF PhysicalNames, NoId
<1>3. \E c \in Columns : TRUE
  BY DEF SchemaInv
<1>. QED
  BY <1>1, <1>2, <1>3 DEF AnyColumnMapped

LEMMA Keys ==
  ASSUME SchemaInv, NEW c \in Columns
  PROVE  /\ KernelName(c) = Key(c) /\ CopyName(c) = Key(c) /\ Key(c) # NoName
         /\ (IF Mapped THEN WrittenName(c) ELSE c.name) = Key(c)
         /\ (IF Mapped /\ c.physical # NoName THEN c.physical ELSE c.name) = Key(c)
<1>1. Mapped <=> HasColumnMappingFeature(protocol) /\ property # "none"
  BY DEF SchemaInv, Mapped, ReadColumnMappingMode
<1>2. CASE Mapped
  BY <1>1, <1>2, PhysicalFacts DEF KernelName, CopyName, ColumnMapped, WrittenName, Key
<1>3. CASE ~Mapped
  BY <1>1, <1>3, ColumnFacts DEF KernelName, CopyName, ColumnMapped, Key
<1>. QED
  BY <1>2, <1>3

LEMMA KeysDiffer ==
  ASSUME SchemaInv, NEW c \in Columns, NEW d \in Columns, Key(c) = Key(d)
  PROVE  c = d
<1>1. CASE Mapped
  BY <1>1 DEF Key, SchemaInv, MappedColumns
<1>2. CASE ~Mapped
  BY <1>2, ColumnFacts DEF Key
<1>. QED
  BY <1>1, <1>2

LEMMA Modes ==
  ASSUME SchemaInv
  PROVE  /\ ReadColumnMappingMode \in {"none", "name", "id"}
         /\ ReadColumnMappingMode = "none" <=> ~Mapped
         /\ ReadColumnMappingMode = "id" <=> Mapped /\ property = "id"
         /\ ReadColumnMappingMode = "name" <=> Mapped /\ property = "name"
  BY DEF SchemaInv, Mapped, ReadColumnMappingMode

(* Constraints.                                                            *)

\* What the copy reports of a column is looked up under that column and no other.
LEMMA FoundAgain ==
  ASSUME SchemaInv, NEW c \in Columns
  PROVE  FindWrittenColumn(CopyName(c)) = {c}
<1>1. \A d \in Columns : (IF Mapped THEN WrittenName(d) ELSE d.name) = CopyName(c) <=> d = c
  BY Keys, KeysDiffer
<1>. QED
  BY <1>1 DEF FindWrittenColumn

LEMMA Accepts ==
  ASSUME SchemaInv, NEW nulls
  PROVE  AcceptsStatistics(nulls) <=> \A c \in Columns : c.notnull => c.of \notin nulls
<1>1. \A c \in Columns : c.notnull \in BOOLEAN
  BY ColumnFacts DEF Column
<1>. QED
  BY <1>1, FoundAgain DEF AcceptsStatistics

-----------------------------------------------------------------------------
(* Changes of the schema.  A column keeps what files know it by, and a new *)
(* one has nothing that a file could know.                                 *)

Same(c, d) ==
  c.of = d.of /\ c.physical = d.physical /\ c.id = d.id /\ c.part = d.part /\ c.notnull = d.notnull

IsNew(d) ==
  /\ created' = created + 1 /\ d.of = created + 1 /\ ~d.part /\ ~d.notnull
  /\ Mapped => d.physical = FreshPhysicalName[d.of] /\ d.id = d.of

SchemaChange ==
  /\ UNCHANGED <<protocol, property, nested_ids>>
  /\ created' \in {created, created + 1} /\ created' <= MaxColumns
  /\ schema' \in Seq(Column)
  /\ Positions'
  /\ \E c \in Columns' : ~c.part
  /\ \A d \in Columns' : (\E c \in Columns : Same(c, d)) \/ IsNew(d)
  /\ ~Mapped => Columns \subseteq Columns'

LEMMA ModeStays ==
  ASSUME UNCHANGED <<protocol, property>>
  PROVE  Mapped' = Mapped /\ ReadColumnMappingMode' = ReadColumnMappingMode
  BY DEF Mapped, ReadColumnMappingMode, HasColumnMappingFeature

LEMMA ChangeKeepsSchema ==
  ASSUME SchemaInv, SchemaChange
  PROVE  SchemaInv'
<1>. USE DEF SchemaChange
<1>1. Mapped' = Mapped
  BY ModeStays
<1>2. created \in Nat /\ created' \in 3 .. MaxColumns
  BY DEF SchemaInv
<1>3. \A d \in Columns' : d.of \in 1 .. created'
  BY <1>2, ColumnFacts DEF Same, IsNew
<1>4. ASSUME Mapped PROVE MappedColumns'
  <2>1. MappedColumns
    BY <1>4 DEF SchemaInv
  <2>2. \A d \in Columns' : d.id = d.of /\ d.physical \in PhysicalNames(d.of)
    BY <1>4, <2>1 DEF MappedColumns, Same, IsNew, PhysicalNames
  <2>3. property' = "id" => \A d \in Columns' : d.physical = FreshPhysicalName[d.of]
    BY <1>4, <2>1 DEF MappedColumns, Same, IsNew
  <2>4. \A d, e \in Columns' : d.of = e.of => d = e
    BY DEF Columns, Positions
  <2>5. ASSUME NEW d \in Columns', NEW e \in Columns', d.physical = e.physical PROVE d.of = e.of
    <3>1. \A c \in Columns : c.physical # FreshPhysicalName[created + 1] \/ created' = created
      BY <1>2, <2>1, ColumnFacts DEF MappedColumns, PhysicalNames
    <3>2. CASE IsNew(d) \/ IsNew(e)
      BY <1>2, <1>4, <2>5, <3>1, <3>2 DEF Same, IsNew
    <3>3. CASE ~IsNew(d) /\ ~IsNew(e)
      BY <2>1, <2>5, <3>3 DEF MappedColumns, Same
    <3>. QED
      BY <3>2, <3>3
  <2>. QED
    BY <2>2, <2>3, <2>4, <2>5 DEF MappedColumns
<1>. QED
  BY <1>1, <1>2, <1>3, <1>4 DEF SchemaInv

LEMMA ChangeKeepsFiles ==
  ASSUME SchemaInv, SchemaChange, SchemaInv', NEW f, FileInv(f)
  PROVE  FileInv(f)'
<1>. USE DEF SchemaChange
<1>1. Mapped' = Mapped /\ LogIds' = LogIds
  BY ModeStays DEF LogIds
<1>2. created \in Nat /\ created' \in Nat /\ created <= created'
  BY DEF SchemaInv
<1>3. \A x \in f.cols : x.of \in 1 .. created /\ x.of # created + 1
  BY <1>2 DEF FileInv, FileTyped
<1>4. \A d \in Columns' : d.part \/ d.notnull => \E c \in Columns : Same(c, d)
  BY DEF IsNew
<1>5. FileTyped(f)'
  <2>1. 1 .. created \subseteq 1 .. created'
    BY <1>2
  <2>. QED
    BY <2>1 DEF FileInv, FileTyped
<1>6. \A d \in Columns' : d.notnull => d.of \notin f.nulls
  BY <1>4 DEF FileInv, Same
<1>7. ASSUME Keyed(f) PROVE Keyed(f)'
  <2>1. CASE ~Mapped
    BY <1>1, <1>7, <2>1 DEF Keyed
  <2>2. CASE Mapped
    <3>1. \A x \in f.cols : x.name \in PhysicalNames(x.of)
      BY <1>7, <2>2 DEF Keyed
    <3>2. ASSUME NEW x \in f.cols, NEW d \in Columns'
          PROVE  x.name = d.physical <=> x.of = d.of
      <4>1. CASE \E c \in Columns : Same(c, d)
        BY <1>7, <2>2, <4>1 DEF Keyed, Same
      <4>2. CASE IsNew(d)
        <5>1. d.of = created + 1 /\ d.of \in 1 .. MaxColumns /\ d.physical = FreshPhysicalName[d.of]
          BY <1>2, <2>2, <4>2 DEF IsNew
        <5>2. x.of \in 1 .. MaxColumns /\ x.of # d.of
          BY <1>2, <1>3, <5>1
        <5>3. x.name # d.physical
          BY <3>1, <5>1, <5>2 DEF PhysicalNames
        <5>. QED
          BY <5>2, <5>3
      <4>. QED
        BY <4>1, <4>2
    <3>3. \A x \in f.cols : x.name \in PhysicalNames(x.of)'
      BY <3>1 DEF PhysicalNames
    <3>. QED
      BY <1>1, <2>2, <3>2, <3>3 DEF Keyed
  <2>. QED
    BY <2>1, <2>2
<1>8. ASSUME Identified(f) PROVE Identified(f)'
  BY <1>1, <1>8 DEF Identified
<1>9. ASSUME Partitioned(f) PROVE Partitioned(f)'
  <2>. SUFFICES ASSUME NEW d \in Columns', d.part
                PROVE  /\ \E p \in f.parts : p.of = d.of
                       /\ \A p \in f.parts : p.name = KernelName(d)' <=> p.of = d.of
    BY DEF Partitioned, Partitions
  <2>1. PICK c \in Columns : Same(c, d)
    BY <1>4
  <2>2. c \in Partitions /\ c.of = d.of
    BY <2>1 DEF Partitions, Same
  <2>3. KernelName(c) = Key(c)
    BY Keys
  <2>4. KernelName(d)' = Key(d)'
    BY DEF SchemaInv, KernelName, Key, Mapped, ReadColumnMappingMode
  <2>5. Key(d)' = Key(c)
    <3>1. CASE Mapped
      BY <1>1, <2>1, <3>1 DEF Key, Same
    <3>2. CASE ~Mapped
      <4>1. c \in Columns' /\ \A e \in Columns' : e.of = d.of => e = d
        BY <3>2 DEF Columns, Positions
      <4>. QED
        BY <1>1, <2>2, <3>2, <4>1 DEF Key
    <3>. QED
      BY <3>1, <3>2
  <2>. QED
    BY <1>9, <2>2, <2>3, <2>4, <2>5 DEF Partitioned
<1>10. ASSUME Unidentified(f) PROVE Unidentified(f)'
  BY <1>1, <1>3, <1>4, <1>10 DEF Unidentified, Same, IsNew
<1>11. Partitions = {} => Partitions' = {}
  BY <1>4 DEF Partitions, Same
<1>. QED
  BY <1>5, <1>6, <1>7, <1>8, <1>9, <1>10, <1>11 DEF FileInv

LEMMA AddColumnChange ==
  ASSUME SchemaInv, NEW name \in Name, NEW at_front \in BOOLEAN, AddColumn(name, at_front)
  PROVE  SchemaChange
<1>. DEFINE n == NewColumn(name)
<1>1. /\ UNCHANGED <<protocol, property, nested_ids>>
      /\ created' = created + 1 /\ created' <= MaxColumns /\ created \in Nat
      /\ name \notin {c.name : c \in Columns}
      /\ schema' = IF at_front THEN <<n>> \o schema ELSE Append(schema, n)
  BY DEF AddColumn, FreeNames, SchemaInv
<1>2. /\ n.of = created + 1 /\ n.name = name /\ ~n.part /\ ~n.notnull
      /\ Mapped => n.physical = FreshPhysicalName[n.of] /\ n.id = n.of
  BY DEF NewColumn
<1>3. n \in Column
  <2>1. created + 1 \in 1 .. MaxColumns /\ created + 1 \in Nat /\ created + 1 \in Int /\ NoId \in Int
    BY <1>1 DEF NoId
  <2>. QED
    BY <2>1 DEF NewColumn, Column
<1>. HIDE DEF n
<1>4. schema \in Seq(Column) /\ \A i \in DOMAIN schema : schema[i].of # n.of /\ schema[i].name # n.name
  <2>1. \A c \in Columns : c.of # n.of /\ c.name # n.name
    BY <1>1, <1>2, ColumnFacts
  <2>. QED
    BY <2>1, ColumnFacts DEF SchemaInv
<1>5. /\ schema' \in Seq(Column)
      /\ Columns' = Columns \cup {n}
      /\ Positions'
  <2>1. CASE at_front
    <3>1. /\ schema' \in Seq(Column) /\ Len(schema') = Len(schema) + 1 /\ schema'[1] = n
          /\ \A i \in DOMAIN schema : schema'[i + 1] = schema[i]
      BY <1>1, <1>3, <1>4, <2>1
    <3>2. \A i \in DOMAIN schema' : i = 1 \/ (i - 1 \in DOMAIN schema /\ schema'[i] = schema[i - 1])
      BY <1>4, <3>1
    <3>3. \A i \in DOMAIN schema : i + 1 \in DOMAIN schema'
      BY <1>4, <3>1
    <3>4. Columns' = Columns \cup {n}
      <4>1. \A d \in Columns' : d \in Columns \cup {n}
        BY <3>1, <3>2 DEF Columns
      <4>2. n \in Columns' /\ Columns \subseteq Columns'
        BY <3>1, <3>3 DEF Columns
      <4>. QED
        BY <4>1, <4>2
    <3>5. Positions'
      <4>1. SUFFICES ASSUME NEW i \in DOMAIN schema', NEW j \in DOMAIN schema',
                            schema'[i].of = schema'[j].of \/ schema'[i].name = schema'[j].name
                     PROVE  i = j
        BY DEF Positions
      <4>2. CASE i = 1 \/ j = 1
        BY <1>4, <3>1, <3>2, <4>1, <4>2
      <4>3. CASE i # 1 /\ j # 1
        <5>1. i - 1 = j - 1
          BY <3>2, <4>1, <4>3 DEF SchemaInv, Positions
        <5>. QED
          BY <3>1, <5>1
      <4>. QED
        BY <4>2, <4>3
    <3>. QED
      BY <3>1, <3>4, <3>5
  <2>2. CASE ~at_front
    <3>1. /\ schema' \in Seq(Column) /\ Len(schema') = Len(schema) + 1
          /\ schema'[Len(schema) + 1] = n
          /\ \A i \in DOMAIN schema : schema'[i] = schema[i]
      BY <1>1, <1>3, <1>4, <2>2
    <3>2. \A i \in DOMAIN schema' : i = Len(schema) + 1 \/ i \in DOMAIN schema
      BY <1>4, <3>1
    <3>3. \A i \in DOMAIN schema \cup {Len(schema) + 1} : i \in DOMAIN schema'
      BY <1>4, <3>1
    <3>4. Columns' = Columns \cup {n}
      <4>1. \A d \in Columns' : d \in Columns \cup {n}
        BY <3>1, <3>2 DEF Columns
      <4>2. n \in Columns' /\ Columns \subseteq Columns'
        BY <3>1, <3>3 DEF Columns
      <4>. QED
        BY <4>1, <4>2
    <3>5. Positions'
      BY <1>4, <3>1, <3>2 DEF SchemaInv, Positions
    <3>. QED
      BY <3>1, <3>4, <3>5
  <2>. QED
    BY <2>1, <2>2
<1>6. \A d \in Columns' : (\E c \in Columns : Same(c, d)) \/ IsNew(d)
  BY <1>1, <1>2, <1>5 DEF Same, IsNew
<1>7. \E c \in Columns' : ~c.part
  BY <1>5 DEF SchemaInv
<1>. QED
  BY <1>1, <1>5, <1>6, <1>7 DEF SchemaChange

LEMMA RenameColumnChange ==
  ASSUME SchemaInv, NEW i \in DOMAIN schema, NEW name \in Name, RenameColumn(i, name)
  PROVE  SchemaChange
<1>1. /\ UNCHANGED <<protocol, property, nested_ids, created>> /\ Mapped
      /\ name \notin {c.name : c \in Columns}
      /\ schema' = [schema EXCEPT ![i].name = name]
      /\ created <= MaxColumns
  BY DEF RenameColumn, FreeNames, SchemaInv
<1>2. /\ schema \in Seq(Column)
      /\ \A j \in DOMAIN schema : schema[j] \in Column /\ schema[j] \in Columns /\ schema[j].name # name
  BY <1>1, ColumnFacts DEF SchemaInv
<1>3. /\ DOMAIN schema' = DOMAIN schema
      /\ schema'[i] = [schema[i] EXCEPT !.name = name]
      /\ \A j \in DOMAIN schema \ {i} : schema'[j] = schema[j]
  BY <1>1, <1>2
<1>4. schema'[i] \in Column /\ schema'[i].name = name /\ Same(schema[i], schema'[i])
  BY <1>2, <1>3 DEF Column, Same
<1>5. schema' \in Seq(Column)
  <2>1. \A j \in DOMAIN schema' : schema'[j] \in Column
    BY <1>2, <1>3, <1>4
  <2>2. schema' \in [1 .. Len(schema) -> Column] /\ Len(schema) \in Nat
    BY <1>1, <1>2, <1>3, <2>1
  <2>. QED
    BY <2>2
<1>6. \A j \in DOMAIN schema' : Same(schema[j], schema'[j]) /\ (j # i => schema'[j].name = schema[j].name)
  BY <1>3, <1>4 DEF Same
<1>7. Positions'
  <2>1. SUFFICES ASSUME NEW j \in DOMAIN schema', NEW k \in DOMAIN schema',
                        schema'[j].of = schema'[k].of \/ schema'[j].name = schema'[k].name
                 PROVE  j = k
    BY DEF Positions
  <2>2. j \in DOMAIN schema /\ k \in DOMAIN schema
    BY <1>3
  <2>3. CASE schema'[j].of = schema'[k].of
    <3>1. schema[j].of = schema[k].of
      BY <1>6, <2>3 DEF Same
    <3>. QED
      BY <2>2, <3>1 DEF SchemaInv, Positions
  <2>4. CASE schema'[j].name = schema'[k].name
    <3>1. (j = i /\ k = i) \/ (j # i /\ k # i)
      BY <1>2, <1>4, <1>6, <2>2, <2>4
    <3>2. j # i /\ k # i => schema[j].name = schema[k].name
      BY <1>6, <2>4
    <3>. QED
      BY <2>2, <3>1, <3>2 DEF SchemaInv, Positions
  <2>. QED
    BY <2>1, <2>3, <2>4
<1>8. \A d \in Columns' : \E c \in Columns : Same(c, d)
  BY <1>2, <1>3, <1>6 DEF Columns
<1>9. \E d \in Columns' : ~d.part
  <2>1. PICK c \in Columns : ~c.part
    BY DEF SchemaInv
  <2>2. PICK j \in DOMAIN schema : c = schema[j]
    BY DEF Columns
  <2>3. schema'[j] \in Columns'
    BY <1>3 DEF Columns
  <2>. QED
    BY <1>3, <1>6, <2>1, <2>2, <2>3 DEF Same
<1>. QED
  BY <1>1, <1>5, <1>7, <1>8, <1>9 DEF SchemaChange

LEMMA SecondPart ==
  ASSUME NEW S, NEW s \in Seq(S), NEW t \in Seq(S), NEW j \in (Len(s) + 1) .. (Len(s) + Len(t))
  PROVE  (s \o t)[j] = t[j - Len(s)]
  OBVIOUS

LEMMA DropColumnChange ==
  ASSUME SchemaInv, NEW i \in DOMAIN schema, DropColumn(i)
  PROVE  SchemaChange
<1>1. /\ UNCHANGED <<protocol, property, nested_ids, created>> /\ Mapped
      /\ schema' = SubSeq(schema, 1, i - 1) \o SubSeq(schema, i + 1, Len(schema))
      /\ created <= MaxColumns
  BY DEF DropColumn, SchemaInv
<1>2. schema \in Seq(Column) /\ i \in 1 .. Len(schema) /\ Len(schema) \in Nat
  BY DEF SchemaInv
<1>. DEFINE at(j) == IF j < i THEN j ELSE j + 1
<1>3. /\ schema' \in Seq(Column) /\ Len(schema') = Len(schema) - 1
      /\ \A j \in 1 .. (Len(schema) - 1) : schema'[j] = schema[at(j)] /\ at(j) \in DOMAIN schema
  <2>. DEFINE A == SubSeq(schema, 1, i - 1)
              B == SubSeq(schema, i + 1, Len(schema))
  <2>1. /\ A \in Seq(Column) /\ Len(A) = i - 1
        /\ \A j \in 1 .. (i - 1) : A[j] = schema[j]
    BY <1>2
  <2>2. /\ B \in Seq(Column) /\ Len(B) = Len(schema) - i
        /\ \A j \in 1 .. (Len(schema) - i) : B[j] = schema[j + i]
    BY <1>2
  <2>3. schema' = A \o B
    BY <1>1
  <2>. HIDE DEF A, B
  <2>4. schema' \in Seq(Column) /\ Len(schema') = Len(schema) - 1
    BY <1>2, <2>1, <2>2, <2>3
  <2>5. ASSUME NEW j \in 1 .. (Len(schema) - 1) PROVE schema'[j] = schema[at(j)] /\ at(j) \in DOMAIN schema
    <3>1. CASE j < i
      BY <1>2, <2>1, <2>2, <2>3, <3>1
    <3>2. CASE ~(j < i)
      <4>1. j - (i - 1) \in 1 .. (Len(schema) - i) /\ (j - (i - 1)) + i = j + 1
        BY <1>2, <3>2
      <4>2. (A \o B)[j] = B[j - (i - 1)]
        <5>1. j \in (Len(A) + 1) .. (Len(A) + Len(B)) /\ Len(A) \in Nat /\ Len(B) \in Nat
          BY <1>2, <2>1, <2>2, <3>2
        <5>2. (A \o B)[j] = B[j - Len(A)]
          <6>1. A \in Seq(Column) /\ B \in Seq(Column)
            BY <2>1, <2>2
          <6>. QED
            BY <5>1, <6>1, SecondPart
        <5>. QED
          BY <2>1, <5>2
      <4>3. B[j - (i - 1)] = schema[j + 1]
        BY <2>2, <4>1
      <4>. QED
        BY <1>2, <2>3, <3>2, <4>2, <4>3
    <3>. QED
      BY <3>1, <3>2
  <2>. QED
    BY <2>4, <2>5
<1>4. DOMAIN schema' = 1 .. (Len(schema) - 1)
  BY <1>3
<1>5. Positions'
  <2>1. SUFFICES ASSUME NEW j \in DOMAIN schema', NEW k \in DOMAIN schema',
                        schema'[j].of = schema'[k].of \/ schema'[j].name = schema'[k].name
                 PROVE  j = k
    BY DEF Positions
  <2>2. at(j) = at(k)
    <3>. HIDE DEF at
    <3>1. /\ at(j) \in DOMAIN schema /\ schema'[j] = schema[at(j)]
          /\ at(k) \in DOMAIN schema /\ schema'[k] = schema[at(k)]
      BY <1>3, <1>4
    <3>. QED
      BY <2>1, <3>1 DEF SchemaInv, Positions
  <2>. QED
    BY <1>2, <1>4, <2>2
<1>6. \A d \in Columns' : d \in Columns
  <2>. HIDE DEF at
  <2>. QED
    BY <1>3, <1>4 DEF Columns
<1>7. \E d \in Columns' : ~d.part
  <2>1. PICK c \in Columns \ {schema[i]} : ~c.part
    BY DEF DropColumn
  <2>2. PICK j \in DOMAIN schema : c = schema[j] /\ j # i
    BY <2>1 DEF Columns
  <2>. DEFINE k == IF j < i THEN j ELSE j - 1
  <2>3. k \in 1 .. (Len(schema) - 1) /\ at(k) = j
    BY <1>2, <2>2
  <2>4. c = schema'[k] /\ k \in DOMAIN schema'
    BY <1>3, <1>4, <2>2, <2>3
  <2>. QED
    BY <2>1, <2>4 DEF Columns
<1>. QED
  BY <1>1, <1>3, <1>5, <1>6, <1>7 DEF SchemaChange, Same

LEMMA NoChange ==
  ASSUME SchemaInv, UNCHANGED <<protocol, property, nested_ids, schema, created>>
  PROVE  SchemaChange
<1>1. Columns' = Columns /\ Positions'
  BY DEF Columns, Positions, SchemaInv
<1>. QED
  BY <1>1 DEF SchemaInv, SchemaChange, Same

\* Names become physical names: every file has them.
LEMMA EnableNameMappingInv ==
  ASSUME SchemaInv, EnableNameMapping
  PROVE  SchemaInv' /\ \A f : FileInv(f) => FileInv(f)'
<1>. DEFINE m(c) == [c EXCEPT !.physical = c.name, !.id = c.of]
<1>1. /\ property = "none" /\ ~Mapped /\ property' = "name" /\ Mapped'
      /\ UNCHANGED <<nested_ids, created>>
      /\ schema' = [i \in DOMAIN schema |-> m(schema[i])]
  BY DEF EnableNameMapping, Mapped, ReadColumnMappingMode, HasColumnMappingFeature
<1>2. \A i \in DOMAIN schema : schema[i] \in Column /\ schema[i].of \in 1 .. created
  BY ColumnFacts
<1>3. \A i \in DOMAIN schema :
        /\ m(schema[i]) \in Column
        /\ m(schema[i]).of = schema[i].of /\ m(schema[i]).name = schema[i].name
        /\ m(schema[i]).physical = schema[i].name /\ m(schema[i]).id = schema[i].of
        /\ m(schema[i]).part = schema[i].part /\ m(schema[i]).notnull = schema[i].notnull
  <2>1. ASSUME NEW c \in Column
        PROVE  /\ m(c) \in Column /\ m(c).of = c.of /\ m(c).name = c.name
               /\ m(c).physical = c.name /\ m(c).id = c.of
               /\ m(c).part = c.part /\ m(c).notnull = c.notnull
    <3>. DEFINE e == [c EXCEPT !.physical = c.name]
    <3>1. /\ e \in Column /\ e.of = c.of /\ e.name = c.name /\ e.physical = c.name
          /\ e.part = c.part /\ e.notnull = c.notnull
      BY DEF Column
    <3>2. m(c) = [e EXCEPT !.id = e.of]
      BY DEF Column
    <3>. HIDE DEF e, m
    <3>. QED
      BY <3>1, <3>2 DEF Column
  <2>. HIDE DEF m
  <2>. QED
    BY <1>2, <2>1
<1>. HIDE DEF m
<1>4. /\ DOMAIN schema' = DOMAIN schema
      /\ \A i \in DOMAIN schema :
           /\ schema'[i] \in Column
           /\ schema'[i].of = schema[i].of /\ schema'[i].name = schema[i].name
           /\ schema'[i].physical = schema[i].name /\ schema'[i].id = schema[i].of
           /\ schema'[i].part = schema[i].part /\ schema'[i].notnull = schema[i].notnull
  BY <1>1, <1>3
<1>5. schema' \in Seq(Column)
  <2>1. schema' \in [1 .. Len(schema) -> Column] /\ Len(schema) \in Nat
    BY <1>1, <1>3, ColumnFacts
  <2>. QED
    BY <2>1
<1>6. Positions'
  BY <1>4 DEF Positions, SchemaInv
<1>7. \A d \in Columns' : \E c \in Columns :
        /\ d.of = c.of /\ d.name = c.name /\ d.physical = c.name /\ d.id = c.of
        /\ d.part = c.part /\ d.notnull = c.notnull
  BY <1>4 DEF Columns
<1>8. \E d \in Columns' : ~d.part
  <2>1. PICK i \in DOMAIN schema : ~schema[i].part
    BY DEF SchemaInv, Columns
  <2>2. schema'[i] \in Columns'
    BY <1>4 DEF Columns
  <2>. QED
    BY <1>4, <2>1, <2>2
<1>9. MappedColumns'
  <2>1. \A d \in Columns' : d.id = d.of /\ d.physical \in PhysicalNames(d.of)
    BY <1>7, ColumnFacts DEF PhysicalNames, Column
  <2>2. \A d, e \in Columns' : d.name = e.name => d = e
    BY <1>6 DEF Columns, Positions
  <2>3. \A d, e \in Columns' : d.physical = e.physical => d = e
    BY <1>7, <2>2
  <2>. QED
    BY <1>1, <2>1, <2>3 DEF MappedColumns
<1>10. SchemaInv'
  <2>1. \A d \in Columns' : d.of \in 1 .. created'
    BY <1>1, <1>7, ColumnFacts
  <2>. QED
    BY <1>1, <1>5, <1>6, <1>8, <1>9, <2>1 DEF SchemaInv
<1>11. ASSUME NEW f, FileInv(f) PROVE FileInv(f)'
  <2>1. FileTyped(f)'
    BY <1>1, <1>11 DEF FileInv, FileTyped
  <2>2. \A d \in Columns' : d.notnull => d.of \notin f.nulls
    BY <1>7, <1>11 DEF FileInv
  <2>3. f.by \notin {"physical", "legacy"}
    BY <1>1, <1>11 DEF FileInv, Unidentified
  <2>4. ASSUME Keyed(f) PROVE Keyed(f)'
    <3>1. ASSUME NEW x \in f.cols
          PROVE  x.name \in PhysicalNames(x.of) /\ \A d \in Columns' : x.name = d.physical <=> x.of = d.of
      <4>1. PICK c \in Columns : c.of = x.of /\ c.name = x.name
        BY <1>1, <2>4 DEF Keyed
      <4>2. c.name \in Name /\ \A e \in Columns : c.of = e.of <=> c.name = e.name
        BY ColumnFacts DEF Column
      <4>. QED
        BY <1>7, <4>1, <4>2 DEF PhysicalNames
    <3>. QED
      BY <1>1, <3>1 DEF Keyed, PhysicalNames
  <2>5. Identified(f)'
    BY <1>1 DEF Identified
  <2>6. ASSUME Partitioned(f) PROVE Partitioned(f)'
    <3>. SUFFICES ASSUME NEW d \in Columns', d.part
                  PROVE  /\ \E p \in f.parts : p.of = d.of
                         /\ \A p \in f.parts : p.name = KernelName(d)' <=> p.of = d.of
      BY DEF Partitioned, Partitions
    <3>1. PICK c \in Columns : d.of = c.of /\ d.physical = c.name /\ d.part = c.part
      BY <1>7
    <3>2. c \in Partitions
      BY <3>1 DEF Partitions
    <3>3. KernelName(c) = c.name
      BY <1>1 DEF KernelName
    <3>4. KernelName(d)' = d.physical
      BY <1>1 DEF KernelName, Mapped, ReadColumnMappingMode
    <3>. QED
      BY <2>6, <3>1, <3>2, <3>3, <3>4 DEF Partitioned
  <2>. QED
    BY <1>11, <2>1, <2>2, <2>3, <2>4, <2>5, <2>6 DEF FileInv
<1>. QED
  BY <1>10, <1>11

-----------------------------------------------------------------------------
(* New files.                                                              *)

LEMMA IdsTyped ==
  ASSUME nested_ids \in BOOLEAN
  PROVE  LogIds \in [Entries -> Nat \cup {NoId}] /\ [entry \in Entries |-> NoId] \in [Entries -> Nat \cup {NoId}]
<1>1. \A e \in Entries : NestedId(e) \in Nat
  BY DEF NestedId
<1>. QED
  BY <1>1 DEF LogIds

\* A file that has the columns under the keys of the table.
LEMMA KeyedByKey ==
  ASSUME SchemaInv, NEW f, \A x \in f.cols : \E c \in Columns : x.of = c.of /\ x.name = Key(c)
  PROVE  Keyed(f)
<1>1. CASE ~Mapped
  BY <1>1 DEF Keyed, Key
<1>2. CASE Mapped
  <2>. SUFFICES ASSUME NEW x \in f.cols
                PROVE  /\ x.name \in PhysicalNames(x.of)
                       /\ \A d \in Columns : x.name = d.physical <=> x.of = d.of
    BY <1>2 DEF Keyed
  <2>1. PICK c \in Columns : x.of = c.of /\ x.name = c.physical
    BY <1>2 DEF Key
  <2>2. c.physical \in PhysicalNames(c.of) /\ \A d \in Columns : c.physical = d.physical => c = d
    BY <1>2 DEF SchemaInv, MappedColumns
  <2>3. \A d \in Columns : c.of = d.of => c = d
    BY ColumnFacts
  <2>. QED
    BY <2>1, <2>2, <2>3
<1>. QED
  BY <1>1, <1>2

LEMMA PartitionedByKey ==
  ASSUME SchemaInv, NEW f,
         \A p \in f.parts : \E c \in Partitions : p.of = c.of /\ p.name = Key(c),
         \A c \in Partitions : \E p \in f.parts : p.of = c.of
  PROVE  Partitioned(f)
<1>. SUFFICES ASSUME NEW c \in Partitions, NEW p \in f.parts
              PROVE  p.name = KernelName(c) <=> p.of = c.of
  BY DEF Partitioned
<1>1. Partitions \subseteq Columns
  BY DEF Partitions
<1>2. PICK d \in Partitions : p.of = d.of /\ p.name = Key(d)
  OBVIOUS
<1>3. Key(c) = Key(d) <=> c = d
  BY <1>1, <1>2, KeysDiffer
<1>4. c.of = d.of <=> c = d
  BY <1>1, <1>2, ColumnFacts
<1>5. KernelName(c) = Key(c)
  BY <1>1, Keys
<1>. QED
  BY <1>2, <1>3, <1>4, <1>5

LEMMA InsertedFile ==
  ASSUME SchemaInv, NEW nulls, AcceptsStatistics(nulls), NEW f,
         f = [cols |-> {FileColumn(c, CopyName(c), FieldIdTree(c).id, FieldIdTree(c).entries) :
                          c \in Columns},
              parts |-> {[name |-> CopyName(c), of |-> c.of] : c \in Partitions},
              nulls |-> nulls, by |-> "insert"]
  PROVE  FileInv(f)
<1>1. /\ f.cols = {FileColumn(c, CopyName(c), FieldIdTree(c).id, FieldIdTree(c).entries) : c \in Columns}
      /\ f.parts = {[name |-> CopyName(c), of |-> c.of] : c \in Partitions}
      /\ f.nulls = nulls /\ f.by = "insert"
  OBVIOUS
<1>2. ColumnMapped <=> Mapped
  BY PhysicalFacts DEF ColumnMapped
<1>3. \A x \in f.cols : \E c \in Columns :
        /\ x.of = c.of /\ x.name = Key(c)
        /\ x.id = IF Mapped THEN c.id ELSE NoId
        /\ x.entries = IF Mapped /\ c.of = 1 THEN LogIds ELSE [entry \in Entries |-> NoId]
  BY <1>1, <1>2, Keys DEF FileColumn, FieldIdTree
<1>4. FileTyped(f)
  <2>. SUFFICES ASSUME NEW x \in f.cols
                PROVE  /\ x.of \in 1 .. created /\ x.name # NoName /\ x.id \in 1 .. created \cup {NoId}
                       /\ x.entries \in [Entries -> Nat \cup {NoId}]
    BY DEF FileTyped
  <2>1. PICK c \in Columns :
          /\ x.of = c.of /\ x.name = Key(c)
          /\ x.id = IF Mapped THEN c.id ELSE NoId
          /\ x.entries = IF Mapped /\ c.of = 1 THEN LogIds ELSE [entry \in Entries |-> NoId]
    BY <1>3
  <2>2. x.of \in 1 .. created /\ x.id \in 1 .. created \cup {NoId} /\ x.name # NoName
    BY <2>1, ColumnFacts, PhysicalFacts, Keys
  <2>3. x.entries \in [Entries -> Nat \cup {NoId}]
    BY <2>1, IdsTyped DEF SchemaInv
  <2>. QED
    BY <2>2, <2>3
<1>5. \A c \in Columns : c.notnull => c.of \notin nulls
  BY Accepts
<1>6. Keyed(f)
  BY <1>3, KeyedByKey
<1>7. Identified(f)
  BY <1>3, PhysicalFacts DEF Identified
<1>8. Partitioned(f)
  <2>1. Partitions \subseteq Columns
    BY DEF Partitions
  <2>2. \A p \in f.parts : \E c \in Partitions : p.of = c.of /\ p.name = Key(c)
    BY <1>1, <2>1, Keys
  <2>3. \A c \in Partitions : \E p \in f.parts : p.of = c.of
    <3>1. \A c \in Partitions : [name |-> CopyName(c), of |-> c.of] \in f.parts
      BY <1>1
    <3>. QED
      BY <3>1
  <2>. QED
    BY <2>2, <2>3, PartitionedByKey
<1>. QED
  BY <1>1, <1>4, <1>5, <1>6, <1>7, <1>8 DEF FileInv

LEMMA OthersFile ==
  ASSUME SchemaInv, NEW by \in {"other", "physical", "legacy"}, NEW with_ids \in BOOLEAN,
         OtherWriter(by, with_ids), NEW f,
         f = [cols |-> {FileColumn(c, IF by = "legacy" THEN c.name ELSE KernelName(c),
                                   IF with_ids THEN c.id ELSE NoId,
                                   IF with_ids /\ c.of = 1 THEN LogIds
                                   ELSE [entry \in Entries |-> NoId]) :
                          c \in Columns \ Partitions},
              parts |-> {[name |-> KernelName(c), of |-> c.of] : c \in Partitions},
              nulls |-> {}, by |-> by]
  PROVE  FileInv(f)
<1>1. /\ f.cols = {FileColumn(c, IF by = "legacy" THEN c.name ELSE KernelName(c),
                              IF with_ids THEN c.id ELSE NoId,
                              IF with_ids /\ c.of = 1 THEN LogIds
                              ELSE [entry \in Entries |-> NoId]) : c \in Columns \ Partitions}
      /\ f.parts = {[name |-> KernelName(c), of |-> c.of] : c \in Partitions}
      /\ f.nulls = {} /\ f.by = by
  OBVIOUS
<1>2. /\ by \in {"physical", "legacy"} => Mapped /\ property = "id" /\ ~with_ids
      /\ by = "legacy" => Partitions = {}
      /\ by = "other" /\ Mapped /\ property = "id" => with_ids
      /\ by = "other" /\ ~Mapped => ~with_ids
  BY Modes DEF OtherWriter
<1>3. \A x \in f.cols : \E c \in Columns \ Partitions :
        /\ x.of = c.of /\ x.name = IF by = "legacy" THEN c.name ELSE Key(c)
        /\ x.id = IF with_ids THEN c.id ELSE NoId
        /\ x.entries = IF with_ids /\ c.of = 1 THEN LogIds ELSE [entry \in Entries |-> NoId]
  BY <1>1, Keys DEF FileColumn
<1>4. FileTyped(f)
  <2>. SUFFICES ASSUME NEW x \in f.cols
                PROVE  /\ x.of \in 1 .. created /\ x.name # NoName /\ x.id \in 1 .. created \cup {NoId}
                       /\ x.entries \in [Entries -> Nat \cup {NoId}]
    BY DEF FileTyped
  <2>1. PICK c \in Columns :
          /\ x.of = c.of /\ x.name = IF by = "legacy" THEN c.name ELSE Key(c)
          /\ x.id = IF with_ids THEN c.id ELSE NoId
          /\ x.entries = IF with_ids /\ c.of = 1 THEN LogIds ELSE [entry \in Entries |-> NoId]
    BY <1>3
  <2>2. x.of \in 1 .. created /\ x.id \in 1 .. created \cup {NoId} /\ x.name # NoName
    <3>1. with_ids => Mapped
      BY <1>2
    <3>. QED
      BY <2>1, <3>1, ColumnFacts, PhysicalFacts, Keys
  <2>3. x.entries \in [Entries -> Nat \cup {NoId}]
    BY <2>1, IdsTyped DEF SchemaInv
  <2>. QED
    BY <2>2, <2>3
<1>5. by # "legacy" => Keyed(f)
  BY <1>3, KeyedByKey
<1>6. by = "other" => Identified(f)
  BY <1>2, <1>3, PhysicalFacts DEF Identified
<1>7. by = "other" => Partitioned(f)
  <2>1. Partitions \subseteq Columns
    BY DEF Partitions
  <2>2. \A p \in f.parts : \E c \in Partitions : p.of = c.of /\ p.name = Key(c)
    BY <1>1, <2>1, Keys
  <2>3. \A c \in Partitions : \E p \in f.parts : p.of = c.of
    <3>1. \A c \in Partitions : [name |-> KernelName(c), of |-> c.of] \in f.parts
      BY <1>1
    <3>. QED
      BY <3>1
  <2>. QED
    BY <2>2, <2>3, PartitionedByKey
<1>8. by \in {"physical", "legacy"} => Unidentified(f)
  <2>1. f.cols # {}
    <3>1. PICK c \in Columns : ~c.part
      BY DEF SchemaInv
    <3>2. c \in Columns \ Partitions
      BY <3>1 DEF Partitions
    <3>. QED
      BY <1>1, <3>2
  <2>2. \A x \in f.cols : \A c \in Columns : x.of = c.of => ~c.part
    BY <1>3, ColumnFacts DEF Partitions
  <2>. QED
    BY <1>2, <1>3, <2>1, <2>2 DEF Unidentified
<1>9. by = "physical" => \A x \in f.cols : x.name = FreshPhysicalName[x.of]
  BY <1>2, <1>3 DEF SchemaInv, MappedColumns, Key
<1>10. by = "legacy" => /\ \A x \in f.cols : x.name \in Name
                        /\ \A x, y \in f.cols : x.name = y.name => x.of = y.of
  <2>1. \A c \in Columns : c.name \in Name
    BY ColumnFacts DEF Column
  <2>. QED
    BY <1>3, <2>1, ColumnFacts
<1>. QED
  BY <1>1, <1>2, <1>4, <1>5, <1>6, <1>7, <1>8, <1>9, <1>10 DEF FileInv

-----------------------------------------------------------------------------
(* The invariant is inductive.                                             *)

LEMMA InitSchema ==
  ASSUME Init
  PROVE  SchemaInv
<1>. DEFINE col(of, part, notnull) ==
              [of |-> of, name |-> InitialName[of],
               physical |-> IF property = "none" THEN NoName ELSE FreshPhysicalName[of],
               id |-> IF property = "none" THEN NoId ELSE of,
               part |-> of \in part, notnull |-> of \in notnull]
<1>1. PICK order \in {<<1, 2, 3>>, <<2, 1, 3>>, <<2, 3, 1>>}, part \in SUBSET {2, 3}, notnull \in {{}, {3}} :
        schema = [i \in 1 .. 3 |-> col(order[i], part, notnull)]
  BY DEF Init
<1>2. /\ \A i \in 1 .. 3 : order[i] \in 1 .. 3
      /\ \A i, j \in 1 .. 3 : order[i] = order[j] => i = j
      /\ \E i \in 1 .. 3 : order[i] = 1
  <2>1. CASE order = <<1, 2, 3>>
    BY <2>1
  <2>2. CASE order = <<2, 1, 3>>
    BY <2>2
  <2>3. CASE order = <<2, 3, 1>>
    BY <2>3
  <2>. QED
    BY <2>1, <2>2, <2>3
<1>3. /\ \A m \in 1 .. 3 : InitialName[m] \in Name
      /\ \A m, n \in 1 .. 3 : InitialName[m] = InitialName[n] => m = n
  BY DEF InitialName
<1>4. \A m \in 1 .. 3 : /\ col(m, part, notnull) \in Column
                        /\ col(m, part, notnull).of = m
                        /\ col(m, part, notnull).name = InitialName[m]
                        /\ property # "none" => /\ col(m, part, notnull).id = m
                                                /\ col(m, part, notnull).physical = FreshPhysicalName[m]
                        /\ col(m, part, notnull).part = (m \in part)
  <2>1. \A m \in 1 .. 3 : m \in Nat /\ m \in Int /\ m \in 1 .. MaxColumns
    OBVIOUS
  <2>2. NoId \in Int
    BY DEF NoId
  <2>. QED
    BY <1>3, <2>1, <2>2 DEF Column
<1>. HIDE DEF col
<1>5. /\ DOMAIN schema = 1 .. 3 /\ \A i \in 1 .. 3 : schema[i] = col(order[i], part, notnull)
  BY <1>1
<1>6. schema \in Seq(Column)
  <2>1. schema \in [1 .. 3 -> Column] /\ 3 \in Nat
    BY <1>1, <1>2, <1>4
  <2>2. ASSUME NEW n \in Nat, schema \in [1 .. n -> Column] PROVE schema \in Seq(Column)
    BY <2>2
  <2>. QED
    BY <2>1, <2>2
<1>7. Positions
  BY <1>2, <1>3, <1>4, <1>5 DEF Positions
<1>8. \A c \in Columns : \E m \in 1 .. 3 : c = col(m, part, notnull)
  BY <1>2, <1>5 DEF Columns
<1>9. \E c \in Columns : ~c.part
  <2>1. PICK i \in 1 .. 3 : order[i] = 1
    BY <1>2
  <2>2. schema[i] \in Columns /\ schema[i] = col(1, part, notnull)
    BY <1>5, <2>1 DEF Columns
  <2>3. 1 \notin part /\ 1 \in 1 .. 3
    BY <1>1
  <2>4. ~schema[i].part
    BY <1>4, <2>2, <2>3
  <2>. QED
    BY <2>2, <2>4
<1>10. created = 3 /\ created \in 3 .. MaxColumns /\ property \in {"none", "name", "id"} /\ nested_ids \in BOOLEAN
  BY DEF Init
<1>11. \A c \in Columns : c.of \in 1 .. created
  BY <1>4, <1>8, <1>10
<1>12. ASSUME Mapped PROVE MappedColumns
  <2>1. property # "none"
    BY <1>12 DEF Mapped, ReadColumnMappingMode
  <2>2. \A c \in Columns : c.of \in 1 .. 3 /\ c.id = c.of /\ c.physical = FreshPhysicalName[c.of]
    BY <1>4, <1>8, <2>1
  <2>3. \A c, d \in Columns : c.of = d.of => c = d
    BY <1>4, <1>8
  <2>4. \A c, d \in Columns : c.physical = d.physical => c.of = d.of
    <3>1. \A m, n \in 1 .. 3 : FreshPhysicalName[m] = FreshPhysicalName[n] => m = n
      OBVIOUS
    <3>. QED
      BY <2>2, <3>1
  <2>. QED
    BY <2>2, <2>3, <2>4 DEF MappedColumns, PhysicalNames
<1>. QED
  BY <1>6, <1>7, <1>9, <1>10, <1>11, <1>12 DEF SchemaInv

LEMMA InitIInv == Init => IInv
<1>1. ASSUME Init PROVE IsFiniteSet(files) /\ Cardinality(files) <= MaxFiles /\ \A f \in files : FileInv(f)
  BY <1>1, FS_EmptySet DEF Init
<1>. QED
  BY <1>1, InitSchema DEF IInv

\* A step that adds a file changes nothing else.
LEMMA NewFileIInv ==
  ASSUME IInv, NEW f, FileInv(f), files' = files \cup {f}, Cardinality(files) < MaxFiles,
         UNCHANGED <<protocol, property, nested_ids, schema, created>>
  PROVE  IInv'
<1>1. SchemaInv /\ SchemaChange
  BY NoChange DEF IInv
<1>2. SchemaInv'
  BY <1>1, ChangeKeepsSchema
<1>3. \A g \in files' : FileInv(g)'
  <2>1. \A g \in files' : FileInv(g)
    BY DEF IInv
  <2>. QED
    BY <1>1, <1>2, <2>1, ChangeKeepsFiles
<1>4. IsFiniteSet(files') /\ Cardinality(files') <= MaxFiles
  <2>1. IsFiniteSet(files) /\ Cardinality(files) \in Nat
    BY FS_CardinalityType DEF IInv
  <2>2. IsFiniteSet(files \cup {f})
    BY <2>1, FS_AddElement
  <2>3. Cardinality(files \cup {f}) \in {Cardinality(files), Cardinality(files) + 1}
    BY <2>1, FS_AddElement
  <2>. QED
    BY <2>1, <2>2, <2>3
<1>. QED
  BY <1>2, <1>3, <1>4 DEF IInv

LEMMA ChangeIInv ==
  ASSUME IInv, SchemaChange, UNCHANGED files
  PROVE  IInv'
<1>1. SchemaInv' 
  BY ChangeKeepsSchema DEF IInv
<1>2. \A g \in files' : FileInv(g)'
  BY <1>1, ChangeKeepsFiles DEF IInv
<1>. QED
  BY <1>1, <1>2 DEF IInv

LEMMA StepIInv == IInv /\ [Next]_vars => IInv'
<1>. SUFFICES ASSUME IInv, [Next]_vars PROVE IInv'
  OBVIOUS
<1>. SchemaInv
  BY DEF IInv
<1>1. ASSUME NEW nulls \in {{}, {3}}, Insert(nulls) PROVE IInv'
  <2>. DEFINE f == [cols |-> {FileColumn(c, CopyName(c), FieldIdTree(c).id, FieldIdTree(c).entries) :
                                c \in Columns},
                    parts |-> {[name |-> CopyName(c), of |-> c.of] : c \in Partitions},
                    nulls |-> nulls, by |-> "insert"]
  <2>1. /\ files' = files \cup {f} /\ Cardinality(files) < MaxFiles /\ AcceptsStatistics(nulls)
        /\ UNCHANGED <<protocol, property, nested_ids, schema, created>>
    BY <1>1 DEF Insert
  <2>2. FileInv(f)
    BY <2>1, InsertedFile
  <2>. HIDE DEF f
  <2>. QED
    BY <2>1, <2>2, NewFileIInv
<1>2. ASSUME NEW by \in {"other", "physical", "legacy"}, NEW ids \in BOOLEAN, OtherWriter(by, ids)
      PROVE  IInv'
  <2>. DEFINE f == [cols |-> {FileColumn(c, IF by = "legacy" THEN c.name ELSE KernelName(c),
                                         IF ids THEN c.id ELSE NoId,
                                         IF ids /\ c.of = 1 THEN LogIds
                                         ELSE [entry \in Entries |-> NoId]) :
                                c \in Columns \ Partitions},
                    parts |-> {[name |-> KernelName(c), of |-> c.of] : c \in Partitions},
                    nulls |-> {}, by |-> by]
  <2>1. /\ files' = files \cup {f} /\ Cardinality(files) < MaxFiles
        /\ UNCHANGED <<protocol, property, nested_ids, schema, created>>
    BY <1>2 DEF OtherWriter
  <2>2. FileInv(f)
    BY <1>2, OthersFile
  <2>. HIDE DEF f
  <2>. QED
    BY <2>1, <2>2, NewFileIInv
<1>3. ASSUME NEW name \in Name, NEW at_front \in BOOLEAN, AddColumn(name, at_front) PROVE IInv'
  BY <1>3, AddColumnChange, ChangeIInv DEF AddColumn
<1>4. ASSUME NEW i \in DOMAIN schema, NEW name \in Name, RenameColumn(i, name) PROVE IInv'
  BY <1>4, RenameColumnChange, ChangeIInv DEF RenameColumn
<1>5. ASSUME NEW i \in DOMAIN schema, DropColumn(i) PROVE IInv'
  BY <1>5, DropColumnChange, ChangeIInv DEF DropColumn
<1>6. CASE EnableNameMapping
  <2>1. files' = files
    BY <1>6 DEF EnableNameMapping
  <2>2. SchemaInv' /\ \A f \in files' : FileInv(f)'
    BY <1>6, <2>1, EnableNameMappingInv DEF IInv
  <2>. QED
    BY <2>1, <2>2 DEF IInv
<1>7. CASE UNCHANGED vars
  BY <1>7, NoChange, ChangeIInv DEF vars
<1>. QED
  BY <1>1, <1>2, <1>3, <1>4, <1>5, <1>6, <1>7 DEF Next

\* What ties the columns of every file to the schema is kept by every change of the schema
\* and by every file that is written.
THEOREM Inductive == Spec => []IInv
  BY InitIInv, StepIInv, PTL DEF Spec

-----------------------------------------------------------------------------
(* The properties.                                                         *)

\* The schema and the files have their types: no file has an id that was made up for
\* reading (FillContainerChildIds).
THEOREM TypeCorrect == Spec => []TypeOK
<1>1. ASSUME IInv PROVE TypeOK
  <2>1. \A c \in Columns : c.of \in 1 .. created /\ c.name \in Name
    BY <1>1, ColumnFacts DEF IInv, Column
  <2>. QED
    BY <1>1, <2>1 DEF IInv, SchemaInv, FileInv, FileTyped, TypeOK
<1>. QED
  BY <1>1, Inductive, PTL

\* NOT NULL is enforced on the column it was declared on, under whatever name the copy
\* reports it (AddWrittenFiles).
THEOREM ConstraintsHold == Spec => []ConstraintsFollowTheirColumn
<1>1. ASSUME IInv PROVE ConstraintsFollowTheirColumn
  BY <1>1, Accepts DEF IInv, FileInv, ConstraintsFollowTheirColumn
<1>. QED
  BY <1>1, Inductive, PTL

(* The ids of the entries of column 1, a map of lists.                     *)

LEMMA EntryFacts ==
  /\ Above(<<1>>) = <<>> /\ Position(<<1>>) = 1
  /\ Above(<<2>>) = <<>> /\ Position(<<2>>) = 2
  /\ Above(<<2, 1>>) = <<2>> /\ Position(<<2, 1>>) = 1
<1>1. Len(<<1>>) = 1 /\ Len(<<2>>) = 1 /\ Len(<<2, 1>>) = 2
  OBVIOUS
<1>2. SubSeq(<<1>>, 1, 0) = <<>> /\ SubSeq(<<2>>, 1, 0) = <<>>
  OBVIOUS
<1>3. SubSeq(<<2, 1>>, 1, 1) = <<2>>
  <2>1. ASSUME NEW t \in Seq(Nat), t = <<2, 1>> PROVE SubSeq(t, 1, 1) = <<t[1]>>
    <3>1. Len(t) = 2 /\ 1 \in 1 .. 2
      BY <2>1
    <3>. DEFINE a == SubSeq(t, 1, 1)
                b == <<t[1]>>
    <3>2. a \in Seq(Nat) /\ Len(a) = 1 /\ a[1] = t[1]
      BY <3>1
    <3>3. b \in Seq(Nat) /\ Len(b) = 1 /\ b[1] = t[1]
      BY <3>1
    <3>. HIDE DEF a, b
    <3>4. \A i \in 1 .. Len(a) : a[i] = b[i]
      BY <3>2, <3>3
    <3>5. a = b
      BY <3>2, <3>3, <3>4, SeqEqual
    <3>. QED
      BY <3>5 DEF a, b
  <2>2. <<2, 1>> \in Seq(Nat) /\ <<2, 1>>[1] = 2
    OBVIOUS
  <2>. QED
    BY <2>1, <2>2
<1>. QED
  BY <1>1, <1>2, <1>3 DEF Above, Position

LEMMA EntriesDiffer ==
  /\ <<1>> # <<2>> /\ <<1>> # <<2, 1>> /\ <<2>> # <<2, 1>>
  /\ <<>> # <<1>> /\ <<>> # <<2>> /\ <<>> # <<2, 1>>
  OBVIOUS

LEMMA FilledIds ==
  ASSUME NEW ids, ids = FillContainerChildIds(1, LogIds)
  PROVE  ids[<<1>>] # ids[<<2>>] /\ \A e \in Entries : ids[e] # NoId
<1>. DEFINE S == Entries \cup {<<>>}
            Fill(h) == [entry \in S |->
                          IF entry = <<>> THEN 1
                          ELSE IF LogIds[entry] # NoId THEN LogIds[entry]
                          ELSE ContainerChildFieldId(h[Above(entry)], Position(entry))]
            g1 == IF LogIds[<<1>>] # NoId THEN LogIds[<<1>>] ELSE 1
            g2 == IF LogIds[<<2>>] # NoId THEN LogIds[<<2>>] ELSE -2
            g21 == IF LogIds[<<2, 1>>] # NoId THEN LogIds[<<2, 1>>] ELSE g2
            g == [entry \in S |-> IF entry = <<>> THEN 1
                                  ELSE IF entry = <<1>> THEN g1
                                  ELSE IF entry = <<2>> THEN g2 ELSE g21]
<1>1. S = {<<>>, <<1>>, <<2>>, <<2, 1>>}
  BY DEF Entries
<1>2. g[<<>>] = 1 /\ g[<<1>>] = g1 /\ g[<<2>>] = g2 /\ g[<<2, 1>>] = g21
  BY <1>1, EntriesDiffer, Zenon
<1>. HIDE DEF g1, g2, g21
<1>3. g = Fill(g)
  <2>1. \A e \in S : g[e] = Fill(g)[e]
    <3>. HIDE DEF g
    <3>1. Fill(g)[<<>>] = g[<<>>]
      BY <1>1, <1>2
    <3>2. Fill(g)[<<1>>] = g[<<1>>]
      BY <1>1, <1>2, EntryFacts, EntriesDiffer DEF ContainerChildFieldId, g1
    <3>3. Fill(g)[<<2>>] = g[<<2>>]
      BY <1>1, <1>2, EntryFacts, EntriesDiffer DEF ContainerChildFieldId, g2
    <3>4. Fill(g)[<<2, 1>>] = g[<<2, 1>>]
      BY <1>1, <1>2, EntryFacts, EntriesDiffer DEF ContainerChildFieldId, g21
    <3>. HIDE DEF Fill
    <3>. QED
      BY <1>1, <3>1, <3>2, <3>3, <3>4
  <2>. QED
    BY <2>1
<1>4. ids = Fill(ids)
  <2>1. ids = CHOOSE h : h = Fill(h)
    BY Zenon DEF FillContainerChildIds
  <2>2. \E h : h = Fill(h)
    BY <1>3
  <2>. HIDE DEF Fill
  <2>. QED
    BY <2>1, <2>2, Zenon
<1>5. /\ ids[<<>>] = 1
      /\ ids[<<1>>] = IF LogIds[<<1>>] # NoId THEN LogIds[<<1>>] ELSE ContainerChildFieldId(ids[<<>>], 1)
      /\ ids[<<2>>] = IF LogIds[<<2>>] # NoId THEN LogIds[<<2>>] ELSE ContainerChildFieldId(ids[<<>>], 2)
      /\ ids[<<2, 1>>] = IF LogIds[<<2, 1>>] # NoId THEN LogIds[<<2, 1>>]
                         ELSE ContainerChildFieldId(ids[<<2>>], 1)
  <2>1. \A e \in S : ids[e] = Fill(ids)[e]
    BY <1>4
  <2>. QED
    BY <1>1, <2>1, EntryFacts, EntriesDiffer
<1>6. CASE nested_ids
  <2>1. LogIds[<<1>>] = MaxColumns + 1 /\ LogIds[<<2>>] = MaxColumns + 2 /\ LogIds[<<2, 1>>] = MaxColumns + 3
    BY <1>6, EntriesDiffer DEF LogIds, NestedId, Entries
  <2>. QED
    BY <1>5, <2>1 DEF Entries, NoId
<1>7. CASE ~nested_ids
  <2>1. LogIds[<<1>>] = NoId /\ LogIds[<<2>>] = NoId /\ LogIds[<<2, 1>>] = NoId
    BY <1>7 DEF LogIds, Entries
  <2>2. ids[<<1>>] = 1 /\ ids[<<2>>] = -2 /\ ids[<<2, 1>>] = -2
    BY <1>5, <2>1 DEF ContainerChildFieldId
  <2>. QED
    BY <2>2 DEF Entries, NoId
<1>. QED
  BY <1>6, <1>7

(* Reading.                                                                *)

\* The columns of a file that match a column of the table.
FoundIn(f, c, policy) ==
  CASE Matching(f, policy) = "id" -> ByFieldId(f, c)
    [] Matching(f, policy) = "physical" -> ByName(f, c.physical)
    [] OTHER -> ByName(f, c.name)

LEMMA ReadsWhatIsFound ==
  ASSUME NEW f, NEW c, ~c.part, NEW policy, Matching(f, policy) # "error"
  PROVE  ReadColumn(f, c, policy) = IF FoundIn(f, c, policy) = {} THEN Null
                                    ELSE (CHOOSE x \in FoundIn(f, c, policy) : TRUE).of
<1>1. ReadColumn(f, c, policy) =
        IF Matching(f, policy) = "error" THEN Error ELSE IF c.part THEN PartitionConstant(f, c)
        ELSE IF FoundIn(f, c, policy) = {} THEN Null ELSE (CHOOSE x \in FoundIn(f, c, policy) : TRUE).of
  BY Zenon DEF ReadColumn, FoundIn
<1>. QED
  BY <1>1

\* A file that follows the protocol is matched by something, and a column is found in it
\* exactly where its data is.
LEMMA Found ==
  ASSUME SchemaInv, NEW f, FileInv(f), f.by \in {"insert", "other"}, NEW c \in Columns,
         NEW policy \in {"strict", "lenient"}
  PROVE  /\ Matching(f, policy) # "error"
         /\ FoundIn(f, c, policy) = {x \in f.cols : x.of = c.of}
<1>1. Keyed(f) /\ Identified(f) /\ FileTyped(f)
  BY DEF FileInv
<1>2. CASE ReadColumnMappingMode = "none"
  <2>1. Matching(f, policy) = "logical"
    BY <1>2 DEF Matching
  <2>2. \A x \in f.cols : x.name = c.name <=> x.of = c.of
    BY <1>1, <1>2, Modes, ColumnFacts DEF Keyed
  <2>. QED
    BY <2>1, <2>2 DEF FoundIn, ByName
<1>3. CASE ReadColumnMappingMode = "name"
  <2>1. Matching(f, policy) = "physical"
    BY <1>3 DEF Matching
  <2>2. \A x \in f.cols : x.name = c.physical <=> x.of = c.of
    BY <1>1, <1>3, Modes DEF Keyed
  <2>. QED
    BY <2>1, <2>2 DEF FoundIn, ByName
<1>4. CASE ReadColumnMappingMode = "id"
  <2>0. Mapped /\ property = "id"
    BY <1>4, Modes
  <2>1. \A x \in f.cols : x.id = x.of /\ x.of \in 1 .. created /\ (x.of = 1 => x.entries = LogIds)
    BY <1>1, <2>0 DEF Identified, FileTyped
  <2>2. Matching(f, policy) = "id"
    BY <1>4, <2>1 DEF Matching, AllHaveFieldIds, NoId, SchemaInv
  <2>3. c.id = c.of
    BY <2>0, PhysicalFacts
  <2>4. ASSUME NEW x \in f.cols, x.of = c.of
        PROVE  /\ c.of = 1 => FillContainerChildIds(x.id, x.entries) = FillContainerChildIds(c.id, LogIds)
               /\ c.of = 1 => LET ids == FillContainerChildIds(c.id, LogIds)
                              IN  ids[<<1>>] # ids[<<2>>] /\ \A e \in Entries : ids[e] # NoId
    <3>1. c.of = 1 => x.id = 1 /\ c.id = 1 /\ x.entries = LogIds
      BY <2>1, <2>3, <2>4
    <3>. QED
      BY <3>1, FilledIds, Zenon
  <2>5. ByFieldId(f, c) = {x \in f.cols : x.of = c.of}
    <3>1. ByFieldId(f, c) \subseteq {x \in f.cols : x.of = c.of}
      BY <2>1, <2>3 DEF ByFieldId
    <3>2. ASSUME NEW x \in f.cols, x.of = c.of PROVE x \in ByFieldId(f, c)
      <4>1. x.id = c.id
        BY <2>1, <2>3, <3>2
      <4>. QED
        BY <2>4, <3>2, <4>1, Zenon DEF ByFieldId
    <3>. QED
      BY <3>1, <3>2
  <2>. QED
    BY <2>2, <2>5 DEF FoundIn
<1>. QED
  BY <1>2, <1>3, <1>4, Modes

\* Whatever other engines did to the schema since, a column reads its own data from every
\* file that follows the protocol, or NULL when the file was written without it
\* (InitializeReader).
THEOREM ColumnsReadTheirOwn == Spec => []ReadsItsOwnColumn
<1>1. ASSUME IInv PROVE ReadsItsOwnColumn
  <2>1. SUFFICES ASSUME NEW f \in files, NEW c \in Columns, NEW policy \in {"strict", "lenient"},
                        f.by \in {"insert", "other"}, ~c.part
                 PROVE  ReadColumn(f, c, policy) = IF Holds(f, c.of) THEN c.of ELSE Null
    BY DEF ReadsItsOwnColumn
  <2>. DEFINE own == {x \in f.cols : x.of = c.of}
  <2>2. Matching(f, policy) # "error" /\ FoundIn(f, c, policy) = own
    BY <1>1, <2>1, Found DEF IInv
  <2>. HIDE DEF own
  <2>3. ReadColumn(f, c, policy) = IF own = {} THEN Null ELSE (CHOOSE x \in own : TRUE).of
    BY <2>1, <2>2, ReadsWhatIsFound
  <2>4. own = {} <=> ~Holds(f, c.of)
    BY DEF own, Holds
  <2>5. own # {} => (CHOOSE x \in own : TRUE).of = c.of
    <3>1. own # {} => (CHOOSE x \in own : TRUE) \in own
      OBVIOUS
    <3>. QED
      BY <3>1 DEF own
  <2>. QED
    BY <2>3, <2>4, <2>5
<1>. QED
  BY <1>1, Inductive, PTL

\* A file without field ids is matched as a whole, by the names it was written with.
LEMMA Unmatched ==
  ASSUME SchemaInv, NEW f, FileInv(f), f.by \in {"physical", "legacy"}
  PROVE  /\ Matching(f, "strict") = "error"
         /\ f.by = "physical" => Matching(f, "lenient") \in {"physical", "error"}
         /\ f.by = "legacy" => Matching(f, "lenient") \in {"logical", "error"}
         /\ Matching(f, "lenient") = "physical" => CoveredByNames(f, TRUE)
         /\ Matching(f, "lenient") = "logical" => CoveredByNames(f, FALSE)
<1>1. Unidentified(f)
  BY DEF FileInv
<1>2. ReadColumnMappingMode = "id" /\ ~AllHaveFieldIds(f) /\ f.cols # {}
  BY <1>1, Modes DEF Unidentified, AllHaveFieldIds
<1>3. /\ Matching(f, "strict") = "error"
      /\ Matching(f, "lenient") = IF CoveredByNames(f, TRUE) THEN "physical"
                                  ELSE IF CoveredByNames(f, FALSE) THEN "logical" ELSE "error"
  BY <1>2 DEF Matching
<1>4. \A x \in f.cols : x.of \in 1 .. MaxColumns
  BY DEF FileInv, FileTyped, SchemaInv
<1>5. \A c \in Columns : c.of \in 1 .. MaxColumns /\ c.name \in Name /\ c.physical \notin Name
  <2>1. \A c \in Columns : c.of \in 1 .. MaxColumns /\ c.name \in Name
    BY ColumnFacts DEF Column, SchemaInv
  <2>2. \A c \in Columns : c.physical = FreshPhysicalName[c.of]
    BY <1>1 DEF Unidentified, SchemaInv, MappedColumns
  <2>. QED
    BY <2>1, <2>2
<1>6. f.by = "physical" => ~CoveredByNames(f, FALSE)
  <2>1. f.by = "physical" => \A x \in f.cols : x.name \notin Name
    BY <1>4 DEF FileInv
  <2>. QED
    BY <1>2, <1>5, <2>1 DEF CoveredByNames
<1>7. f.by = "legacy" => ~CoveredByNames(f, TRUE)
  <2>1. f.by = "legacy" => \A x \in f.cols : x.name \in Name
    BY DEF FileInv
  <2>. QED
    BY <1>2, <1>5, <2>1 DEF CoveredByNames
<1>. QED
  BY <1>3, <1>6, <1>7

\* A file of an id-mode table without field ids is refused, or read as a whole under the
\* lenient policy, and exactly if it has physical names (ResolveFileWithoutFieldIds).
THEOREM WholeFilesOrNone == Spec => []LenientReadsWholeFiles
<1>1. ASSUME IInv PROVE LenientReadsWholeFiles
  <2>. SUFFICES ASSUME NEW f \in files, f.by \in {"physical", "legacy"}
                PROVE  /\ \A c \in Columns : ReadColumn(f, c, "strict") = Error
                       /\ Matching(f, "lenient") # "error" =>
                            \A x \in f.cols : \E c \in Columns : ReadColumn(f, c, "lenient") = x.of
                       /\ f.by = "physical" => \A c \in Columns \ Partitions :
                            ReadColumn(f, c, "lenient") \in {Error, IF Holds(f, c.of) THEN c.of ELSE Null}
    BY DEF LenientReadsWholeFiles
  <2>1. SchemaInv /\ FileInv(f)
    BY <1>1 DEF IInv
  <2>2. /\ Matching(f, "strict") = "error"
        /\ f.by = "physical" => Matching(f, "lenient") \in {"physical", "error"}
        /\ f.by = "legacy" => Matching(f, "lenient") \in {"logical", "error"}
        /\ Matching(f, "lenient") = "physical" => CoveredByNames(f, TRUE)
        /\ Matching(f, "lenient") = "logical" => CoveredByNames(f, FALSE)
    BY <2>1, Unmatched
  <2>3. \A c \in Columns : ReadColumn(f, c, "strict") = Error
    BY <2>2 DEF ReadColumn
  <2>4. ASSUME NEW c \in Columns, ~c.part, Matching(f, "lenient") = "physical", f.by = "physical"
        PROVE  ReadColumn(f, c, "lenient") = IF Holds(f, c.of) THEN c.of ELSE Null
    <3>. DEFINE own == {x \in f.cols : x.of = c.of}
    <3>1. FoundIn(f, c, "lenient") = own
      BY <2>1, <2>4 DEF FoundIn, ByName, FileInv, Unidentified, Keyed
    <3>. HIDE DEF own
    <3>2. ReadColumn(f, c, "lenient") = IF own = {} THEN Null ELSE (CHOOSE x \in own : TRUE).of
      BY <2>4, <3>1, ReadsWhatIsFound
    <3>3. own = {} <=> ~Holds(f, c.of)
      BY DEF own, Holds
    <3>4. own # {} => (CHOOSE x \in own : TRUE).of = c.of
      <4>1. own # {} => (CHOOSE x \in own : TRUE) \in own
        OBVIOUS
      <4>. QED
        BY <4>1 DEF own
    <3>. QED
      BY <3>2, <3>3, <3>4
  <2>5. ASSUME Matching(f, "lenient") # "error", NEW x \in f.cols
        PROVE  \E c \in Columns : ReadColumn(f, c, "lenient") = x.of
    <3>1. CASE f.by = "physical"
      <4>1. PICK c \in Columns : x.name = c.physical
        BY <2>2, <2>5, <3>1 DEF CoveredByNames
      <4>2. x.of = c.of /\ ~c.part
        BY <2>1, <3>1, <4>1 DEF FileInv, Keyed, Unidentified
      <4>3. Holds(f, c.of)
        BY <4>2 DEF Holds
      <4>. QED
        BY <2>2, <2>4, <2>5, <3>1, <4>2, <4>3
    <3>2. CASE f.by = "legacy"
      <4>1. Matching(f, "lenient") = "logical"
        BY <2>2, <2>5, <3>2
      <4>2. PICK c \in Columns : x.name = c.name
        BY <2>2, <4>1 DEF CoveredByNames
      <4>3. ~c.part
        BY <2>1, <3>2 DEF FileInv, Partitions
      <4>. DEFINE S == ByName(f, c.name)
      <4>4. x \in S /\ \A y \in S : y.of = x.of
        BY <2>1, <3>2, <4>2 DEF ByName, FileInv
      <4>. HIDE DEF S
      <4>5. ReadColumn(f, c, "lenient") = IF S = {} THEN Null ELSE (CHOOSE y \in S : TRUE).of
        <5>1. FoundIn(f, c, "lenient") = S
          BY <4>1 DEF FoundIn, S
        <5>. QED
          BY <4>1, <4>3, <5>1, ReadsWhatIsFound
      <4>6. (CHOOSE y \in S : TRUE) \in S
        BY <4>4
      <4>. QED
        BY <4>4, <4>5, <4>6
    <3>. QED
      BY <3>1, <3>2
  <2>6. ASSUME f.by = "physical", NEW c \in Columns \ Partitions
        PROVE  ReadColumn(f, c, "lenient") \in {Error, IF Holds(f, c.of) THEN c.of ELSE Null}
    <3>1. ~c.part
      BY DEF Partitions
    <3>2. CASE Matching(f, "lenient") = "error"
      BY <3>2 DEF ReadColumn
    <3>. QED
      BY <2>2, <2>4, <2>6, <3>1, <3>2
  <2>. QED
    BY <2>3, <2>5, <2>6
<1>. QED
  BY <1>1, Inductive, PTL

(* Partition values.                                                       *)

\* The partition columns after a position are a run of as many columns as there are.
LEMMA Runs ==
  ASSUME SchemaInv, NEW i \in 0 .. Len(schema)
  PROVE  /\ Cardinality(RunAfter(i)) \in Nat
         /\ \A p \in Int : p \in RunAfter(i) <=> i < p /\ p <= i + Cardinality(RunAfter(i))
<1>. DEFINE n == Len(schema)
            B == {j \in (i + 1) .. n : ~schema[j].part}
<1>1. n \in Nat /\ i \in Nat /\ i <= n
  BY ColumnFacts
<1>. HIDE DEF n
<1>2. \E q \in i .. n : /\ \A j \in (i + 1) .. q : schema[j].part
                        /\ q < n => ~schema[q + 1].part
  <2>1. CASE B = {}
    <3>1. n \in i .. n /\ \A j \in (i + 1) .. n : schema[j].part
      BY <1>1, <2>1
    <3>. QED
      BY <1>1, <3>1
  <2>2. CASE B # {}
    <3>1. PICK b \in B : \A j \in B : b <= j
      <4>1. B \in SUBSET Nat
        BY <1>1
      <4>. HIDE DEF B
      <4>. QED
        BY <2>2, <4>1, LeastNatural
    <3>2. b \in (i + 1) .. n /\ ~schema[b].part /\ b - 1 \in i .. n /\ (b - 1) + 1 = b
      BY <1>1, <3>1
    <3>3. \A j \in (i + 1) .. (b - 1) : schema[j].part
      BY <1>1, <3>1, <3>2
    <3>. QED
      BY <3>2, <3>3
  <2>. QED
    BY <2>1, <2>2
<1>3. PICK q \in i .. n : /\ \A j \in (i + 1) .. q : schema[j].part
                          /\ q < n => ~schema[q + 1].part
  BY <1>2
<1>4. RunAfter(i) = (i + 1) .. q
  <2>1. RunAfter(i) = {j \in (i + 1) .. n : \A k \in (i + 1) .. j : schema[k].part}
    BY DEF RunAfter, n
  <2>2. \A j \in (i + 1) .. n : (\A k \in (i + 1) .. j : schema[k].part) => j <= q
    <3>. SUFFICES ASSUME NEW j \in (i + 1) .. n, j > q PROVE ~schema[q + 1].part /\ q + 1 \in (i + 1) .. j
      BY <1>1, <1>3
    <3>. QED
      BY <1>1, <1>3
  <2>3. \A j \in (i + 1) .. q : j \in (i + 1) .. n /\ \A k \in (i + 1) .. j : schema[k].part
    BY <1>1, <1>3
  <2>4. RunAfter(i) \subseteq (i + 1) .. q
    BY <1>1, <1>3, <2>1, <2>2
  <2>5. (i + 1) .. q \subseteq RunAfter(i)
    BY <2>1, <2>3
  <2>. QED
    BY <2>4, <2>5
<1>5. Cardinality((i + 1) .. q) = q - i
  <2>1. i + 1 \in Int /\ q \in Int /\ i \in Int /\ i <= q
    BY <1>1, <1>3
  <2>2. Cardinality((i + 1) .. q) = IF i + 1 > q THEN 0 ELSE q - (i + 1) + 1
    BY <2>1, FS_Interval
  <2>. HIDE DEF n
  <2>. QED
    BY <2>1, <2>2
<1>. QED
  BY <1>1, <1>3, <1>4, <1>5

\* The operation of the transform that inserts after column i.
OpAfter(f, i) ==
  [kind |-> IF i = 0 THEN "prepend" ELSE "field",
   keep_input |-> TRUE, optional |-> FALSE,
   field_name |-> IF i = 0 THEN NoName ELSE KernelName(schema[i]),
   values |-> [k \in 1 .. Cardinality(RunAfter(i)) |-> PartitionValue(f, schema[i + k])]]

OpPositions == {j \in 0 .. Len(schema) : (j = 0 \/ ~schema[j].part) /\ RunAfter(j) # {}}

LEMMA TransformOps ==
  ASSUME NEW f
  PROVE  Transform(f) = {OpAfter(f, i) : i \in OpPositions}
  BY Zenon DEF Transform, OpAfter, OpPositions

\* The list finds the column the kernel means, and inserts right after it.
LEMMA InsertsAfter ==
  ASSUME SchemaInv, NEW f, NEW i \in 0 .. Len(schema), NEW op, op = OpAfter(f, i)
  PROVE  IndexToInsert(op) = i + 1 /\ ~Unnamed(op)
<1>1. /\ op.kind = (IF i = 0 THEN "prepend" ELSE "field") /\ op.keep_input
      /\ op.field_name = IF i = 0 THEN NoName ELSE KernelName(schema[i])
  BY DEF OpAfter
<1>2. CASE i = 0
  BY <1>1, <1>2 DEF IndexToInsert, Unnamed
<1>3. CASE i # 0
  <2>1. i \in DOMAIN schema /\ schema[i] \in Columns
    BY <1>3, ColumnFacts
  <2>2. op.field_name = Key(schema[i])
    BY <1>1, <1>3, <2>1, Keys
  <2>3. \A j \in DOMAIN schema :
          op.field_name = (IF Mapped /\ schema[j].physical # NoName THEN schema[j].physical
                           ELSE schema[j].name) <=> j = i
    <3>1. \A j \in DOMAIN schema : schema[j] \in Columns
      BY ColumnFacts
    <3>2. \A j \in DOMAIN schema : schema[j] = schema[i] => j = i
      BY <2>1 DEF SchemaInv, Positions
    <3>3. \A j \in DOMAIN schema : Key(schema[j]) = Key(schema[i]) <=> j = i
      BY <2>1, <3>1, <3>2, KeysDiffer
    <3>. QED
      BY <2>2, <3>1, <3>3, Keys
  <2>4. NamedFields(op.field_name) = {i}
    BY <2>1, <2>3 DEF NamedFields
  <2>5. (CHOOSE k \in {i} : \A j \in {i} : k <= j) = i
    OBVIOUS
  <2>. DEFINE named == CHOOSE k \in NamedFields(op.field_name) :
                         \A j \in NamedFields(op.field_name) : k <= j
  <2>6. named = i
    BY <2>4, <2>5
  <2>7. IndexToInsert(op) = (CASE op.kind = "prepend" -> 1
                               [] op.kind = "append" -> Len(schema) + 1
                               [] OTHER -> IF op.keep_input THEN named + 1 ELSE named)
    BY Zenon DEF IndexToInsert
  <2>8. op.kind = "field"
    BY <1>1, <1>3
  <2>9. ~Unnamed(op)
    BY <2>4 DEF Unnamed
  <2>. HIDE DEF named
  <2>. QED
    BY <1>1, <2>6, <2>7, <2>8, <2>9
<1>. QED
  BY <1>2, <1>3

\* The value at the position of a partition column is that of the column.
LEMMA ValuesAtTheirPlace ==
  ASSUME SchemaInv, NEW f, NEW p \in DOMAIN schema, schema[p].part
  PROVE  FindPartitionValues(f)[p] = PartitionValue(f, schema[p])
<1>. DEFINE n == Len(schema)
            ops == {op \in Transform(f) : ~(Unnamed(op) /\ op.optional)}
            here == {op \in ops : IndexToInsert(op) <= p /\ p < IndexToInsert(op) + Len(op.values)}
<1>1. p \in 1 .. n /\ n \in Nat
  BY ColumnFacts
<1>2. ASSUME NEW i \in OpPositions
      PROVE  /\ i \in 0 .. n /\ IndexToInsert(OpAfter(f, i)) = i + 1 /\ ~Unnamed(OpAfter(f, i))
             /\ Len(OpAfter(f, i).values) = Cardinality(RunAfter(i))
             /\ Cardinality(RunAfter(i)) \in Nat
             /\ \A k \in 1 .. Cardinality(RunAfter(i)) :
                  OpAfter(f, i).values[k] = PartitionValue(f, schema[i + k])
  <2>1. i \in 0 .. n
    BY DEF OpPositions
  <2>2. IndexToInsert(OpAfter(f, i)) = i + 1 /\ ~Unnamed(OpAfter(f, i))
    BY <2>1, InsertsAfter
  <2>3. Cardinality(RunAfter(i)) \in Nat
    BY <2>1, Runs
  <2>4. OpAfter(f, i).values = [k \in 1 .. Cardinality(RunAfter(i)) |-> PartitionValue(f, schema[i + k])]
    BY DEF OpAfter
  <2>. QED
    BY <2>1, <2>2, <2>3, <2>4
<1>3. Transform(f) = {OpAfter(f, i) : i \in OpPositions}
  BY TransformOps
<1>4. \A op \in ops : ~Unnamed(op)
  BY <1>2, <1>3
<1>5. here # {}
  <2>. DEFINE N == {j \in 1 .. (p - 1) : ~schema[j].part} \cup {0}
  <2>1. PICK i \in N : \A j \in N : j <= i
    <3>1. N \in SUBSET (0 .. p) /\ N # {} /\ p \in Nat
      BY <1>1
    <3>. HIDE DEF N
    <3>. QED
      BY <3>1, GreatestNatural
  <2>2. i \in 0 .. n /\ i < p /\ (i = 0 \/ ~schema[i].part)
    BY <1>1, <2>1
  <2>3. \A k \in (i + 1) .. p : schema[k].part
    <3>. SUFFICES ASSUME NEW k \in (i + 1) .. p, ~schema[k].part PROVE FALSE
      OBVIOUS
    <3>1. k # p /\ k \in 1 .. (p - 1)
      BY <1>1, <2>2
    <3>2. k \in N
      BY <3>1
    <3>. QED
      BY <1>1, <2>1, <2>2, <3>1, <3>2
  <2>4. p \in RunAfter(i)
    BY <1>1, <2>2, <2>3 DEF RunAfter
  <2>5. i \in OpPositions
    BY <2>2, <2>4 DEF OpPositions
  <2>6. i < p /\ p <= i + Cardinality(RunAfter(i))
    BY <1>1, <2>2, <2>4, Runs
  <2>7. OpAfter(f, i) \in ops
    BY <1>2, <1>3, <2>5
  <2>8. OpAfter(f, i) \in here
    <3>1. /\ IndexToInsert(OpAfter(f, i)) = i + 1 /\ Len(OpAfter(f, i).values) = Cardinality(RunAfter(i))
          /\ Cardinality(RunAfter(i)) \in Nat
      BY <1>2, <2>5
    <3>2. i + 1 <= p /\ p < (i + 1) + Cardinality(RunAfter(i))
      BY <1>1, <2>2, <2>6, <3>1
    <3>. QED
      BY <2>7, <3>1, <3>2
  <2>. QED
    BY <2>8
<1>6. ASSUME NEW op \in here
      PROVE  op.values[p - IndexToInsert(op) + 1] = PartitionValue(f, schema[p])
  <2>1. PICK i \in OpPositions : op = OpAfter(f, i)
    BY <1>3
  <2>. DEFINE m == Cardinality(RunAfter(i))
  <2>2. /\ i \in 0 .. n /\ IndexToInsert(op) = i + 1 /\ Len(op.values) = m /\ m \in Nat
        /\ \A k \in 1 .. m : op.values[k] = PartitionValue(f, schema[i + k])
    BY <1>2, <2>1
  <2>3. i + 1 <= p /\ p < (i + 1) + m
    BY <2>2
  <2>. HIDE DEF m
  <2>4. p - (i + 1) + 1 \in 1 .. m /\ i + (p - (i + 1) + 1) = p
    BY <1>1, <2>2, <2>3
  <2>5. op.values[p - (i + 1) + 1] = PartitionValue(f, schema[i + (p - (i + 1) + 1)])
    BY <2>2, <2>4
  <2>. QED
    BY <2>2, <2>4, <2>5
<1>7. FindPartitionValues(f)[p] =
        IF \E op \in ops : Unnamed(op) THEN Error
        ELSE IF here = {} THEN Null
        ELSE (CHOOSE o \in here : TRUE).values[p - IndexToInsert(CHOOSE o \in here : TRUE) + 1]
  BY Zenon DEF FindPartitionValues
<1>. HIDE DEF here, ops
<1>8. (CHOOSE o \in here : TRUE) \in here
  BY <1>5
<1>. QED
  BY <1>4, <1>5, <1>6, <1>7, <1>8

\* A partition column reads its own value of every file that follows the protocol: the
\* copy's name, the log's, the kernel's transform and the list's position agree
\* (FindPartitionValues).
THEOREM PartitionsReadTheirOwn == Spec => []ReadsItsOwnPartition
<1>1. ASSUME IInv PROVE ReadsItsOwnPartition
  <2>. SUFFICES ASSUME NEW f \in files, NEW c \in Partitions, f.by \in {"insert", "other"}
                PROVE  ReadColumn(f, c, "strict") = c.of
    BY DEF ReadsItsOwnPartition
  <2>1. SchemaInv /\ FileInv(f) /\ c \in Columns /\ c.part
    BY <1>1 DEF IInv, Partitions
  <2>2. Matching(f, "strict") # "error"
    BY <2>1, Found
  <2>3. ReadColumn(f, c, "strict") = PartitionConstant(f, c)
    BY <2>1, <2>2 DEF ReadColumn
  <2>. DEFINE id == CHOOSE i \in DOMAIN schema : schema[i].name = c.name
  <2>4. \E i \in DOMAIN schema : schema[i].name = c.name
    BY <2>1 DEF Columns
  <2>5. id \in DOMAIN schema /\ schema[id].name = c.name
    BY <2>4
  <2>6. PartitionConstant(f, c) = FindPartitionValues(f)[id]
    BY DEF PartitionConstant
  <2>. HIDE DEF id
  <2>7. schema[id] = c
    BY <2>1, <2>5, ColumnFacts
  <2>8. FindPartitionValues(f)[id] = PartitionValue(f, c)
    BY <2>1, <2>5, <2>7, ValuesAtTheirPlace
  <2>9. PartitionValue(f, c) = c.of
    <3>. DEFINE at == {p \in f.parts : p.name = KernelName(c)}
    <3>1. (\E p \in f.parts : p.of = c.of) /\ \A p \in f.parts : p.name = KernelName(c) <=> p.of = c.of
      BY <2>1 DEF FileInv, Partitioned
    <3>2. at # {} /\ \A p \in at : p.of = c.of
      BY <3>1
    <3>3. PartitionValue(f, c) = IF at = {} THEN Null ELSE (CHOOSE p \in at : TRUE).of
      BY Zenon DEF PartitionValue
    <3>. HIDE DEF at
    <3>4. (CHOOSE p \in at : TRUE) \in at
      BY <3>2
    <3>. QED
      BY <3>2, <3>3, <3>4
  <2>. QED
    BY <2>3, <2>6, <2>8, <2>9
<1>. QED
  BY <1>1, Inductive, PTL

=============================================================================
