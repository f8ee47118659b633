------------------------- MODULE DeltaColumnMapping -------------------------
(***************************************************************************)
(* Which data a column of a Delta table reads, and under which names and    *)
(* ids an INSERT writes it, while other engines change the schema.          *)
(*                                                                         *)
(* A table without column mapping finds its columns in a file by name.      *)
(* With column mapping a column has a physical name and an id that outlive   *)
(* its name, so other engines may rename a column, drop it and add another  *)
(* of the same name; files stay as they were written.  The extension has to *)
(* use the same vocabulary at every point: the parquet schema and the field *)
(* ids of the copy, the partition values and the statistics of the log, the *)
(* names of the kernel's transform, and the identifiers of the reader.      *)
(*                                                                         *)
(* A column is known by `of`, the data that is its own whatever it is called *)
(* (a ghost: no schema records it).  A file is the set of its columns, each  *)
(* with the name and id it was written under and the data it holds.  Column *)
(* 1 is a map of lists, so its entries need ids of their own in id mode.     *)
(*                                                                         *)
(* Reading changes nothing, so a read is an operator; it is checked on every *)
(* file after every change of the schema.                                   *)
(***************************************************************************)
EXTENDS Integers, Sequences, FiniteSets

CONSTANTS
  Name,               \* logical names
  FreshPhysicalName,  \* the physical name of the n-th column, which other engines draw
  MaxColumns,         \* bound: the columns the table ever has
  MaxFiles            \* bound: the files the table ever has

InitialName == <<"a", "b", "c">>
NoName == ""
NoId == -100
Null == 0    \* the value of a column that a file does not have
Error == -1  \* the read throws

ASSUME BoundsAssumption == MaxColumns \in Nat /\ MaxColumns >= 3 /\ MaxFiles \in Nat
ASSUME NamesAssumption ==
  /\ {"a", "b", "c"} \subseteq Name /\ NoName \notin Name
  /\ DOMAIN FreshPhysicalName = 1 .. MaxColumns
  /\ \A m, n \in 1 .. MaxColumns : FreshPhysicalName[m] = FreshPhysicalName[n] => m = n
  /\ \A n \in 1 .. MaxColumns : FreshPhysicalName[n] \notin Name \cup {NoName}

VARIABLES
  protocol,    \* reader version and the columnMapping writer feature
  property,    \* delta.columnMapping.mode
  nested_ids,  \* does the log give ids to map entries and list elements?
  schema,      \* the columns, in order
  created,     \* the columns the table ever had
  files        \* the data files of the table

vars == <<protocol, property, nested_ids, schema, created, files>>

Columns == {schema[i] : i \in DOMAIN schema}
Partitions == {c \in Columns : c.part}

-----------------------------------------------------------------------------
(* The mode.                                                                *)

HasColumnMappingFeature(p) ==
  \/ p.min_reader = 2
  \/ p.min_reader = 3 /\ p.feature

\* Mutant: the property is believed without the protocol's feature.
ReadColumnMappingModeProperty == property

ReadColumnMappingMode ==
  IF ~HasColumnMappingFeature(protocol) THEN "none"
  ELSE IF property \in {"id", "name"} THEN property ELSE "none"

Mapped == ReadColumnMappingMode # "none"

(* The kernel's name of a column, in partition values, statistics and       *)
(* transforms: the physical one when the table is mapped.                   *)
KernelName(c) ==
  IF HasColumnMappingFeature(protocol) /\ property # "none" THEN c.physical ELSE c.name

-----------------------------------------------------------------------------
(* Ids of the entries of a container.  An entry is known by its positions    *)
(* from the column down: the key, the value, the element of the value.       *)

Entries == {<<1>>, <<2>>, <<2, 1>>}
Above(entry) == SubSeq(entry, 1, Len(entry) - 1)
Position(entry) == entry[Len(entry)]

(* The ids delta.columnMapping.nested.ids gives (ApplyNestedFieldIds): real   *)
(* ids, that no column has.                                                 *)
NestedId(entry) ==
  MaxColumns + (CASE entry = <<1>> -> 1 [] entry = <<2>> -> 2 [] OTHER -> 3)

ContainerChildFieldId(parent_id, position) ==
  IF position = 1 THEN parent_id ELSE -parent_id - 1

(* The ids of a column and its entries, where `given` has none derived from  *)
(* the id of the container.                                                 *)
FillContainerChildIds(id, given) ==
  LET filled[entry \in Entries \cup {<<>>}] ==
        IF entry = <<>> THEN id
        ELSE IF given[entry] # NoId THEN given[entry]
        ELSE ContainerChildFieldId(filled[Above(entry)], Position(entry))
  IN  filled

LogIds == [entry \in Entries |-> IF nested_ids THEN NestedId(entry) ELSE NoId]

-----------------------------------------------------------------------------
(* Writing: PlanInsert, ApplyColumnMappingToWriteSchema, AddWrittenFiles.    *)

AnyColumnMapped == \E c \in Columns : c.physical # NoName \/ c.id # NoId
ColumnMapped == Mapped /\ AnyColumnMapped

WrittenName(c) == IF c.physical = NoName THEN c.name ELSE c.physical

(* The name the copy writes a column under, and reports its statistics and   *)
(* partition values under.                                                  *)
CopyName(c) == IF ColumnMapped THEN WrittenName(c) ELSE c.name

\* Mutant: the ids that reading derives for entries are written as well.
FieldIdTreeDerived(c) ==
  [id |-> IF ColumnMapped THEN c.id ELSE NoId,
   entries |-> [entry \in Entries |->
                  IF ColumnMapped /\ c.of = 1 THEN FillContainerChildIds(c.id, LogIds)[entry]
                  ELSE NoId]]

(* The entry of a column in `field_ids`: FieldIdTree.                       *)
FieldIdTree(c) ==
  [id |-> IF ColumnMapped THEN c.id ELSE NoId,
   entries |-> IF ColumnMapped /\ c.of = 1 THEN LogIds
               ELSE [entry \in Entries |-> NoId]]

FileColumn(c, name, id, entries) ==
  [name |-> name, id |-> id, entries |-> entries, of |-> c.of]

\* Mutant: what the copy reports is looked up by logical name.
FindWrittenColumnLogical(written_name) == {c \in Columns : c.name = written_name}

(* The column the copy reported as written_name.  The sink asks the snapshot *)
(* whether it is mapped, not the columns.                                   *)
FindWrittenColumn(written_name) ==
  {c \in Columns : (IF Mapped THEN WrittenName(c) ELSE c.name) = written_name}

(* AddWrittenFiles: a column with nulls is refused by the constraint on its   *)
(* logical name; a name the table does not have is an internal error.        *)
AcceptsStatistics(nulls) ==
  \A c \in Columns :
    LET found == FindWrittenColumn(CopyName(c))
    IN  /\ found # {}
        /\ c.of \in nulls => \A d \in found : ~d.notnull

(* An INSERT of this extension.  The files carry the partition columns too,  *)
(* and the partition values are recorded under the names the copy wrote.     *)
Insert(nulls) ==
  /\ Cardinality(files) < MaxFiles
  /\ AcceptsStatistics(nulls)
  /\ files' = files \cup
       {[cols |-> {FileColumn(c, CopyName(c), FieldIdTree(c).id, FieldIdTree(c).entries) :
                     c \in Columns},
         parts |-> {[name |-> CopyName(c), of |-> c.of] : c \in Partitions},
         nulls |-> nulls, by |-> "insert"]}
  /\ UNCHANGED <<protocol, property, nested_ids, schema, created>>

(* Files of other engines.  One that follows the protocol writes physical     *)
(* names, and field ids where id mode requires them; it leaves the partition *)
(* columns out.  In id mode, files without field ids are met as well: with    *)
(* physical names, and with the logical names this extension used to write.  *)
OtherWriter(by, with_ids) ==
  /\ Cardinality(files) < MaxFiles
  /\ by \in {"physical", "legacy"} => ReadColumnMappingMode = "id" /\ ~with_ids
  /\ by = "legacy" => Partitions = {}
  /\ by = "other" => CASE ReadColumnMappingMode = "id" -> with_ids
                      [] ReadColumnMappingMode = "none" -> ~with_ids
                      [] OTHER -> TRUE
  /\ files' = files \cup
       {[cols |-> {FileColumn(c, IF by = "legacy" THEN c.name ELSE KernelName(c),
                              IF with_ids THEN c.id ELSE NoId,
                              IF with_ids /\ c.of = 1 THEN LogIds
                              ELSE [entry \in Entries |-> NoId]) :
                     c \in Columns \ Partitions},
         parts |-> {[name |-> KernelName(c), of |-> c.of] : c \in Partitions},
         nulls |-> {}, by |-> by]}
  /\ UNCHANGED <<protocol, property, nested_ids, schema, created>>

-----------------------------------------------------------------------------
(* What other engines do to the schema (external).                           *)

NewColumn(name) ==
  [of |-> created + 1, name |-> name,
   physical |-> IF Mapped THEN FreshPhysicalName[created + 1] ELSE NoName,
   id |-> IF Mapped THEN created + 1 ELSE NoId,
   part |-> FALSE, notnull |-> FALSE]

FreeNames == Name \ {c.name : c \in Columns}

AddColumn(name, at_front) ==
  /\ created < MaxColumns /\ name \in FreeNames
  /\ created' = created + 1
  /\ schema' = IF at_front THEN <<NewColumn(name)>> \o schema
               ELSE Append(schema, NewColumn(name))
  /\ UNCHANGED <<protocol, property, nested_ids, files>>

RenameColumn(i, name) ==
  /\ Mapped /\ name \in FreeNames
  /\ schema' = [schema EXCEPT ![i].name = name]
  /\ UNCHANGED <<protocol, property, nested_ids, created, files>>

DropColumn(i) ==
  /\ Mapped /\ ~schema[i].part
  /\ \E c \in Columns \ {schema[i]} : ~c.part
  /\ schema' = SubSeq(schema, 1, i - 1) \o SubSeq(schema, i + 1, Len(schema))
  /\ UNCHANGED <<protocol, property, nested_ids, created, files>>

(* A table without mapping is given one: each column keeps the name it has    *)
(* in the files as its physical name.                                       *)
EnableNameMapping ==
  /\ property = "none" /\ ~AnyColumnMapped
  /\ protocol' = [min_reader |-> 3, feature |-> TRUE]
  /\ property' = "name"
  /\ schema' = [i \in DOMAIN schema |->
                  [schema[i] EXCEPT !.physical = schema[i].name, !.id = schema[i].of]]
  /\ UNCHANGED <<nested_ids, created, files>>

-----------------------------------------------------------------------------
(* Reading partition values: the kernel hands a transform of the data fields *)
(* to the table's columns, in which the values of the partition columns are   *)
(* inserted after the data field they follow, or prepended (external).       *)

RunAfter(i) ==
  {j \in (i + 1) .. Len(schema) : \A k \in (i + 1) .. j : schema[k].part}

PartitionValue(f, c) ==
  LET at == {p \in f.parts : p.name = KernelName(c)}
  IN  IF at = {} THEN Null ELSE (CHOOSE p \in at : TRUE).of

Transform(f) ==
  {[kind |-> IF i = 0 THEN "prepend" ELSE "field",
    keep_input |-> TRUE, optional |-> FALSE,
    field_name |-> IF i = 0 THEN NoName ELSE KernelName(schema[i]),
    values |-> [k \in 1 .. Cardinality(RunAfter(i)) |-> PartitionValue(f, schema[i + k])]] :
     i \in {j \in 0 .. Len(schema) : (j = 0 \/ ~schema[j].part) /\ RunAfter(j) # {}}}

\* Mutant: the kernel's field name is compared with the logical names.
NamedFieldsLogical(field_name) == {i \in DOMAIN schema : field_name = schema[i].name}

(* The columns that the transform's field name names, as the list compares it. *)
NamedFields(field_name) ==
  {i \in DOMAIN schema :
     field_name = IF Mapped /\ schema[i].physical # NoName THEN schema[i].physical
                  ELSE schema[i].name}

(* Where the values of an operation go: the position of the first of them.   *)
IndexToInsert(op) ==
  LET named == CHOOSE i \in NamedFields(op.field_name) :
                 \A j \in NamedFields(op.field_name) : i <= j
  IN  CASE op.kind = "prepend" -> 1
        [] op.kind = "append" -> Len(schema) + 1
        [] OTHER -> IF op.keep_input THEN named + 1 ELSE named

Unnamed(op) == op.kind = "field" /\ NamedFields(op.field_name) = {}

(* The values by position; a field the schema does not have is an error,      *)
(* unless the operation is optional.                                        *)
FindPartitionValues(f) ==
  [i \in DOMAIN schema |->
     LET ops == {op \in Transform(f) : ~(Unnamed(op) /\ op.optional)}
         here == {op \in ops : IndexToInsert(op) <= i
                                /\ i < IndexToInsert(op) + Len(op.values)}
     IN  IF \E op \in ops : Unnamed(op) THEN Error
         ELSE IF here = {} THEN Null
         ELSE LET op == CHOOSE o \in here : TRUE
              IN  op.values[i - IndexToInsert(op) + 1]]

(* The constant of a partition column: its value in the file's partition_map, *)
(* found by name through partition_ids.                                      *)
PartitionConstant(f, c) ==
  LET id == CHOOSE i \in DOMAIN schema : schema[i].name = c.name
  IN  FindPartitionValues(f)[id]

-----------------------------------------------------------------------------
(* Reading the columns of a file: InitializeReader.                          *)

AllHaveFieldIds(f) == \A x \in f.cols : x.id # NoId

\* Mutant: one column of the file that the names know is enough.
CoveredByAnyName(f, physical) ==
  \E x \in f.cols : \E c \in Columns :
    x.name = IF physical THEN c.physical ELSE c.name

CoveredByNames(f, physical) ==
  \A x \in f.cols : \E c \in Columns :
    x.name = IF physical THEN c.physical ELSE c.name

(* The columns of the file that the name mapper gives to a name.              *)
ByName(f, name) == {x \in f.cols : x.name = name}

(* The field id mapper: the column of that id, and the entries that have the   *)
(* same id on both sides.  A container with an entry that has none is NULL    *)
(* there.                                                                   *)
ByFieldId(f, c) ==
  {x \in f.cols :
     /\ x.id = c.id
     /\ c.of = 1 => FillContainerChildIds(x.id, x.entries)
                    = FillContainerChildIds(c.id, LogIds)
     /\ c.of = 1 => LET ids == FillContainerChildIds(c.id, LogIds)
                    IN  ids[<<1>>] # ids[<<2>>] /\ \A e \in Entries : ids[e] # NoId}

(* What the columns of a file are matched by.                                *)
Matching(f, policy) ==
  CASE ReadColumnMappingMode = "none" -> "logical"
    [] ReadColumnMappingMode = "name" -> "physical"
    [] OTHER -> IF AllHaveFieldIds(f) THEN "id"
                ELSE IF policy = "strict" THEN "error"
                ELSE IF CoveredByNames(f, TRUE) THEN "physical"
                ELSE IF CoveredByNames(f, FALSE) THEN "logical"
                ELSE "error"

(* The data a column reads from a file, or Null, or an error.                *)
ReadColumn(f, c, policy) ==
  LET by == Matching(f, policy)
      found == CASE by = "id" -> ByFieldId(f, c)
                 [] by = "physical" -> ByName(f, c.physical)
                 [] OTHER -> ByName(f, c.name)
  IN  IF by = "error" THEN Error
      ELSE IF c.part THEN PartitionConstant(f, c)
      ELSE IF found = {} THEN Null
      ELSE (CHOOSE x \in found : TRUE).of

-----------------------------------------------------------------------------
(* A table as another engine left it: plain, or with the property of column   *)
(* mapping and, unless some engine forgot it, the protocol's feature.        *)
Init ==
  /\ protocol \in {[min_reader |-> 1, feature |-> FALSE], [min_reader |-> 2, feature |-> FALSE],
                   [min_reader |-> 3, feature |-> FALSE], [min_reader |-> 3, feature |-> TRUE]}
  /\ property \in {"none", "name", "id"}
  /\ property = "none" <=> protocol.min_reader = 1
  /\ nested_ids \in BOOLEAN
  /\ nested_ids => property # "none"
  /\ created = 3
  /\ files = {}
  /\ \E order \in {<<1, 2, 3>>, <<2, 1, 3>>, <<2, 3, 1>>},
        part \in SUBSET {2, 3}, notnull \in {{}, {3}} :
       schema = [i \in 1 .. 3 |->
                   LET of == order[i]
                   IN  [of |-> of, name |-> InitialName[of],
                        physical |-> IF property = "none" THEN NoName
                                     ELSE FreshPhysicalName[of],
                        id |-> IF property = "none" THEN NoId ELSE of,
                        part |-> of \in part, notnull |-> of \in notnull]]

Next ==
  \/ \E nulls \in {{}, {3}} : Insert(nulls)
  \/ \E by \in {"other", "physical", "legacy"}, ids \in BOOLEAN : OtherWriter(by, ids)
  \/ \E name \in Name, at_front \in BOOLEAN : AddColumn(name, at_front)
  \/ \E i \in DOMAIN schema, name \in Name : RenameColumn(i, name)
  \/ \E i \in DOMAIN schema : DropColumn(i)
  \/ EnableNameMapping

Spec == Init /\ [][Next]_vars

-----------------------------------------------------------------------------
(* Properties.                                                              *)

(* Type correctness of the schema and the files.  The ids in a file are those  *)
(* of the log: the ids that reading derives for entries are never written.    *)
TypeOK ==
  /\ property \in {"none", "name", "id"}
  /\ created \in 3 .. MaxColumns
  /\ \A c \in Columns : c.of \in 1 .. created /\ c.name \in Name
  /\ \A f \in files : \A x \in f.cols :
       /\ x.of \in 1 .. created /\ x.name # NoName /\ x.id \in 1 .. created \cup {NoId}
       /\ x.entries \in [Entries -> Nat \cup {NoId}]
  /\ Cardinality(files) <= MaxFiles

Holds(f, of) == \E x \in f.cols : x.of = of

(* Whatever other engines did to the schema since, every column reads from    *)
(* every file that follows the protocol its own data, or NULL when the file   *)
(* was written without it: never the data of a column that had its name, and  *)
(* never NULL for data that is there, entries of maps and lists included.     *)
(* This is about the files this extension writes (PlanInsert) and the files   *)
(* of others, read under either policy.                                     *)
ReadsItsOwnColumn ==
  \A f \in files, c \in Columns, policy \in {"strict", "lenient"} :
    f.by \in {"insert", "other"} /\ ~c.part =>
      ReadColumn(f, c, policy) = IF Holds(f, c.of) THEN c.of ELSE Null

(* A partition column reads its own partition value of every file: the        *)
(* writer's name for it, the log's, the kernel's transform and the list's     *)
(* position all have to name the same column (FindPartitionValues).          *)
ReadsItsOwnPartition ==
  \A f \in files, c \in Partitions :
    f.by \in {"insert", "other"} => ReadColumn(f, c, "strict") = c.of

(* A file of an id-mode table without field ids is refused, or under the       *)
(* lenient policy read as a whole: each of its columns is the data of some     *)
(* column of the table, so no column of it is lost while others are read, and  *)
(* a file with physical names is read exactly (ResolveFileWithoutFieldIds).   *)
LenientReadsWholeFiles ==
  \A f \in files : f.by \in {"physical", "legacy"} =>
    /\ \A c \in Columns : ReadColumn(f, c, "strict") = Error
    /\ Matching(f, "lenient") # "error" =>
         \A x \in f.cols : \E c \in Columns : ReadColumn(f, c, "lenient") = x.of
    /\ f.by = "physical" => \A c \in Columns \ Partitions :
         ReadColumn(f, c, "lenient") \in {Error, IF Holds(f, c.of) THEN c.of ELSE Null}

(* NOT NULL is enforced on the column it was declared on, under whatever name  *)
(* the copy reports it: an INSERT is accepted exactly when it leaves no NULL   *)
(* in a NOT NULL column.  A column found under another's name would pass       *)
(* unchecked, or be held to the other's constraint (AddWrittenFiles).         *)
ConstraintsFollowTheirColumn ==
  /\ \A f \in files, c \in Columns : c.notnull => c.of \notin f.nulls
  /\ \A nulls \in {{}, {3}} :
       AcceptsStatistics(nulls) <=> \A c \in Columns : c.notnull => c.of \notin nulls

=============================================================================
