--------------------------- MODULE KernelVisitors ---------------------------
(***************************************************************************)
(* How the extension reads what the Delta kernel hands it as a tree: the    *)
(* expressions of a scan (KernelExpressionVisitor) and the schema of a      *)
(* table (KernelSchemaVisitor), both in delta_utils.cpp.                    *)
(*                                                                         *)
(* The kernel never returns a tree.  It walks its own and calls back: a     *)
(* field list is allocated for the children of a node (make_field_list),   *)
(* the children are visited into that list, and only then is the node      *)
(* itself visited, naming the list its siblings are in and the lists its    *)
(* children are in.  The visitor keeps the lists in flight in a map from id *)
(* to children; a callback takes the lists of its node and appends the node *)
(* it built to its siblings.  The callbacks run under the kernel's         *)
(* extern "C" frames, where a throw ends the process: an unsupported node   *)
(* records an error and appends nothing, and the walk goes on over lists    *)
(* that are now short.  The error is raised when the walk is over.  One     *)
(* callback can throw all the same: VisitLiteralMap builds a value of the   *)
(* keys and the values it finds, however many of each.                      *)
(*                                                                         *)
(* The visitor is the record v, the C++ object the callbacks share.  A node *)
(* of the kernel's tree is a number, in the order of the walk, and v.built  *)
(* says what the visitor made of it: the children it gave to it, by role.   *)
(* The kernel itself, the stack of the nodes it has opened and its tree, is *)
(* external and known from the callbacks it calls.                         *)
(***************************************************************************)
EXTENDS Naturals, Sequences, FiniteSets

CONSTANTS
  MaxExpressionNodes,  \* bound: the nodes of an expression of the kernel
  MaxSchemaNodes       \* bound: the fields of a schema of the kernel

ASSUME BoundsAssumption == MaxExpressionNodes \in Nat /\ MaxSchemaNodes \in Nat

VARIABLES
  visitor,  \* which of the two visitors this walk calls
  v,        \* the visitor: its lists in flight, next_id, error, refused field
  stack,    \* the kernel's open nodes, outermost first
  tree,     \* the kernel's tree so far; node 0 is the list of the result
  first,    \* the first problem the kernel's tree has, in walk order (ghost)
  result    \* "walking", then "returned" or "threw"; or "aborted"

vars == <<visitor, v, stack, tree, first, result>>

MaxNodes == IF visitor = "expression" THEN MaxExpressionNodes ELSE MaxSchemaNodes

NoError == [what |-> "none", path |-> <<>>]
NothingRefused == [path |-> <<>>, list |-> 0]

ExpressionLeaves == {"literal", "column", "refused_literal"}
LiteralNodes == {"function", "struct_literal", "map_literal"}
ExpressionNodes ==
  LiteralNodes \cup {"variadic", "binary", "refused_node", "struct_patch"}
SchemaLeaves == {"simple", "refused_type"}
SchemaNodes == {"struct", "array", "map", "user_defined"}

(* The lists the kernel allocates for a node, in the order it allocates     *)
(* them.  A field patch without insertions has none, and its id is 0.       *)
Roles(kind) ==
  CASE kind \in {"struct_literal", "map_literal"} -> <<"keys", "values">>
    [] kind = "struct_patch" ->
         <<"input_path", "prepended", "field_patches", "appended">>
    [] OTHER -> <<"children">>

RoleSet(kind) == {Roles(kind)[i] : i \in DOMAIN Roles(kind)}

-----------------------------------------------------------------------------
(* The visitor's lists.                                                     *)

\* Mutant: the id is handed out again.
MakeFieldListsReusesId(s, k) ==
  [s EXCEPT !.lists = [i \in DOMAIN s.lists \cup {s.next_id} |->
                         IF i \in DOMAIN s.lists THEN s.lists[i] ELSE <<>>]]

(* Allocates one list for each of k calls of make_field_list.               *)
MakeFieldLists(s, k) ==
  LET ids == s.next_id .. (s.next_id + k - 1)
  IN  [s EXCEPT !.next_id = @ + k,
                !.lists = [i \in DOMAIN s.lists \cup ids |->
                             IF i \in DOMAIN s.lists THEN s.lists[i] ELSE <<>>]]

AppendToList(s, id, node) ==
  IF id \in DOMAIN s.lists
  THEN [s EXCEPT !.lists[id] = Append(@, node)]
  ELSE [s EXCEPT !.error = [what |-> "missing_list", path |-> <<>>]]

(* Takes the lists in order, up to the first that is not in flight.         *)
TakeFieldLists(s, order) ==
  LET taken == {i \in DOMAIN order :
                  \A j \in 1 .. i : order[j] \in DOMAIN s.lists}
  IN  [s EXCEPT !.lists = [i \in DOMAIN s.lists \ {order[j] : j \in taken} |->
                             s.lists[i]],
                !.error = IF taken = DOMAIN order THEN @
                          ELSE [what |-> "missing_list", path |-> <<>>]]

HasLists(s, order) == \A i \in DOMAIN order : order[i] \in DOMAIN s.lists

(* The node becomes an expression or a column with these children, and is   *)
(* appended to its siblings.                                                *)
Emit(s, sibling, node, children) ==
  AppendToList([s EXCEPT !.built[node] = children], sibling, node)

Fail(s, what) == [s EXCEPT !.error = [what |-> what, path |-> <<>>]]

-----------------------------------------------------------------------------
(* KernelExpressionVisitor's callbacks.  An error overwrites the one before. *)

(* A literal that is not an interval, NULL included; a column of one part;   *)
(* an unknown expression, which becomes a function without children.        *)
VisitLiteral(s, sibling, node) == Emit(s, sibling, node, <<>>)

\* Mutant: an unsupported literal is skipped silently.
VisitRefusedLiteralSkips(s, sibling, node) == s

(* An interval, a decimal whose value does not cast, a column path of        *)
(* several parts: an error, and nothing is appended.                        *)
VisitRefusedLiteral(s, sibling, node) == Fail(s, "not_implemented")

(* +, -, *, /, NOT, IS NULL, array, struct, opaque.                          *)
VisitFunction(s, sibling, node, ids) ==
  LET taken == TakeFieldLists(s, <<ids.children>>)
  IN  IF ~HasLists(s, <<ids.children>>) THEN taken
      ELSE Emit(taken, sibling, node, [children |-> s.lists[ids.children]])

(* AND, OR, IN: without its list the node is the constant 42.               *)
VisitVariadicExpression(s, sibling, node, ids) ==
  LET taken == TakeFieldLists(s, <<ids.children>>)
  IN  IF ~HasLists(s, <<ids.children>>)
      THEN Emit(taken, sibling, node, [placeholder |-> <<>>])
      ELSE Emit(taken, sibling, node, [children |-> s.lists[ids.children]])

(* Comparisons: a child that was refused leaves the list short.             *)
VisitBinaryExpression(s, sibling, node, ids) ==
  LET taken == TakeFieldLists(s, <<ids.children>>)
      placeholder(t) == Emit(t, sibling, node, [placeholder |-> <<>>])
  IN  IF ~HasLists(s, <<ids.children>>) THEN placeholder(taken)
      ELSE IF Len(s.lists[ids.children]) # 2
      THEN Fail(placeholder(taken), "incorrect_size")
      ELSE Emit(taken, sibling, node, [children |-> s.lists[ids.children]])

(* COALESCE and parse_json: refused, and the children stay in flight.       *)
VisitRefusedNode(s, sibling, node, ids) == Fail(s, "not_implemented")

VisitStructLiteral(s, sibling, node, ids) ==
  LET order == <<ids.keys, ids.values>>
      taken == [s EXCEPT !.lists = [i \in DOMAIN s.lists \
                                           {ids.keys, ids.values} |-> s.lists[i]]]
  IN  IF ~HasLists(s, order) THEN Fail(taken, "missing_list")
      ELSE IF Len(s.lists[ids.keys]) # Len(s.lists[ids.values])
      THEN Fail(taken, "size_mismatch")
      ELSE Emit(taken, sibling, node, [keys |-> s.lists[ids.keys],
                                       values |-> s.lists[ids.values]])

(* TryGetLiteralValue: a constant, or a cast over one.                       *)
IsLiteral(node) == tree[node].kind = "literal"

AllLiteral(s, ids) ==
  \A r \in {"keys", "values"} : \A i \in DOMAIN s.lists[ids[r]] :
    IsLiteral(s.lists[ids[r]][i])

(* Value::MAP (external) goes over the keys and takes the value of each, and *)
(* no exception is caught on the way out of the callback: with fewer values   *)
(* than keys the process ends.  With more of them the rest is ignored.  It    *)
(* may also reject what it is given: a NULL or a duplicate key, an entry      *)
(* that does not cast to the type of the last one; in a debug build, lists    *)
(* of different lengths.                                                    *)
MayReject(s, ids) ==
  /\ HasLists(s, <<ids.keys, ids.values>>)
  /\ s.lists[ids.keys] # <<>> \/ Len(s.lists[ids.keys]) # Len(s.lists[ids.values])

VisitLiteralMap(s, sibling, node, ids, rejects) ==
  LET order == <<ids.keys, ids.values>>
      taken == TakeFieldLists(s, order)
      keys == s.lists[ids.keys]
      values == s.lists[ids.values]
  IN  IF ~HasLists(s, order) THEN taken
      ELSE IF ~AllLiteral(s, ids) THEN Fail(taken, "not_constant")
      ELSE IF rejects \/ Len(values) < Len(keys) THEN Fail(taken, "aborted")
      ELSE Emit(taken, sibling, node,
                [keys |-> keys, values |-> [i \in DOMAIN keys |-> values[i]]])

\* Mutant: the fields to append are taken for the fields to prepend.
VisitStructPatchExpressionSwapped(s, sibling, node, ids) ==
  LET order == <<ids.field_patches, ids.prepended, ids.appended, ids.input_path>>
  IN  Emit(TakeFieldLists(s, order), sibling, node,
           [input_path |-> s.lists[ids.input_path],
            prepended |-> s.lists[ids.appended],
            field_patches |-> s.lists[ids.field_patches],
            appended |-> s.lists[ids.prepended]])

(* A struct patch: the patch operations are the prepended fields, one        *)
(* operation for each patched field, and the appended ones.                 *)
VisitStructPatchExpression(s, sibling, node, ids) ==
  LET order == <<ids.field_patches, ids.prepended, ids.appended, ids.input_path>>
      taken == TakeFieldLists(s, order)
  IN  IF ~HasLists(s, order) THEN taken
      ELSE IF Len(s.lists[ids.input_path]) > 1 THEN Fail(taken, "many_paths")
      ELSE Emit(taken, sibling, node,
                [input_path |-> s.lists[ids.input_path],
                 prepended |-> s.lists[ids.prepended],
                 field_patches |-> s.lists[ids.field_patches],
                 appended |-> s.lists[ids.appended]])

VisitFieldPatch(s, sibling, node, ids) ==
  IF ids.children = 0 THEN Emit(s, sibling, node, [children |-> <<>>])
  ELSE VisitFunction(s, sibling, node, ids)

VisitExpressionNode(s, kind, sibling, node, ids, rejects) ==
  CASE kind = "function" -> VisitFunction(s, sibling, node, ids)
    [] kind = "variadic" -> VisitVariadicExpression(s, sibling, node, ids)
    [] kind = "binary" -> VisitBinaryExpression(s, sibling, node, ids)
    [] kind = "refused_node" -> VisitRefusedNode(s, sibling, node, ids)
    [] kind = "struct_literal" -> VisitStructLiteral(s, sibling, node, ids)
    [] kind = "map_literal" -> VisitLiteralMap(s, sibling, node, ids, rejects)
    [] kind = "struct_patch" -> VisitStructPatchExpression(s, sibling, node, ids)
    [] kind = "field_patch" -> VisitFieldPatch(s, sibling, node, ids)

-----------------------------------------------------------------------------
(* KernelSchemaVisitor's callbacks.  A name is the node it names and the     *)
(* label the kernel gives it: its own, or the one of a container's child.    *)

RecordError(s, what, path) ==
  IF s.error = NoError THEN [s EXCEPT !.error = [what |-> what, path |-> path]]
  ELSE s

SetRefusalError(s) ==
  [s EXCEPT !.error = [what |-> "unsupported", path |-> s.refused.path]]

RefuseType(s, sibling, name) ==
  IF s.error # NoError THEN s
  ELSE SetRefusalError([s EXCEPT !.refused = [path |-> <<name>>, list |-> sibling]])

(* What the message calls a child of a list or a map.                       *)
Shown(label) ==
  CASE label = "array_element" -> "element"
    [] label = "map_key" -> "key"
    [] label = "map_value" -> "value"
    [] OTHER -> label

\* Mutant: the list the refusal is now in is not recorded.
ExtendRefusedPathOnce(s, child_list, sibling, name, list_or_map) ==
  IF s.refused.path = <<>> \/ s.refused.list # child_list THEN s
  ELSE LET child == Head(s.refused.path)
           shown == IF list_or_map THEN [child EXCEPT !.label = Shown(@)] ELSE child
       IN  SetRefusalError([s EXCEPT !.refused.path =
             <<name, shown>> \o Tail(s.refused.path)])

(* Children are visited before their container, so the path of a refused     *)
(* field grows upwards: the container whose list holds it prepends its name. *)
ExtendRefusedPath(s, child_list, sibling, name, list_or_map) ==
  IF s.refused.path = <<>> \/ s.refused.list # child_list THEN s
  ELSE LET child == Head(s.refused.path)
           shown == IF list_or_map THEN [child EXCEPT !.label = Shown(@)] ELSE child
       IN  SetRefusalError([s EXCEPT !.refused =
             [path |-> <<name, shown>> \o Tail(s.refused.path), list |-> sibling]])

\* Mutant: a container takes its children for granted.
HasChildrenUnchecked(children, expected) == TRUE

HasChildren(children, expected) == Len(children) = expected

(* ApplyDeltaColumnMapping, as far as it decides the walk: an annotation     *)
(* that is not what the protocol allows is recorded, and the visit goes on.  *)
ApplyDeltaColumnMapping(s, name, bad) ==
  IF bad THEN RecordError(s, "bad_annotation", <<name>>) ELSE s

(* Every type without children that DuckDB reads.                           *)
VisitSimpleType(s, sibling, node, name, bad) ==
  Emit(ApplyDeltaColumnMapping(s, name, bad), sibling, node, <<>>)

(* Intervals, geometry, geography.                                          *)
VisitRefusedType(s, sibling, name) == RefuseType(s, sibling, name)

(* The callback of a container, once it took its children: `expected` is     *)
(* their number (a struct has any).  A list or a map that is short is        *)
(* dropped, the error in place.  The code after HasChildren reads the         *)
(* children by position, and would abort the process if one were missing:     *)
(* the guard is what makes that outcome impossible.                         *)
VisitSchemaNode(s, kind, sibling, node, name, ids, bad) ==
  LET id == ids.children
      children == IF id \in DOMAIN s.lists THEN s.lists[id] ELSE <<>>
      expected == CASE kind = "array" -> 1 [] kind = "map" -> 2 [] OTHER -> Len(children)
      taken == ExtendRefusedPath(TakeFieldLists(s, <<id>>), id, sibling, name,
                                 kind \in {"array", "map"})
  IN  IF kind = "user_defined"
      THEN RefuseType(ExtendRefusedPath(s, id, sibling, name, FALSE), sibling, name)
      ELSE IF ~HasChildren(children, expected)
      THEN RecordError(taken, "internal", <<name>>)
      ELSE IF Len(children) < expected THEN Fail(taken, "aborted")
      ELSE Emit(ApplyDeltaColumnMapping(taken, name, bad), sibling, node,
                [children |-> children])

-----------------------------------------------------------------------------
(* The kernel's walk.                                                       *)

Top == stack[Len(stack)]
Parent == Top.node
Kids(role) == tree[Parent].kids[role]
NewNode == Cardinality(DOMAIN tree)
InLiteral == \E i \in DOMAIN stack : stack[i].kind \in {"struct_literal", "map_literal"}

(* The nodes a list of the kernel's tree may hold.                          *)
MayHold(role, kind) ==
  LET in == Top.kind
      expression == ExpressionLeaves \cup ExpressionNodes
      scalar == {"literal", "refused_literal"} \cup LiteralNodes
  IN  /\ Top.ids[role] # 0
      /\ kind \in
           (CASE visitor = "schema" -> SchemaLeaves \cup SchemaNodes
              [] in = "struct_literal" /\ role = "keys" -> {"literal"}
              [] in = "map_literal" -> scalar \ {"map_literal"}
              [] in = "struct_patch" /\ role = "field_patches" -> {"field_patch"}
              [] in = "struct_patch" /\ role = "input_path" -> {"column"}
              [] OTHER -> IF InLiteral THEN scalar ELSE expression)
      /\ CASE role = "keys" -> Len(Kids("keys")) = Len(Kids("values"))
           [] role = "values" -> Len(Kids("values")) < Len(Kids("keys"))
           [] role = "input_path" -> Kids("input_path") = <<>>
           [] in = "root" /\ visitor = "expression" -> Kids("children") = <<>>
           [] in \in {"array", "user_defined"} -> Kids("children") = <<>>
           [] in \in {"binary", "map"} -> Len(Kids("children")) < 2
           [] OTHER -> TRUE

(* When the kernel has visited all children of the node it is in.           *)
Complete ==
  CASE Top.kind \in {"binary", "map"} -> Len(Kids("children")) = 2
    [] Top.kind \in {"array", "user_defined"} -> Len(Kids("children")) = 1
    [] Top.kind \in {"struct_literal", "map_literal"} ->
         Len(Kids("keys")) = Len(Kids("values"))
    [] OTHER -> TRUE

(* The label the kernel gives a field: fixed below a list or a map, the      *)
(* table's own elsewhere, where it may be any name.                         *)
Labels ==
  CASE visitor = "expression" -> {"own"}
    [] Top.kind = "array" -> {"array_element"}
    [] Top.kind = "map" -> {IF Kids("children") = <<>> THEN "map_key" ELSE "map_value"}
    [] OTHER -> {"own", "array_element"}

(* The tree with a new node in a list of the node the kernel is in.         *)
Grown(role, kind, label) ==
  [n \in DOMAIN tree \cup {NewNode} |->
     CASE n = NewNode -> [kind |-> kind, label |-> label,
                          kids |-> [r \in RoleSet(kind) |-> <<>>]]
       [] n = Parent -> [tree[n] EXCEPT !.kids[role] = Append(@, NewNode)]
       [] OTHER -> tree[n]]

(* The path from the table's column down to a node below the open ones, as   *)
(* a reader of the schema would write it.                                   *)
PathOf(frames, node, label) ==
  LET kinds == [i \in DOMAIN frames |-> frames[i].kind]
      names == [i \in 1 .. Len(frames) |->
                  IF i = Len(frames) THEN [node |-> node, label |-> label]
                  ELSE [node |-> frames[i + 1].node, label |-> frames[i + 1].label]]
  IN  [i \in DOMAIN names |->
         IF kinds[i] \in {"array", "map"} THEN [names[i] EXCEPT !.label = Shown(@)]
         ELSE names[i]]

Problem(what, path) ==
  first' = IF first = NoError THEN [what |-> what, path |-> path] ELSE first

Room == result = "walking" /\ NewNode <= MaxNodes

(* The kernel visits an expression without children.                        *)
VisitExpressionLeaf(role, kind) ==
  /\ visitor = "expression" /\ Room
  /\ kind \in ExpressionLeaves /\ MayHold(role, kind)
  /\ tree' = Grown(role, kind, "own")
  /\ v' = IF kind = "refused_literal"
          THEN VisitRefusedLiteral(v, Top.ids[role], NewNode)
          ELSE VisitLiteral(v, Top.ids[role], NewNode)
  /\ UNCHANGED <<visitor, stack, first, result>>

(* The kernel visits a field whose type has no children.                    *)
VisitSchemaLeaf(role, kind, label, bad) ==
  LET name == [node |-> NewNode, label |-> label]
  IN  /\ visitor = "schema" /\ Room
      /\ kind \in SchemaLeaves /\ MayHold(role, kind) /\ label \in Labels
      /\ bad => kind = "simple"
      /\ tree' = Grown(role, kind, label)
      /\ v' = IF kind = "refused_type"
              THEN VisitRefusedType(v, Top.ids[role], name)
              ELSE VisitSimpleType(v, Top.ids[role], NewNode, name, bad)
      /\ CASE kind = "refused_type" -> Problem("unsupported", PathOf(stack, NewNode, label))
           [] bad -> Problem("bad_annotation", <<name>>)
           [] OTHER -> UNCHANGED first
      /\ UNCHANGED <<visitor, stack, result>>

(* The kernel enters a node: it allocates the lists of its children.        *)
Enter(role, kind, label, listed) ==
  LET k == IF listed THEN Len(Roles(kind)) ELSE 0
  IN  /\ Room /\ MayHold(role, kind) /\ label \in Labels
      /\ kind \notin ExpressionLeaves \cup SchemaLeaves
      /\ ~listed => kind = "field_patch"
      /\ tree' = Grown(role, kind, label)
      /\ v' = MakeFieldLists(v, k)
      /\ stack' = Append(stack,
           [node |-> NewNode, kind |-> kind, label |-> label,
            sibling |-> Top.ids[role],
            ids |-> [r \in RoleSet(kind) |->
                       IF ~listed THEN 0
                       ELSE v.next_id - 1 + CHOOSE i \in DOMAIN Roles(kind) :
                                              Roles(kind)[i] = r]])
      /\ UNCHANGED <<visitor, first, result>>

(* The kernel leaves an expression: its callback builds it.  `rejects` is the *)
(* outcome of Value::MAP for a map literal whose entries are literals; with    *)
(* as many values as keys, a rejection is a problem the kernel's map has.     *)
LeaveExpression(rejects) ==
  /\ visitor = "expression" /\ result = "walking"
  /\ Len(stack) > 1 /\ Complete
  /\ rejects => Top.kind = "map_literal" /\ MayReject(v, Top.ids) /\ AllLiteral(v, Top.ids)
  /\ v' = VisitExpressionNode(v, Top.kind, Top.sibling, Top.node, Top.ids, rejects)
  /\ stack' = SubSeq(stack, 1, Len(stack) - 1)
  /\ IF rejects /\ Len(v.lists[Top.ids.keys]) = Len(v.lists[Top.ids.values])
     THEN Problem("rejected_entries", <<>>) ELSE UNCHANGED first
  /\ result' = IF v'.error.what = "aborted" THEN "aborted" ELSE result
  /\ UNCHANGED <<visitor, tree>>

(* The kernel leaves a field with children.                                 *)
LeaveField(bad) ==
  LET name == [node |-> Top.node, label |-> Top.label]
      outer == SubSeq(stack, 1, Len(stack) - 1)
  IN  /\ visitor = "schema" /\ result = "walking"
      /\ Len(stack) > 1 /\ Complete
      /\ bad => Top.kind # "user_defined"
      /\ v' = VisitSchemaNode(v, Top.kind, Top.sibling, Top.node, name, Top.ids, bad)
      /\ stack' = outer
      /\ CASE Top.kind = "user_defined" ->
                Problem("unsupported", PathOf(outer, Top.node, Top.label))
           [] bad -> Problem("bad_annotation", <<name>>)
           [] OTHER -> UNCHANGED first
      /\ result' = IF v'.error.what = "aborted" THEN "aborted" ELSE result
      /\ UNCHANGED <<visitor, tree>>

(* The walk is over: ToParsedExpression and ToColumnDefinitions raise the    *)
(* recorded error, or take the list of the result.                          *)
Finish ==
  /\ result = "walking" /\ Len(stack) = 1 /\ Kids("children") # <<>>
  /\ IF v.error # NoError
     THEN result' = "threw" /\ UNCHANGED v
     ELSE /\ v' = [TakeFieldLists(v, <<Top.ids.children>>)
                     EXCEPT !.built[0] = [children |-> v.lists[Top.ids.children]]]
          /\ result' = "returned"
  /\ UNCHANGED <<visitor, stack, tree, first>>

Init ==
  /\ visitor \in {"expression", "schema"}
  /\ v = MakeFieldLists([lists |-> <<>>, next_id |-> 1, error |-> NoError,
                         refused |-> NothingRefused,
                         built |-> [n \in 0 .. MaxNodes |-> <<>>]], 1)
  /\ stack = <<[node |-> 0, kind |-> "root", label |-> "own", sibling |-> 0,
                ids |-> [children |-> 1]]>>
  /\ tree = [n \in {0} |-> [kind |-> "root", label |-> "own",
                            kids |-> [children |-> <<>>]]]
  /\ first = NoError
  /\ result = "walking"

AllRoles == {"children", "keys", "values", "input_path", "prepended",
             "field_patches", "appended"}

Next ==
  \/ \E role \in AllRoles \cap RoleSet(Top.kind) :
       \/ \E kind \in ExpressionLeaves : VisitExpressionLeaf(role, kind)
       \/ \E kind \in SchemaLeaves, label \in Labels, bad \in BOOLEAN :
            VisitSchemaLeaf(role, kind, label, bad)
       \/ \E kind \in ExpressionNodes \cup SchemaNodes \cup {"field_patch"},
             label \in Labels, listed \in BOOLEAN : Enter(role, kind, label, listed)
  \/ \E rejects \in BOOLEAN : LeaveExpression(rejects)
  \/ \E bad \in BOOLEAN : LeaveField(bad)
  \/ Finish

Spec == Init /\ [][Next]_vars

-----------------------------------------------------------------------------
(* Properties.                                                              *)

(* Type correctness of the visitor and of the kernel's walk.                *)
TypeOK ==
  /\ visitor \in {"expression", "schema"}
  /\ result \in {"walking", "returned", "threw", "aborted"}
  /\ v.next_id \in Nat
  /\ DOMAIN v.lists \subseteq 1 .. (v.next_id - 1)
  /\ \A id \in DOMAIN v.lists : v.lists[id] \in Seq(1 .. MaxNodes)
  /\ DOMAIN v.built = 0 .. MaxNodes
  /\ DOMAIN tree = 0 .. (NewNode - 1) /\ NewNode <= MaxNodes + 1
  /\ \A i \in DOMAIN stack : stack[i].node \in DOMAIN tree

(* What the visitor returns is the kernel's tree: every node has the         *)
(* children the kernel visited for it, in their order and in the role they   *)
(* have there (keys and values, prepended and appended fields), and no list  *)
(* is left in flight.  Nodes find their parents by list id alone             *)
(* (inflight_lists), over walks that leave and re-enter lists at any depth.  *)
ResultMirrorsTree ==
  result = "returned" =>
    /\ \A n \in DOMAIN tree :
         v.built[n] = IF tree[n].kind \in ExpressionLeaves \cup SchemaLeaves
                      THEN <<>> ELSE tree[n].kids
    /\ DOMAIN v.lists = {}

(* A node the visitor cannot read.                                          *)
Unreadable(n) ==
  \/ tree[n].kind \in {"refused_literal", "refused_node", "refused_type", "user_defined"}
  \/ /\ tree[n].kind = "map_literal"
     /\ \E r \in {"keys", "values"} : \E i \in DOMAIN tree[n].kids[r] :
          ~IsLiteral(tree[n].kids[r][i])

(* A walk that comes to its end throws exactly when some node, at any depth,  *)
(* cannot be read or is badly annotated.  An unsupported node appends         *)
(* nothing, so a wrong tree of the right shape is one lost error away, and an *)
(* error that the tree does not justify would make a readable table           *)
(* unreadable.  The walks that end with the process are the next property's.  *)
ThrowsExactlyWhenUnreadable ==
  result \in {"returned", "threw"} =>
    (result = "threw" <=> first # NoError \/ \E n \in DOMAIN tree : Unreadable(n))

(* Only a map literal of an expression ends the process: because Value::MAP   *)
(* rejects its entries, or because a key or a value of it was refused, so      *)
(* that VisitLiteralMap has not as many of the one as of the other.  No list   *)
(* or map of a schema does (HasChildren), and no other callback reads a child  *)
(* that a refused node left out.                                            *)
AbortsOnlyInMapLiterals ==
  result = "aborted" =>
    /\ visitor = "expression"
    /\ first.what = "rejected_entries"
         \/ \E n \in DOMAIN tree : tree[n].kind = "map_literal" /\ Unreadable(n)

(* The schema visitor reports the first problem of the walk, and an          *)
(* unsupported type by its full path from the table's column down, with      *)
(* `element`, `key` and `value` for the children of lists and maps only      *)
(* (ExtendRefusedPath, RecordError).  The errors that follow from a child     *)
(* that is missing never replace it.                                        *)
SchemaReportsFirstProblem ==
  visitor = "schema" /\ result = "threw" => v.error = first

=============================================================================
