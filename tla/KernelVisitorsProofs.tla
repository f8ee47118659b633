------------------------ MODULE KernelVisitorsProofs ------------------------
(***************************************************************************)
(* Proofs about KernelVisitors, for walks over trees of any size.  A walk   *)
(* is a sequence of callbacks, and what it has built so far is in the state *)
(* node by node, so no induction over the tree is needed: each callback     *)
(* keeps what the ones before it left true of the nodes that are closed.    *)
(***************************************************************************)
EXTENDS KernelVisitors, FiniteSetTheorems, SequenceTheorems, TLAPS

Kind == ExpressionLeaves \cup ExpressionNodes \cup SchemaLeaves \cup SchemaNodes
          \cup {"root", "field_patch"}

Label == {"own", "array_element", "map_key", "map_value", "element", "key", "value"}
Name == [node : Nat, label : Label]

\* The nodes that the kernel opens in a walk, and those it only visits.
OpenKinds == {"root"} \cup (IF visitor = "schema" THEN SchemaNodes
                            ELSE ExpressionNodes \cup {"field_patch"})
Leaves == IF visitor = "schema" THEN SchemaLeaves ELSE ExpressionLeaves

\* The fields of a visitor, and what is in its lists.
VisitorOK(s) ==
  /\ s = [lists |-> s.lists, next_id |-> s.next_id, error |-> s.error,
          refused |-> s.refused, built |-> s.built]
  /\ s.next_id \in Nat \ {0}
  /\ DOMAIN s.lists \subseteq 1 .. (s.next_id - 1)
  /\ s.lists = [i \in DOMAIN s.lists |-> s.lists[i]]
  /\ \A id \in DOMAIN s.lists : s.lists[id] \in Seq(1 .. MaxNodes)
  /\ s.built = [n \in 0 .. MaxNodes |-> s.built[n]]

\* The kernel's tree: its nodes are numbered as they are met.
TreeOK ==
  /\ visitor \in {"expression", "schema"}
  /\ NewNode \in 1 .. (MaxNodes + 1)
  /\ tree = [n \in 0 .. (NewNode - 1) |-> tree[n]]
  /\ \A n \in DOMAIN tree :
       /\ tree[n] = [kind |-> tree[n].kind, label |-> tree[n].label, kids |-> tree[n].kids]
       /\ tree[n].kind \in OpenKinds \cup Leaves
       /\ tree[n].kind = "root" <=> n = 0
       /\ tree[n].kids \in [RoleSet(tree[n].kind) -> Seq(1 .. (NewNode - 1))]
       /\ tree[n].kind = "struct_patch" => Len(tree[n].kids["input_path"]) <= 1

Frame == [node : Nat, kind : Kind, label : Label, sibling : Nat,
          ids : UNION {[RoleSet(k) -> Nat] : k \in Kind}]

\* An open node is a node of the tree, and its lists are in flight.  Only a field patch
\* without insertions has none.
FrameOK(f) ==
  /\ f.node \in DOMAIN tree /\ f.kind = tree[f.node].kind /\ f.kind \in OpenKinds
  /\ f.ids \in [RoleSet(f.kind) -> Nat]
  /\ \A r \in RoleSet(f.kind) :
       f.ids[r] \in DOMAIN v.lists \/ (f.ids[r] = 0 /\ f.kind = "field_patch")

\* The kernel's open nodes.  No list belongs to two of them or to two roles of one, and
\* each is in a list of the one it was opened in.
StackOK ==
  /\ stack \in Seq(Frame) /\ Len(stack) >= 1
  /\ \A i \in DOMAIN stack : FrameOK(stack[i])
  /\ \A i \in DOMAIN stack : stack[i].node = 0 <=> i = 1
  /\ \A i, j \in DOMAIN stack : stack[i].node = stack[j].node => i = j
  /\ \A i, j \in DOMAIN stack :
       \A r \in RoleSet(stack[i].kind), q \in RoleSet(stack[j].kind) :
         stack[i].ids[r] = stack[j].ids[q] /\ stack[i].ids[r] # 0 => i = j /\ r = q
  /\ \A i \in DOMAIN stack : i + 1 \in DOMAIN stack =>
       /\ stack[i + 1].sibling # 0
       /\ \E r \in RoleSet(stack[i].kind) : stack[i + 1].sibling = stack[i].ids[r]

Closed(n) == n \in DOMAIN tree /\ \A i \in DOMAIN stack : stack[i].node # n

\* As long as there is no error, the list of an open node has the children the kernel
\* visited, up to the one that is open now.
Filled(i, r) ==
  tree[stack[i].node].kids[r] =
    IF stack[i].ids[r] = 0 THEN <<>>
    ELSE IF i + 1 \in DOMAIN stack /\ stack[i + 1].sibling = stack[i].ids[r]
    THEN Append(v.lists[stack[i].ids[r]], stack[i + 1].node)
    ELSE v.lists[stack[i].ids[r]]

\* What the visitor made of a node it is through with.
Built(n) ==
  v.built[n] = IF tree[n].kind \in ExpressionLeaves \cup SchemaLeaves
               THEN <<>> ELSE tree[n].kids

\* So far the visitor has the kernel's tree, and nothing in it is a problem.
Mirrors ==
  /\ first = NoError /\ v.refused.path = <<>>
  /\ \A i \in DOMAIN stack : \A r \in RoleSet(stack[i].kind) : Filled(i, r)
  /\ \A n \in DOMAIN tree : Closed(n) => Built(n) /\ ~Unreadable(n)
  /\ \A id \in DOMAIN v.lists : \E i \in DOMAIN stack :
       \E r \in RoleSet(stack[i].kind) : stack[i].ids[r] = id

\* There is a reason for an error in what the visitor is through with.
Justified == first # NoError \/ \E n \in DOMAIN tree : Closed(n) /\ Unreadable(n)

\* The name of the node a frame is for, as a child of a frame of a kind.
NameIn(kind, name) ==
  IF kind \in {"array", "map"} THEN [name EXCEPT !.label = Shown(@)] ELSE name

FrameName(f) == [node |-> f.node, label |-> f.label]

\* The refused path so far is the end of the path that is to be reported, from below frame
\* d; the names before it are those of the open frames, and its own first name is not yet
\* shown as the child of one.
ReachesUpTo(d) ==
  /\ d \in DOMAIN stack
  /\ first.path \in Seq(Name)
  /\ v.refused.path \in Seq(Name)
  /\ v.refused.path # <<>> /\ Len(first.path) = d - 1 + Len(v.refused.path)
  /\ v.refused.list = stack[d].ids["children"]
  /\ first.path[d] = NameIn(stack[d].kind, v.refused.path[1])
  /\ \A j \in 2 .. Len(v.refused.path) : first.path[d - 1 + j] = v.refused.path[j]
  /\ \A i \in 1 .. (d - 1) : first.path[i] = NameIn(stack[i].kind, FrameName(stack[i + 1]))

\* What the schema visitor recorded of the first problem.
Reports ==
  \/ /\ first.what = "bad_annotation" /\ v.error = first /\ v.refused.path = <<>>
  \/ /\ first.what = "unsupported" /\ first = [what |-> "unsupported", path |-> first.path]
     /\ v.error = [what |-> "unsupported", path |-> v.refused.path]
     /\ \E d \in DOMAIN stack : ReachesUpTo(d)

\* The list of an entry's role in an open map literal has the entries the kernel visited,
\* unless one of them is no literal.
Listed(i, r) ==
  LET kids == tree[stack[i].node].kids[r]
  IN  \/ \E k \in DOMAIN kids : ~IsLiteral(kids[k])
      \/ /\ v.lists[stack[i].ids[r]] = kids
         /\ i + 1 \in DOMAIN stack => stack[i + 1].sibling # stack[i].ids[r]

EntriesListed ==
  \A i \in DOMAIN stack : stack[i].kind = "map_literal" => Listed(i, "keys") /\ Listed(i, "values")

Walk ==
  /\ StackOK
  /\ visitor = "expression" => first = NoError /\ EntriesListed
  /\ v.error = NoError => Mirrors
  /\ v.error # NoError => v.error.what # "none" /\ Justified
  /\ v.error # NoError /\ visitor = "schema" => Reports

IInv ==
  /\ result \in {"walking", "returned", "threw", "aborted"}
  /\ VisitorOK(v) /\ (result # "aborted" => v.error.what # "aborted")
  /\ TreeOK
  /\ \A i \in DOMAIN stack : stack[i].node \in DOMAIN tree
  /\ result = "walking" => Walk
  /\ ResultMirrorsTree /\ ThrowsExactlyWhenUnreadable /\ SchemaReportsFirstProblem
  /\ AbortsOnlyInMapLiterals

-----------------------------------------------------------------------------
USE BoundsAssumption

(* Roles.                                                                  *)

LEMMA RoleSets ==
  ASSUME NEW kind
  PROVE  /\ kind \in {"struct_literal", "map_literal"} =>
              Roles(kind) = <<"keys", "values">> /\ RoleSet(kind) = {"keys", "values"}
         /\ kind = "struct_patch" =>
              /\ Roles(kind) = <<"input_path", "prepended", "field_patches", "appended">>
              /\ RoleSet(kind) = {"input_path", "prepended", "field_patches", "appended"}
         /\ kind \notin {"struct_literal", "map_literal", "struct_patch"} =>
              Roles(kind) = <<"children">> /\ RoleSet(kind) = {"children"}
<1>1. CASE kind \in {"struct_literal", "map_literal"}
  <2>1. Roles(kind) = <<"keys", "values">>
    BY <1>1 DEF Roles
  <2>2. DOMAIN <<"keys", "values">> = {1, 2}
    OBVIOUS
  <2>3. RoleSet(kind) = {<<"keys", "values">>[i] : i \in {1, 2}}
    BY <2>1, <2>2 DEF RoleSet
  <2>. QED
    BY <1>1, <2>1, <2>3
<1>2. CASE kind = "struct_patch"
  <2>. DEFINE roles == <<"input_path", "prepended", "field_patches", "appended">>
  <2>1. Roles(kind) = roles
    BY <1>2 DEF Roles
  <2>2. DOMAIN roles = {1, 2, 3, 4}
    OBVIOUS
  <2>3. RoleSet(kind) = {roles[i] : i \in {1, 2, 3, 4}}
    BY <2>1, <2>2 DEF RoleSet
  <2>. QED
    BY <1>2, <2>1, <2>3
<1>3. CASE kind \notin {"struct_literal", "map_literal", "struct_patch"}
  <2>1. Roles(kind) = <<"children">>
    BY <1>3 DEF Roles
  <2>2. DOMAIN <<"children">> = {1}
    OBVIOUS
  <2>3. RoleSet(kind) = {<<"children">>[i] : i \in {1}}
    BY <2>1, <2>2 DEF RoleSet
  <2>. QED
    BY <1>3, <2>1, <2>3
<1>. QED
  BY <1>1, <1>2, <1>3

LEMMA RoleCount ==
  ASSUME NEW kind
  PROVE  DOMAIN Roles(kind) = 1 .. Len(Roles(kind)) /\ Len(Roles(kind)) \in Nat \ {0}
<1>1. /\ DOMAIN <<"keys", "values">> = 1 .. 2 /\ DOMAIN <<"children">> = 1 .. 1
      /\ DOMAIN <<"input_path", "prepended", "field_patches", "appended">> = 1 .. 4
  OBVIOUS
<1>2. /\ Len(<<"keys", "values">>) = 2 /\ Len(<<"children">>) = 1
      /\ Len(<<"input_path", "prepended", "field_patches", "appended">>) = 4
  OBVIOUS
<1>3. 1 \in Nat \ {0} /\ 2 \in Nat \ {0} /\ 4 \in Nat \ {0}
  OBVIOUS
<1>. QED
  BY <1>1, <1>2, <1>3, RoleSets, Zenon

\* A role has one place among the lists that the kernel allocates for a node.
PlaceOf(kind, r) == CHOOSE i \in DOMAIN Roles(kind) : Roles(kind)[i] = r

LEMMA Places ==
  ASSUME NEW kind, NEW r \in RoleSet(kind)
  PROVE  /\ PlaceOf(kind, r) \in 1 .. Len(Roles(kind))
         /\ Roles(kind)[PlaceOf(kind, r)] = r
<1>1. PICK i \in DOMAIN Roles(kind) : Roles(kind)[i] = r
  BY DEF RoleSet
<1>2. DOMAIN Roles(kind) = 1 .. Len(Roles(kind))
  BY RoleCount
<1>. QED
  BY <1>1, <1>2 DEF PlaceOf

-----------------------------------------------------------------------------
(* The visitor's lists.                                                    *)

LEMMA NodeBound ==
  ASSUME visitor \in {"expression", "schema"}
  PROVE  MaxNodes \in Nat
  BY DEF MaxNodes

LEMMA FailFields ==
  ASSUME NEW s, NEW what, VisitorOK(s)
  PROVE  /\ VisitorOK(Fail(s, what))
         /\ Fail(s, what).error = [what |-> what, path |-> <<>>]
         /\ Fail(s, what).lists = s.lists /\ Fail(s, what).next_id = s.next_id
         /\ Fail(s, what).built = s.built /\ Fail(s, what).refused = s.refused
  BY DEF Fail, VisitorOK

\* The visitor t is s without the lists in own.
Taken(s, t, own) ==
  /\ VisitorOK(t) /\ t.error = s.error /\ t.next_id = s.next_id
  /\ t.built = s.built /\ t.refused = s.refused
  /\ DOMAIN t.lists = DOMAIN s.lists \ own
  /\ \A id \in DOMAIN t.lists : t.lists[id] = s.lists[id]

\* The lists that are taken were in flight, and are not any more.
LEMMA TakeFields ==
  ASSUME NEW s, NEW order \in Seq(Nat), VisitorOK(s), HasLists(s, order)
  PROVE  Taken(s, TakeFieldLists(s, order), {order[j] : j \in DOMAIN order})
<1>. DEFINE t == TakeFieldLists(s, order)
            lists == [i \in DOMAIN s.lists \ {order[j] : j \in DOMAIN order} |-> s.lists[i]]
<1>1. {i \in DOMAIN order : \A j \in 1 .. i : order[j] \in DOMAIN s.lists} = DOMAIN order
  <2>1. DOMAIN order = 1 .. Len(order) /\ Len(order) \in Nat
    OBVIOUS
  <2>. QED
    BY <2>1 DEF HasLists
<1>2. t = [s EXCEPT !.lists = lists, !.error = @]
  BY <1>1, Zenon DEF TakeFieldLists
<1>. HIDE DEF t
<1>3. /\ t.lists = lists /\ t.error = s.error /\ t.next_id = s.next_id
      /\ t.built = s.built /\ t.refused = s.refused
      /\ t = [lists |-> t.lists, next_id |-> t.next_id, error |-> t.error,
              refused |-> t.refused, built |-> t.built]
  BY <1>2 DEF VisitorOK
<1>4. /\ DOMAIN t.lists = DOMAIN s.lists \ {order[j] : j \in DOMAIN order}
      /\ \A id \in DOMAIN t.lists : t.lists[id] = s.lists[id]
      /\ t.lists = [i \in DOMAIN t.lists |-> t.lists[i]]
  BY <1>3
<1>5. VisitorOK(t)
  <2>. HIDE DEF lists
  <2>. QED
    BY <1>3, <1>4 DEF VisitorOK
<1>. QED
  BY <1>3, <1>4, <1>5 DEF t, Taken

\* The visitor t is s with a node built and in the list of its siblings.
Emitted(s, t, sibling, node, children) ==
  /\ VisitorOK(t) /\ t.error = s.error /\ t.next_id = s.next_id /\ t.refused = s.refused
  /\ t.built = [s.built EXCEPT ![node] = children]
  /\ DOMAIN t.lists = DOMAIN s.lists
  /\ \A id \in DOMAIN t.lists :
       t.lists[id] = IF id = sibling THEN Append(s.lists[id], node) ELSE s.lists[id]

\* A node that is built is in the list of its siblings.
LEMMA EmitFields ==
  ASSUME NEW s, NEW sibling, NEW node, NEW children, VisitorOK(s),
         sibling \in DOMAIN s.lists, node \in 1 .. MaxNodes
  PROVE  Emitted(s, Emit(s, sibling, node, children), sibling, node, children)
<1>. DEFINE b == [s EXCEPT !.built[node] = children]
            lists == [s.lists EXCEPT ![sibling] = Append(@, node)]
            built == [s.built EXCEPT ![node] = children]
            t == Emit(s, sibling, node, children)
<1>1. /\ b.lists = s.lists /\ b.error = s.error /\ b.next_id = s.next_id
      /\ b.built = built /\ b.refused = s.refused
      /\ b = [lists |-> b.lists, next_id |-> b.next_id, error |-> b.error,
              refused |-> b.refused, built |-> b.built]
  <2>1. b = [s EXCEPT !.built = built]
    BY DEF VisitorOK
  <2>. HIDE DEF b, built
  <2>. QED
    BY <2>1 DEF VisitorOK
<1>2. t = [b EXCEPT !.lists[sibling] = Append(@, node)]
  BY <1>1, Zenon DEF Emit, AppendToList
<1>. HIDE DEF b, t
<1>3. /\ t.lists = lists /\ t.error = s.error /\ t.next_id = s.next_id
      /\ t.built = built /\ t.refused = s.refused
      /\ t = [lists |-> t.lists, next_id |-> t.next_id, error |-> t.error,
              refused |-> t.refused, built |-> t.built]
  BY <1>1, <1>2
<1>4. /\ DOMAIN t.lists = DOMAIN s.lists
      /\ \A id \in DOMAIN s.lists :
           t.lists[id] = IF id = sibling THEN Append(s.lists[id], node) ELSE s.lists[id]
      /\ t.lists = [i \in DOMAIN t.lists |-> t.lists[i]]
      /\ t.built = [n \in 0 .. MaxNodes |-> t.built[n]]
  BY <1>3 DEF VisitorOK
<1>5. \A id \in DOMAIN t.lists : t.lists[id] \in Seq(1 .. MaxNodes)
  <2>1. \A q \in Seq(1 .. MaxNodes) : Append(q, node) \in Seq(1 .. MaxNodes)
    OBVIOUS
  <2>. QED
    BY <1>4, <2>1 DEF VisitorOK
<1>6. VisitorOK(t)
  <2>. HIDE DEF lists, built
  <2>. QED
    BY <1>3, <1>4, <1>5 DEF VisitorOK
<1>. QED
  BY <1>3, <1>4, <1>6 DEF t, Emitted

\* The lists the kernel allocates for a node are new and empty.
LEMMA MakeFields ==
  ASSUME NEW s, NEW k \in Nat, VisitorOK(s)
  PROVE  /\ VisitorOK(MakeFieldLists(s, k))
         /\ MakeFieldLists(s, k).error = s.error /\ MakeFieldLists(s, k).refused = s.refused
         /\ MakeFieldLists(s, k).built = s.built /\ MakeFieldLists(s, k).next_id = s.next_id + k
         /\ DOMAIN MakeFieldLists(s, k).lists =
              DOMAIN s.lists \cup (s.next_id .. (s.next_id + k - 1))
         /\ \A id \in DOMAIN s.lists : MakeFieldLists(s, k).lists[id] = s.lists[id]
         /\ \A id \in s.next_id .. (s.next_id + k - 1) : MakeFieldLists(s, k).lists[id] = <<>>
<1>. DEFINE ids == s.next_id .. (s.next_id + k - 1)
            lists == [i \in DOMAIN s.lists \cup ids |->
                        IF i \in DOMAIN s.lists THEN s.lists[i] ELSE <<>>]
            t == MakeFieldLists(s, k)
<1>1. t = [s EXCEPT !.next_id = @ + k, !.lists = lists]
  BY Zenon DEF MakeFieldLists
<1>. HIDE DEF t
<1>2. /\ t.lists = lists /\ t.error = s.error /\ t.next_id = s.next_id + k
      /\ t.built = s.built /\ t.refused = s.refused
      /\ t = [lists |-> t.lists, next_id |-> t.next_id, error |-> t.error,
              refused |-> t.refused, built |-> t.built]
  <2>. HIDE DEF lists
  <2>. QED
    BY <1>1 DEF VisitorOK
<1>3. /\ DOMAIN t.lists = DOMAIN s.lists \cup ids
      /\ \A id \in DOMAIN t.lists : t.lists[id] = IF id \in DOMAIN s.lists THEN s.lists[id] ELSE <<>>
      /\ t.lists = [i \in DOMAIN t.lists |-> t.lists[i]]
  <2>. HIDE DEF ids
  <2>. QED
    BY <1>2
<1>4. s.next_id \in Nat \ {0} /\ \A id \in ids : id \notin DOMAIN s.lists
  BY DEF VisitorOK
<1>5. DOMAIN t.lists \subseteq 1 .. (t.next_id - 1) /\ t.next_id \in Nat \ {0}
  <2>1. \A id \in DOMAIN s.lists : id \in 1 .. (s.next_id - 1)
    BY DEF VisitorOK
  <2>2. \A id \in 1 .. (s.next_id - 1) : id \in 1 .. (s.next_id + k - 1)
    BY <1>4
  <2>3. \A id \in ids : id \in 1 .. (s.next_id + k - 1)
    BY <1>4
  <2>4. s.next_id + k \in Nat \ {0}
    BY <1>4
  <2>. HIDE DEF ids, lists
  <2>. QED
    <3>1. \A id \in DOMAIN t.lists : id \in 1 .. (s.next_id + k - 1)
      BY <1>3, <2>1, <2>2, <2>3, Zenon
    <3>2. t.next_id = s.next_id + k
      BY <1>2
    <3>. QED
      BY <1>4, <2>4, <3>1, <3>2
<1>6. \A id \in DOMAIN t.lists : t.lists[id] \in Seq(1 .. MaxNodes)
  <2>1. <<>> \in Seq(1 .. MaxNodes)
    OBVIOUS
  <2>. HIDE DEF ids, lists
  <2>. QED
    BY <1>3, <2>1 DEF VisitorOK
<1>7. VisitorOK(t)
  <2>. HIDE DEF ids, lists
  <2>. QED
    BY <1>2, <1>3, <1>5, <1>6 DEF VisitorOK
<1>. HIDE DEF lists
<1>. QED
  BY <1>2, <1>3, <1>4, <1>7 DEF t

\* VisitStructLiteral takes both lists at once.
LEMMA RemoveFields ==
  ASSUME NEW s, NEW D, VisitorOK(s), NEW t,
         t = [s EXCEPT !.lists = [i \in DOMAIN s.lists \ D |-> s.lists[i]]]
  PROVE  Taken(s, t, D)
<1>. DEFINE lists == [i \in DOMAIN s.lists \ D |-> s.lists[i]]
<1>1. /\ t.lists = lists /\ t.error = s.error /\ t.next_id = s.next_id
      /\ t.built = s.built /\ t.refused = s.refused
      /\ t = [lists |-> t.lists, next_id |-> t.next_id, error |-> t.error,
              refused |-> t.refused, built |-> t.built]
  <2>1. t = [s EXCEPT !.lists = lists]
    OBVIOUS
  <2>. HIDE DEF lists
  <2>. QED
    BY <2>1 DEF VisitorOK
<1>2. /\ DOMAIN t.lists = DOMAIN s.lists \ D
      /\ \A id \in DOMAIN t.lists : t.lists[id] = s.lists[id]
      /\ t.lists = [i \in DOMAIN t.lists |-> t.lists[i]]
  BY <1>1
<1>. HIDE DEF lists
<1>. QED
  BY <1>1, <1>2 DEF VisitorOK, Taken

-----------------------------------------------------------------------------
(* The callback of an expression.                                          *)

OwnIds(f) == {f.ids[r] : r \in RoleSet(f.kind)}

\* The children a callback gives its node: those in its lists, and in a map literal the values
\* of the keys there are.
Children(f) ==
  [r \in RoleSet(f.kind) |->
     IF f.ids[r] = 0 THEN <<>>
     ELSE IF f.kind = "map_literal" /\ r = "values"
     THEN [i \in DOMAIN v.lists[f.ids["keys"]] |-> v.lists[f.ids["values"]][i]]
     ELSE v.lists[f.ids[r]]]

\* A callback takes no list but those of its node, and appends to none but its siblings.
Kept(t, own, sibling) ==
  /\ VisitorOK(t) /\ t.next_id = v.next_id
  /\ DOMAIN t.lists \subseteq DOMAIN v.lists /\ DOMAIN v.lists \ own \subseteq DOMAIN t.lists
  /\ \A id \in DOMAIN t.lists : id # sibling => t.lists[id] = v.lists[id]

\* It builds the node and appends it to its siblings.
Visited(t, own, sibling, node, children) ==
  /\ DOMAIN t.lists = DOMAIN v.lists \ own
  /\ \A id \in DOMAIN t.lists :
       t.lists[id] = IF id = sibling THEN Append(v.lists[id], node) ELSE v.lists[id]
  /\ t.built = [v.built EXCEPT ![node] = children]

\* What a callback refuses of the lists it finds.
Refuses(f) ==
  \/ f.kind = "refused_node"
  \/ f.kind = "binary" /\ Len(v.lists[f.ids["children"]]) # 2
  \/ f.kind = "struct_literal" /\ Len(v.lists[f.ids["keys"]]) # Len(v.lists[f.ids["values"]])
  \/ /\ f.kind = "map_literal"
     /\ \E r \in {"keys", "values"} : \E i \in DOMAIN v.lists[f.ids[r]] :
          ~IsLiteral(v.lists[f.ids[r]][i])
  \/ f.kind = "struct_patch" /\ Len(v.lists[f.ids["input_path"]]) > 1

\* When the process ends instead.
Aborts(f, rejects) ==
  /\ f.kind = "map_literal" /\ ~Refuses(f)
  /\ rejects \/ Len(v.lists[f.ids["values"]]) < Len(v.lists[f.ids["keys"]])

\* Taking the lists of a node, and building it from them, go through.
TakesAndEmits(order, own, sibling, node, children) ==
  LET t == TakeFieldLists(v, order)
      u == Emit(t, sibling, node, children)
  IN  /\ HasLists(v, order)
      /\ Kept(t, own, sibling) /\ t.refused = v.refused /\ t.error = v.error
      /\ Kept(u, own, sibling) /\ u.refused = v.refused /\ u.error = v.error
      /\ Visited(u, own, sibling, node, children)

LEMMA TakeAndEmit ==
  ASSUME NEW order \in Seq(Nat), NEW own, NEW sibling, NEW node, NEW children,
         VisitorOK(v), HasLists(v, order), own = {order[j] : j \in DOMAIN order},
         sibling \in DOMAIN v.lists \ own, node \in 1 .. MaxNodes
  PROVE  TakesAndEmits(order, own, sibling, node, children)
<1>. DEFINE t == TakeFieldLists(v, order)
            u == Emit(t, sibling, node, children)
<1>1. Taken(v, t, own)
  BY TakeFields
<1>2. VisitorOK(t) /\ sibling \in DOMAIN t.lists
  BY <1>1 DEF Taken
<1>3. Emitted(t, u, sibling, node, children)
  BY <1>2, EmitFields
<1>. HIDE DEF t, u
<1>4. Kept(t, own, sibling) /\ Kept(u, own, sibling)
  BY <1>1, <1>3 DEF Kept, Taken, Emitted
<1>5. Visited(u, own, sibling, node, children)
  BY <1>1, <1>3 DEF Visited, Taken, Emitted
<1>. QED
  BY <1>1, <1>3, <1>4, <1>5 DEF t, u, Taken, Emitted, TakesAndEmits

\* A node the kernel leaves finds its lists and the one its siblings are in.
Ready(f) ==
  /\ VisitorOK(v) /\ FrameOK(f) /\ f.node \in 1 .. MaxNodes
  /\ f.sibling \in DOMAIN v.lists \ OwnIds(f)

\* What becomes of the visitor: the node is built, or refused with an error.
Outcome(f, t) ==
  /\ Kept(t, OwnIds(f), f.sibling) /\ t.refused = v.refused
  /\ Refuses(f) => t.error.what \notin {"none", "aborted"}
  /\ ~Refuses(f) => /\ t.error = v.error
                    /\ Visited(t, OwnIds(f), f.sibling, f.node, Children(f))

OutcomeOrAbort(f, t, rejects) ==
  /\ ~Aborts(f, rejects) => Outcome(f, t)
  /\ Aborts(f, rejects) => t.error.what = "aborted" /\ Kept(t, OwnIds(f), f.sibling)

LEMMA ReadyLists ==
  ASSUME NEW f, Ready(f), f.kind # "field_patch"
  PROVE  /\ \A r \in RoleSet(f.kind) : f.ids[r] \in DOMAIN v.lists /\ f.ids[r] \in Nat \ {0}
         /\ f.kind # "map_literal" => Children(f) = [r \in RoleSet(f.kind) |-> v.lists[f.ids[r]]]
<1>1. ASSUME NEW r \in RoleSet(f.kind) PROVE f.ids[r] \in DOMAIN v.lists /\ f.ids[r] \in Nat \ {0}
  <2>1. f.ids[r] \in DOMAIN v.lists
    BY DEF Ready, FrameOK
  <2>. QED
    BY <2>1 DEF Ready, VisitorOK
<1>. QED
  BY <1>1 DEF Children

LEMMA OneList ==
  ASSUME NEW f, Ready(f), RoleSet(f.kind) = {"children"}, f.ids["children"] \in DOMAIN v.lists,
         NEW children
  PROVE  TakesAndEmits(<<f.ids["children"]>>, OwnIds(f), f.sibling, f.node, children)
<1>. DEFINE id == f.ids["children"]
<1>1. id \in Nat
  BY DEF Ready, VisitorOK
<1>2. OwnIds(f) = {id}
  BY DEF OwnIds
<1>. HIDE DEF id
<1>3. /\ <<id>> \in Seq(Nat) /\ DOMAIN <<id>> = {1} /\ <<id>>[1] = id
  BY <1>1
<1>4. {<<id>>[j] : j \in DOMAIN <<id>>} = {id}
  BY <1>3
<1>5. HasLists(v, <<id>>)
  BY <1>3 DEF HasLists, id
<1>6. /\ VisitorOK(v) /\ f.sibling \in DOMAIN v.lists \ {id} /\ f.node \in 1 .. MaxNodes
      /\ {id} \subseteq Nat
  BY <1>1, <1>2 DEF Ready
<1>. QED
  <2>1. TakesAndEmits(<<id>>, {id}, f.sibling, f.node, children)
    BY <1>3, <1>4, <1>5, <1>6, TakeAndEmit
  <2>. QED
    BY <1>2, <2>1 DEF id

LEMMA TwoLists ==
  ASSUME NEW f, Ready(f), f.kind \in {"struct_literal", "map_literal"}, NEW children
  PROVE  TakesAndEmits(<<f.ids["keys"], f.ids["values"]>>, OwnIds(f), f.sibling, f.node, children)
<1>. DEFINE k == f.ids["keys"]
            w == f.ids["values"]
<1>1. RoleSet(f.kind) = {"keys", "values"}
  BY RoleSets
<1>2. k \in Nat /\ w \in Nat /\ k \in DOMAIN v.lists /\ w \in DOMAIN v.lists
  BY <1>1, ReadyLists
<1>3. OwnIds(f) = {k, w}
  BY <1>1 DEF OwnIds
<1>. HIDE DEF k, w
<1>4. <<k, w>> \in Seq(Nat) /\ DOMAIN <<k, w>> = {1, 2} /\ <<k, w>>[1] = k /\ <<k, w>>[2] = w
  BY <1>2
<1>5. {<<k, w>>[j] : j \in DOMAIN <<k, w>>} = {k, w}
  BY <1>4
<1>6. HasLists(v, <<k, w>>)
  BY <1>2, <1>4 DEF HasLists
<1>7. /\ VisitorOK(v) /\ f.sibling \in DOMAIN v.lists \ {k, w} /\ f.node \in 1 .. MaxNodes
      /\ {k, w} \subseteq Nat
  BY <1>2, <1>3 DEF Ready
<1>. QED
  <2>1. TakesAndEmits(<<k, w>>, {k, w}, f.sibling, f.node, children)
    BY <1>4, <1>5, <1>6, <1>7, TakeAndEmit
  <2>. QED
    BY <1>3, <2>1 DEF k, w

LEMMA FourLists ==
  ASSUME NEW f, Ready(f), f.kind = "struct_patch", NEW children
  PROVE  TakesAndEmits(<<f.ids["field_patches"], f.ids["prepended"], f.ids["appended"],
                         f.ids["input_path"]>>, OwnIds(f), f.sibling, f.node, children)
<1>. DEFINE a == f.ids["field_patches"]
            b == f.ids["prepended"]
            c == f.ids["appended"]
            d == f.ids["input_path"]
<1>1. RoleSet(f.kind) = {"input_path", "prepended", "field_patches", "appended"}
  BY RoleSets
<1>2. {a, b, c, d} \subseteq Nat /\ {a, b, c, d} \subseteq DOMAIN v.lists
  BY <1>1, ReadyLists
<1>3. OwnIds(f) = {a, b, c, d}
  BY <1>1 DEF OwnIds
<1>. HIDE DEF a, b, c, d
<1>. DEFINE order == <<a, b, c, d>>
<1>4. /\ order \in Seq(Nat) /\ DOMAIN order = {1, 2, 3, 4}
      /\ order[1] = a /\ order[2] = b /\ order[3] = c /\ order[4] = d
  BY <1>2
<1>. HIDE DEF order
<1>5. {order[j] : j \in DOMAIN order} = {a, b, c, d}
  BY <1>4
<1>6. HasLists(v, order)
  BY <1>2, <1>4 DEF HasLists
<1>7. VisitorOK(v) /\ f.sibling \in DOMAIN v.lists \ {a, b, c, d} /\ f.node \in 1 .. MaxNodes
  BY <1>3 DEF Ready
<1>. QED
  <2>1. TakesAndEmits(order, {a, b, c, d}, f.sibling, f.node, children)
    BY <1>4, <1>5, <1>6, <1>7, TakeAndEmit
  <2>. QED
    BY <1>3, <2>1 DEF a, b, c, d, order

\* A visitor with a new error is otherwise the same.
LEMMA FailKeeps ==
  ASSUME NEW t, NEW own, NEW sibling, NEW what, Kept(t, own, sibling)
  PROVE  /\ Kept(Fail(t, what), own, sibling) /\ Fail(t, what).error.what = what
         /\ Fail(t, what).refused = t.refused
<1>1. VisitorOK(t)
  BY DEF Kept
<1>. DEFINE u == Fail(t, what)
<1>2. /\ VisitorOK(u) /\ u.error = [what |-> what, path |-> <<>>]
      /\ u.lists = t.lists /\ u.next_id = t.next_id /\ u.refused = t.refused
  BY <1>1, FailFields
<1>. HIDE DEF u
<1>3. u.error.what = what
  BY <1>2
<1>. QED
  BY <1>2, <1>3 DEF Kept, u

LEMMA RefusalOutcome ==
  ASSUME NEW f, NEW t, NEW what, what \notin {"none", "aborted"}, Refuses(f),
         Kept(t, OwnIds(f), f.sibling), t.refused = v.refused
  PROVE  Outcome(f, Fail(t, what))
<1>1. /\ Kept(Fail(t, what), OwnIds(f), f.sibling) /\ Fail(t, what).error.what = what
      /\ Fail(t, what).refused = v.refused
  BY FailKeeps
<1>. QED
  BY <1>1 DEF Outcome

LEMMA FunctionCallback ==
  ASSUME NEW f, Ready(f), RoleSet(f.kind) = {"children"}, f.ids["children"] \in DOMAIN v.lists
  PROVE  LET t == VisitFunction(v, f.sibling, f.node, f.ids)
         IN  /\ Kept(t, OwnIds(f), f.sibling) /\ t.refused = v.refused /\ t.error = v.error
             /\ Visited(t, OwnIds(f), f.sibling, f.node, Children(f))
<1>. DEFINE c == [children |-> v.lists[f.ids["children"]]]
<1>1. TakesAndEmits(<<f.ids["children"]>>, OwnIds(f), f.sibling, f.node, c)
  BY OneList
<1>2. Children(f) = c
  <2>1. f.ids["children"] # 0
    BY DEF Ready, VisitorOK
  <2>. QED
    BY <2>1 DEF Children
<1>. HIDE DEF c
<1>. QED
  BY <1>1, <1>2 DEF TakesAndEmits, VisitFunction, c

LEMMA VariadicCallback ==
  ASSUME NEW f, Ready(f), f.kind = "variadic"
  PROVE  Outcome(f, VisitVariadicExpression(v, f.sibling, f.node, f.ids))
<1>. DEFINE c == [children |-> v.lists[f.ids["children"]]]
<1>1. RoleSet(f.kind) = {"children"} /\ f.ids["children"] \in DOMAIN v.lists
  BY RoleSets, ReadyLists
<1>2. TakesAndEmits(<<f.ids["children"]>>, OwnIds(f), f.sibling, f.node, c)
  BY <1>1, OneList
<1>3. Children(f) = c
  BY <1>1, ReadyLists
<1>4. ~Refuses(f)
  BY DEF Refuses
<1>. HIDE DEF c
<1>. QED
  BY <1>2, <1>3, <1>4 DEF TakesAndEmits, VisitVariadicExpression, c, Outcome

LEMMA BinaryCallback ==
  ASSUME NEW f, Ready(f), f.kind = "binary"
  PROVE  Outcome(f, VisitBinaryExpression(v, f.sibling, f.node, f.ids))
<1>. DEFINE order == <<f.ids["children"]>>
            c == [children |-> v.lists[f.ids["children"]]]
            placeholder == [placeholder |-> <<>>]
            t == Emit(TakeFieldLists(v, order), f.sibling, f.node, placeholder)
<1>1. RoleSet(f.kind) = {"children"} /\ f.ids["children"] \in DOMAIN v.lists
  BY RoleSets, ReadyLists
<1>2. /\ TakesAndEmits(order, OwnIds(f), f.sibling, f.node, c)
      /\ TakesAndEmits(order, OwnIds(f), f.sibling, f.node, placeholder)
  BY <1>1, OneList
<1>3. Children(f) = c
  BY <1>1, ReadyLists
<1>. HIDE DEF c, placeholder
<1>4. CASE Len(v.lists[f.ids["children"]]) # 2
  <2>1. VisitBinaryExpression(v, f.sibling, f.node, f.ids) = Fail(t, "incorrect_size")
    BY <1>2, <1>4, Zenon DEF VisitBinaryExpression, TakesAndEmits, placeholder
  <2>2. Kept(t, OwnIds(f), f.sibling) /\ t.refused = v.refused
    BY <1>2 DEF TakesAndEmits
  <2>3. Refuses(f)
    BY <1>4 DEF Refuses
  <2>. HIDE DEF t
  <2>. QED
    BY <2>1, <2>2, <2>3, RefusalOutcome
<1>5. CASE Len(v.lists[f.ids["children"]]) = 2
  <2>1. VisitBinaryExpression(v, f.sibling, f.node, f.ids) =
          Emit(TakeFieldLists(v, order), f.sibling, f.node, c)
    BY <1>2, <1>5, Zenon DEF VisitBinaryExpression, TakesAndEmits, c
  <2>2. ~Refuses(f)
    BY <1>5 DEF Refuses
  <2>. QED
    BY <1>2, <1>3, <2>1, <2>2 DEF TakesAndEmits, Outcome
<1>. QED
  BY <1>4, <1>5

LEMMA RefusedNodeCallback ==
  ASSUME NEW f, Ready(f), f.kind = "refused_node"
  PROVE  Outcome(f, VisitRefusedNode(v, f.sibling, f.node, f.ids))
<1>1. Kept(v, OwnIds(f), f.sibling) /\ Refuses(f)
  BY DEF Kept, Refuses, Ready
<1>. QED
  BY <1>1, FailKeeps DEF Outcome, VisitRefusedNode

LEMMA FieldPatchCallback ==
  ASSUME NEW f, Ready(f), f.kind = "field_patch"
  PROVE  Outcome(f, VisitFieldPatch(v, f.sibling, f.node, f.ids))
<1>1. RoleSet(f.kind) = {"children"} /\ ~Refuses(f)
  BY RoleSets DEF Refuses
<1>2. f.ids["children"] \in DOMAIN v.lists \/ f.ids["children"] = 0
  BY <1>1 DEF Ready, FrameOK
<1>3. CASE f.ids["children"] \in DOMAIN v.lists
  <2>1. f.ids["children"] # 0
    BY <1>3 DEF Ready, VisitorOK
  <2>. QED
    BY <1>1, <1>3, <2>1, FunctionCallback DEF VisitFieldPatch, Outcome
<1>4. CASE f.ids["children"] = 0
  <2>. DEFINE c == [children |-> <<>>]
              t == Emit(v, f.sibling, f.node, c)
  <2>1. VisitFieldPatch(v, f.sibling, f.node, f.ids) = t
    BY <1>4 DEF VisitFieldPatch
  <2>2. Emitted(v, t, f.sibling, f.node, c)
    BY EmitFields DEF Ready
  <2>3. Children(f) = c
    BY <1>1, <1>4 DEF Children
  <2>4. OwnIds(f) = {0} /\ 0 \notin DOMAIN v.lists
    BY <1>1, <1>4 DEF OwnIds, Ready, VisitorOK
  <2>. HIDE DEF c, t
  <2>. QED
    BY <1>1, <2>1, <2>2, <2>3, <2>4 DEF Outcome, Emitted, Kept, Visited
<1>. QED
  BY <1>2, <1>3, <1>4

LEMMA StructLiteralCallback ==
  ASSUME NEW f, Ready(f), f.kind = "struct_literal"
  PROVE  Outcome(f, VisitStructLiteral(v, f.sibling, f.node, f.ids))
<1>. DEFINE order == <<f.ids["keys"], f.ids["values"]>>
            k == v.lists[f.ids["keys"]]
            w == v.lists[f.ids["values"]]
            c == [keys |-> k, values |-> w]
            t == [v EXCEPT !.lists = [i \in DOMAIN v.lists \ {f.ids["keys"], f.ids["values"]} |->
                                        v.lists[i]]]
            u == Emit(t, f.sibling, f.node, c)
<1>1. RoleSet(f.kind) = {"keys", "values"}
  BY RoleSets
<1>2. OwnIds(f) = {f.ids["keys"], f.ids["values"]}
  BY <1>1 DEF OwnIds
<1>3. Taken(v, t, OwnIds(f))
  BY <1>2, RemoveFields DEF Ready
<1>4. HasLists(v, order)
  BY TwoLists DEF TakesAndEmits
<1>5. Children(f) = c
  BY <1>1, ReadyLists
<1>6. VisitStructLiteral(v, f.sibling, f.node, f.ids) =
        IF Len(k) # Len(w) THEN Fail(t, "size_mismatch") ELSE u
  BY <1>4, Zenon DEF VisitStructLiteral
<1>. HIDE DEF t
<1>7. Emitted(t, u, f.sibling, f.node, c)
  <2>1. VisitorOK(t) /\ f.sibling \in DOMAIN t.lists /\ f.node \in 1 .. MaxNodes
    BY <1>3 DEF Taken, Ready
  <2>. QED
    BY <2>1, EmitFields
<1>8. Kept(t, OwnIds(f), f.sibling) /\ t.refused = v.refused
  BY <1>3 DEF Taken, Kept
<1>9. Refuses(f) <=> Len(k) # Len(w)
  BY DEF Refuses
<1>. HIDE DEF u, c, k, w
<1>10. CASE Len(k) # Len(w)
  <2>1. VisitStructLiteral(v, f.sibling, f.node, f.ids) = Fail(t, "size_mismatch") /\ Refuses(f)
    BY <1>6, <1>9, <1>10
  <2>. QED
    BY <1>8, <2>1, RefusalOutcome
<1>11. CASE Len(k) = Len(w)
  <2>1. Kept(u, OwnIds(f), f.sibling) /\ u.refused = v.refused /\ u.error = v.error
    BY <1>3, <1>7 DEF Taken, Emitted, Kept
  <2>2. Visited(u, OwnIds(f), f.sibling, f.node, c)
    BY <1>3, <1>7 DEF Taken, Emitted, Visited
  <2>. QED
    BY <1>5, <1>6, <1>9, <1>11, <2>1, <2>2 DEF Outcome
<1>. QED
  BY <1>10, <1>11

LEMMA LiteralMapCallback ==
  ASSUME NEW f, Ready(f), f.kind = "map_literal", NEW rejects \in BOOLEAN, NEW m,
         m = VisitLiteralMap(v, f.sibling, f.node, f.ids, rejects)
  PROVE  OutcomeOrAbort(f, m, rejects)
<1>. DEFINE order == <<f.ids["keys"], f.ids["values"]>>
            k == v.lists[f.ids["keys"]]
            w == v.lists[f.ids["values"]]
            c == [keys |-> k, values |-> [i \in DOMAIN k |-> w[i]]]
            t == TakeFieldLists(v, order)
            u == Emit(t, f.sibling, f.node, c)
<1>1. RoleSet(f.kind) = {"keys", "values"}
  BY RoleSets
<1>2. TakesAndEmits(order, OwnIds(f), f.sibling, f.node, c)
  BY TwoLists
<1>3. Children(f) = c
  <2>1. f.ids["keys"] # 0 /\ f.ids["values"] # 0
    BY <1>1, ReadyLists
  <2>. QED
    BY <1>1, <2>1 DEF Children
<1>4. Refuses(f) <=> ~AllLiteral(v, f.ids)
  BY DEF Refuses, AllLiteral
<1>5. m = IF Refuses(f) THEN Fail(t, "not_constant")
          ELSE IF rejects \/ Len(w) < Len(k) THEN Fail(t, "aborted")
          ELSE u
  BY <1>2, <1>4, Zenon DEF VisitLiteralMap, TakesAndEmits
<1>6. /\ Kept(t, OwnIds(f), f.sibling) /\ t.refused = v.refused
      /\ Kept(u, OwnIds(f), f.sibling) /\ u.refused = v.refused /\ u.error = v.error
      /\ Visited(u, OwnIds(f), f.sibling, f.node, c)
  BY <1>2 DEF TakesAndEmits
<1>7. Aborts(f, rejects) <=> ~Refuses(f) /\ (rejects \/ Len(w) < Len(k))
  BY DEF Aborts
<1>. HIDE DEF t, u, c, k, w
<1>8. CASE Refuses(f)
  BY <1>5, <1>6, <1>7, <1>8, RefusalOutcome DEF OutcomeOrAbort
<1>9. CASE Aborts(f, rejects)
  <2>1. m = Fail(t, "aborted")
    BY <1>5, <1>7, <1>9
  <2>. QED
    BY <1>6, <1>9, <2>1, FailKeeps DEF OutcomeOrAbort
<1>10. CASE ~Refuses(f) /\ ~Aborts(f, rejects)
  <2>1. m = u
    BY <1>5, <1>7, <1>10
  <2>. QED
    BY <1>3, <1>6, <1>10, <2>1 DEF Outcome, OutcomeOrAbort
<1>. QED
  BY <1>8, <1>9, <1>10

LEMMA StructPatchCallback ==
  ASSUME NEW f, Ready(f), f.kind = "struct_patch"
  PROVE  Outcome(f, VisitStructPatchExpression(v, f.sibling, f.node, f.ids))
<1>. DEFINE order == <<f.ids["field_patches"], f.ids["prepended"], f.ids["appended"],
                       f.ids["input_path"]>>
            p == v.lists[f.ids["input_path"]]
            c == [input_path |-> p,
                  prepended |-> v.lists[f.ids["prepended"]],
                  field_patches |-> v.lists[f.ids["field_patches"]],
                  appended |-> v.lists[f.ids["appended"]]]
            t == TakeFieldLists(v, order)
            u == Emit(t, f.sibling, f.node, c)
<1>1. RoleSet(f.kind) = {"input_path", "prepended", "field_patches", "appended"}
  BY RoleSets
<1>2. TakesAndEmits(order, OwnIds(f), f.sibling, f.node, c)
  BY FourLists
<1>3. Children(f) = c
  <2>1. Children(f) = [r \in {"input_path", "prepended", "field_patches", "appended"} |->
                         v.lists[f.ids[r]]]
    BY <1>1, ReadyLists
  <2>. QED
    BY <2>1
<1>4. VisitStructPatchExpression(v, f.sibling, f.node, f.ids) =
        IF Len(p) > 1 THEN Fail(t, "many_paths") ELSE u
  BY <1>2, Zenon DEF VisitStructPatchExpression, TakesAndEmits
<1>5. Refuses(f) <=> Len(p) > 1
  BY DEF Refuses
<1>6. /\ Kept(t, OwnIds(f), f.sibling) /\ t.refused = v.refused
      /\ Kept(u, OwnIds(f), f.sibling) /\ u.refused = v.refused /\ u.error = v.error
      /\ Visited(u, OwnIds(f), f.sibling, f.node, c)
  BY <1>2 DEF TakesAndEmits
<1>. HIDE DEF t, u, c, p
<1>7. CASE Len(p) > 1
  <2>1. /\ VisitStructPatchExpression(v, f.sibling, f.node, f.ids) = Fail(t, "many_paths")
        /\ Refuses(f)
    BY <1>4, <1>5, <1>7
  <2>. QED
    BY <1>6, <2>1, RefusalOutcome
<1>8. CASE ~(Len(p) > 1)
  BY <1>3, <1>4, <1>5, <1>6, <1>8 DEF Outcome
<1>. QED
  BY <1>7, <1>8

\* Every callback of an expression builds its node, or refuses it, or ends the process.
LEMMA ExpressionCallback ==
  ASSUME NEW f, Ready(f), f.kind \in ExpressionNodes \cup {"field_patch"}, NEW rejects \in BOOLEAN
  PROVE  OutcomeOrAbort(f, VisitExpressionNode(v, f.kind, f.sibling, f.node, f.ids, rejects), rejects)
<1>. DEFINE t == VisitExpressionNode(v, f.kind, f.sibling, f.node, f.ids, rejects)
<1>1. CASE f.kind = "function"
  <2>1. t = VisitFunction(v, f.sibling, f.node, f.ids)
    BY <1>1 DEF VisitExpressionNode
  <2>2. RoleSet(f.kind) = {"children"} /\ f.ids["children"] \in DOMAIN v.lists /\ ~Refuses(f)
    BY <1>1, RoleSets, ReadyLists DEF Refuses
  <2>. QED
    BY <1>1, <2>1, <2>2, FunctionCallback DEF Outcome, OutcomeOrAbort, Aborts
<1>2. CASE f.kind = "variadic"
  BY <1>2, VariadicCallback DEF VisitExpressionNode, OutcomeOrAbort, Aborts
<1>3. CASE f.kind = "binary"
  BY <1>3, BinaryCallback DEF VisitExpressionNode, OutcomeOrAbort, Aborts
<1>4. CASE f.kind = "refused_node"
  BY <1>4, RefusedNodeCallback DEF VisitExpressionNode, OutcomeOrAbort, Aborts
<1>5. CASE f.kind = "struct_literal"
  BY <1>5, StructLiteralCallback DEF VisitExpressionNode, OutcomeOrAbort, Aborts
<1>6. CASE f.kind = "map_literal"
  BY <1>6, LiteralMapCallback DEF VisitExpressionNode
<1>7. CASE f.kind = "struct_patch"
  BY <1>7, StructPatchCallback DEF VisitExpressionNode, OutcomeOrAbort, Aborts
<1>8. CASE f.kind = "field_patch"
  BY <1>8, FieldPatchCallback DEF VisitExpressionNode, OutcomeOrAbort, Aborts
<1>. QED
  BY <1>1, <1>2, <1>3, <1>4, <1>5, <1>6, <1>7, <1>8 DEF ExpressionNodes, LiteralNodes

-----------------------------------------------------------------------------
(* The node the kernel is in.                                              *)

LEMMA StackFacts ==
  ASSUME StackOK
  PROVE  /\ Len(stack) \in Nat \ {0} /\ DOMAIN stack = 1 .. Len(stack)
         /\ Len(stack) \in DOMAIN stack /\ Len(stack) + 1 \notin DOMAIN stack
         /\ \A i \in DOMAIN stack : stack[i] \in Frame
         /\ Top = stack[Len(stack)] /\ FrameOK(Top) /\ Top \in Frame
<1>1. Len(stack) \in Nat \ {0} /\ DOMAIN stack = 1 .. Len(stack)
  BY DEF StackOK
<1>2. Len(stack) \in DOMAIN stack /\ Len(stack) + 1 \notin DOMAIN stack
  BY <1>1
<1>3. \A i \in DOMAIN stack : stack[i] \in Frame
  BY DEF StackOK
<1>. QED
  BY <1>1, <1>2, <1>3 DEF Top, StackOK

\* The callback of the node it leaves finds the lists it needs.
LEMMA TopReady ==
  ASSUME StackOK, TreeOK, VisitorOK(v), Len(stack) > 1
  PROVE  /\ Ready(Top) /\ Top.node \in DOMAIN tree \ {0} /\ tree[Top.node].kind = Top.kind
         /\ Top.kind \in OpenKinds \ {"root"}
<1>. DEFINE L == Len(stack)
<1>1. /\ L \in Nat /\ L - 1 \in DOMAIN stack /\ L \in DOMAIN stack /\ (L - 1) + 1 = L /\ L # L - 1
      /\ L # 1 /\ Top = stack[L]
  <2>1. L \in Nat /\ DOMAIN stack = 1 .. L /\ L > 1 /\ Top = stack[L]
    BY StackFacts
  <2>. HIDE DEF L
  <2>. QED
    BY <2>1
<1>. HIDE DEF L
<1>2. FrameOK(Top) /\ Top.node # 0
  BY <1>1 DEF StackOK
<1>3. PICK r \in RoleSet(stack[L - 1].kind) : Top.sibling = stack[L - 1].ids[r] /\ Top.sibling # 0
  BY <1>1 DEF StackOK
<1>4. Top.sibling \in DOMAIN v.lists
  BY <1>1, <1>3 DEF StackOK, FrameOK
<1>5. Top.sibling \notin OwnIds(Top)
  <2>. SUFFICES ASSUME NEW q \in RoleSet(Top.kind), Top.sibling = Top.ids[q] PROVE FALSE
    BY DEF OwnIds
  <2>. QED
    BY <1>1, <1>3 DEF StackOK
<1>6. Top.node \in 1 .. MaxNodes
  <2>1. Top.node \in 0 .. (NewNode - 1) /\ NewNode \in 1 .. (MaxNodes + 1)
    BY <1>2 DEF FrameOK, TreeOK
  <2>2. MaxNodes \in Nat
    BY NodeBound DEF TreeOK
  <2>. QED
    BY <1>2, <2>1, <2>2
<1>7. Top.kind # "root"
  BY <1>2 DEF FrameOK, TreeOK
<1>. QED
  BY <1>2, <1>4, <1>5, <1>6, <1>7 DEF Ready, FrameOK

\* Without an error, it finds the children the kernel visited.
LEMMA TopLists ==
  ASSUME StackOK, TreeOK, Mirrors, NEW r \in RoleSet(Top.kind)
  PROVE  /\ tree[Top.node].kids[r] = IF Top.ids[r] = 0 THEN <<>> ELSE v.lists[Top.ids[r]]
         /\ tree[Top.node].kids[r] \in Seq(1 .. (NewNode - 1))
<1>1. Top = stack[Len(stack)] /\ Len(stack) \in DOMAIN stack /\ Len(stack) + 1 \notin DOMAIN stack
  BY StackFacts
<1>2. Filled(Len(stack), r)
  BY <1>1 DEF Mirrors
<1>3. FrameOK(Top)
  BY StackFacts
<1>4. tree[Top.node].kids[r] \in Seq(1 .. (NewNode - 1))
  BY <1>3 DEF FrameOK, TreeOK
<1>. QED
  BY <1>1, <1>2, <1>4 DEF Filled

LEMMA TopChildren ==
  ASSUME StackOK, TreeOK, VisitorOK(v), Mirrors, Complete
  PROVE  Children(Top) = tree[Top.node].kids
<1>1. FrameOK(Top)
  BY StackFacts
<1>2. DOMAIN tree[Top.node].kids = RoleSet(Top.kind)
      /\ tree[Top.node].kids = [r \in RoleSet(Top.kind) |-> tree[Top.node].kids[r]]
  BY <1>1 DEF FrameOK, TreeOK
<1>. DEFINE kids(r) == tree[Top.node].kids[r]
<1>3. ASSUME NEW r \in RoleSet(Top.kind), Top.kind = "map_literal", r = "values", Top.ids["values"] # 0
      PROVE  [i \in DOMAIN v.lists[Top.ids["keys"]] |-> v.lists[Top.ids["values"]][i]] = kids("values")
  <2>1. RoleSet(Top.kind) = {"keys", "values"}
    BY <1>3, RoleSets
  <2>2. Top.ids["keys"] # 0 \/ kids("keys") = <<>>
    BY <2>1, TopLists
  <2>3. Top.ids["keys"] # 0
    BY <1>1, <1>3, <2>1 DEF FrameOK, VisitorOK
  <2>4. /\ v.lists[Top.ids["keys"]] = kids("keys") /\ v.lists[Top.ids["values"]] = kids("values")
        /\ kids("keys") \in Seq(1 .. (NewNode - 1)) /\ kids("values") \in Seq(1 .. (NewNode - 1))
    BY <1>3, <2>1, <2>3, TopLists
  <2>5. Len(kids("keys")) = Len(kids("values"))
    BY <1>3 DEF Complete, Kids, Parent
  <2>. HIDE DEF kids
  <2>6. DOMAIN kids("keys") = DOMAIN kids("values")
    BY <2>4, <2>5
  <2>7. kids("values") = [i \in DOMAIN kids("values") |-> kids("values")[i]]
    BY <2>4
  <2>. QED
    BY <2>4, <2>6, <2>7
<1>4. \A r \in RoleSet(Top.kind) : kids(r) = Children(Top)[r]
  BY <1>3, TopLists DEF Children
<1>. QED
  BY <1>2, <1>4 DEF Children

\* Then it refuses what is unreadable and nothing else.
LEMMA TopReadable ==
  ASSUME StackOK, TreeOK, VisitorOK(v), Mirrors, Len(stack) > 1, Complete, visitor = "expression"
  PROVE  Refuses(Top) <=> Unreadable(Top.node)
<1>. DEFINE n == Top.node
            lists(r) == v.lists[Top.ids[r]]
<1>1. Ready(Top) /\ n \in DOMAIN tree /\ tree[n].kind = Top.kind /\ Top.kind \in OpenKinds
  BY TopReady
<1>2. Top.kind # "field_patch" => \A r \in RoleSet(Top.kind) : lists(r) = tree[n].kids[r]
  BY <1>1, ReadyLists, TopLists
<1>3. Parent = n /\ \A r : Kids(r) = tree[n].kids[r]
  BY DEF Kids, Parent
<1>4. CASE Top.kind = "binary"
  <2>1. RoleSet(Top.kind) = {"children"}
    BY <1>4, RoleSets
  <2>2. Len(lists("children")) = 2
    BY <1>2, <1>3, <1>4, <2>1 DEF Complete
  <2>. HIDE DEF lists
  <2>. QED
    BY <1>1, <1>4, <2>2 DEF Refuses, Unreadable, lists
<1>5. CASE Top.kind = "struct_literal"
  <2>1. RoleSet(Top.kind) = {"keys", "values"}
    BY <1>5, RoleSets
  <2>2. Len(lists("keys")) = Len(lists("values"))
    BY <1>2, <1>3, <1>5, <2>1 DEF Complete
  <2>. QED
    BY <1>1, <1>5, <2>2 DEF Refuses, Unreadable
<1>6. CASE Top.kind = "map_literal"
  <2>1. RoleSet(Top.kind) = {"keys", "values"}
    BY <1>6, RoleSets
  <2>2. \A r \in {"keys", "values"} : lists(r) = tree[n].kids[r]
    BY <1>2, <1>6, <2>1
  <2>3. Refuses(Top) <=> \E r \in {"keys", "values"} : \E i \in DOMAIN lists(r) : ~IsLiteral(lists(r)[i])
    BY <1>6 DEF Refuses
  <2>4. Unreadable(n) <=> \E r \in {"keys", "values"} : \E i \in DOMAIN tree[n].kids[r] :
                            ~IsLiteral(tree[n].kids[r][i])
    BY <1>1, <1>6 DEF Unreadable
  <2>. HIDE DEF lists
  <2>. QED
    BY <2>2, <2>3, <2>4
<1>7. CASE Top.kind = "struct_patch"
  <2>1. RoleSet(Top.kind) = {"input_path", "prepended", "field_patches", "appended"}
    BY <1>7, RoleSets
  <2>2. Len(tree[n].kids["input_path"]) <= 1
        /\ tree[n].kids["input_path"] \in Seq(1 .. (NewNode - 1))
    BY <1>1, <1>7, <2>1 DEF TreeOK
  <2>3. ~(Len(lists("input_path")) > 1)
    BY <1>2, <1>7, <2>1, <2>2
  <2>. QED
    BY <1>1, <1>7, <2>3 DEF Refuses, Unreadable
<1>8. CASE Top.kind = "refused_node"
  BY <1>1, <1>8 DEF Refuses, Unreadable
<1>9. CASE Top.kind \in {"root", "function", "variadic", "field_patch"}
  BY <1>1, <1>9 DEF Refuses, Unreadable
<1>. QED
  BY <1>1, <1>4, <1>5, <1>6, <1>7, <1>8, <1>9 DEF OpenKinds, ExpressionNodes, LiteralNodes

-----------------------------------------------------------------------------
(* Leaving a node.                                                         *)

Pop == Len(stack) > 1 /\ stack' = SubSeq(stack, 1, Len(stack) - 1) /\ UNCHANGED <<visitor, tree>>

LEMMA Popped ==
  ASSUME StackOK, Pop
  PROVE  /\ stack' \in Seq(Frame) /\ Len(stack') = Len(stack) - 1
         /\ Len(stack) \in Nat /\ DOMAIN stack = 1 .. Len(stack)
         /\ DOMAIN stack' = 1 .. (Len(stack) - 1)
         /\ \A i \in DOMAIN stack' : i \in DOMAIN stack /\ stack'[i] = stack[i] /\ i # Len(stack)
<1>1. stack \in Seq(Frame) /\ Len(stack) \in Nat /\ Len(stack) > 1 /\ DOMAIN stack = 1 .. Len(stack)
  BY DEF StackOK, Pop
<1>2. /\ SubSeq(stack, 1, Len(stack) - 1) \in Seq(Frame)
      /\ Len(SubSeq(stack, 1, Len(stack) - 1)) = Len(stack) - 1
      /\ \A i \in 1 .. (Len(stack) - 1) : SubSeq(stack, 1, Len(stack) - 1)[i] = stack[i]
  BY <1>1
<1>3. DOMAIN stack' = 1 .. (Len(stack) - 1)
  BY <1>1, <1>2 DEF Pop
<1>. QED
  BY <1>1, <1>2, <1>3 DEF Pop

\* The lists of the nodes that stay open stay in flight.
LEMMA LeaveStack ==
  ASSUME StackOK, Pop, TreeOK, VisitorOK(v), Kept(v', OwnIds(Top), Top.sibling)
  PROVE  StackOK'
<1>1. /\ stack' \in Seq(Frame) /\ Len(stack') = Len(stack) - 1
      /\ \A i \in DOMAIN stack' : i \in DOMAIN stack /\ stack'[i] = stack[i] /\ i # Len(stack)
      /\ Len(stack) \in Nat /\ DOMAIN stack' = 1 .. (Len(stack) - 1) /\ DOMAIN stack = 1 .. Len(stack)
  BY Popped
<1>2. Top = stack[Len(stack)] /\ Len(stack) \in DOMAIN stack
  BY StackFacts
<1>3. ASSUME NEW i \in DOMAIN stack' PROVE FrameOK(stack[i])'
  <2>1. FrameOK(stack[i]) /\ i \in DOMAIN stack /\ stack'[i] = stack[i] /\ i # Len(stack)
    BY <1>1 DEF StackOK
  <2>2. ASSUME NEW r \in RoleSet(stack[i].kind), stack[i].ids[r] \in DOMAIN v.lists
        PROVE  stack[i].ids[r] \in DOMAIN v'.lists
    <3>1. stack[i].ids[r] # 0
      BY <2>2 DEF VisitorOK
    <3>2. stack[i].ids[r] \notin OwnIds(Top)
      BY <1>2, <2>1, <3>1 DEF OwnIds, StackOK
    <3>. QED
      BY <2>2, <3>2 DEF Kept
  <2>. QED
    BY <2>1, <2>2 DEF FrameOK, Pop, OpenKinds
<1>5. Len(stack') >= 1
  BY <1>1 DEF Pop
<1>6. /\ \A i \in DOMAIN stack' : stack'[i].node = 0 <=> i = 1
      /\ \A i, j \in DOMAIN stack' : stack'[i].node = stack'[j].node => i = j
  BY <1>1 DEF StackOK
<1>7. ASSUME NEW i \in DOMAIN stack', NEW j \in DOMAIN stack',
             NEW r \in RoleSet(stack'[i].kind), NEW q \in RoleSet(stack'[j].kind),
             stack'[i].ids[r] = stack'[j].ids[q], stack'[i].ids[r] # 0
      PROVE  i = j /\ r = q
  <2>1. i \in DOMAIN stack /\ j \in DOMAIN stack /\ stack'[i] = stack[i] /\ stack'[j] = stack[j]
    BY <1>1
  <2>. QED
    BY <1>7, <2>1 DEF StackOK
<1>8. ASSUME NEW i \in DOMAIN stack', i + 1 \in DOMAIN stack'
      PROVE  /\ stack'[i + 1].sibling # 0
             /\ \E r \in RoleSet(stack'[i].kind) : stack'[i + 1].sibling = stack'[i].ids[r]
  <2>1. i \in DOMAIN stack /\ i + 1 \in DOMAIN stack
        /\ stack'[i] = stack[i] /\ stack'[i + 1] = stack[i + 1]
    BY <1>1, <1>8
  <2>2. /\ stack[i + 1].sibling # 0
        /\ \E r \in RoleSet(stack[i].kind) : stack[i + 1].sibling = stack[i].ids[r]
    BY <2>1 DEF StackOK
  <2>. QED
    BY <2>1, <2>2
<1>. QED
  BY <1>1, <1>3, <1>5, <1>6, <1>7, <1>8 DEF StackOK

LEMMA LeaveCloses ==
  ASSUME StackOK, Pop
  PROVE  \A n : Closed(n)' <=> n \in DOMAIN tree /\ (Closed(n) \/ n = Top.node)
<1>1. /\ \A i \in DOMAIN stack' : i \in DOMAIN stack /\ stack'[i] = stack[i] /\ i # Len(stack)
      /\ Len(stack) \in Nat /\ DOMAIN stack' = 1 .. (Len(stack) - 1) /\ DOMAIN stack = 1 .. Len(stack)
  BY Popped
<1>2. Top = stack[Len(stack)] /\ Len(stack) \in DOMAIN stack
  BY StackFacts
<1>3. \A i \in DOMAIN stack : i = Len(stack) \/ i \in DOMAIN stack'
  BY <1>1
<1>4. \A i \in DOMAIN stack' : stack'[i].node # Top.node
  BY <1>1, <1>2 DEF StackOK
<1>5. tree' = tree
  BY DEF Pop
<1>. QED
  BY <1>1, <1>2, <1>3, <1>4, <1>5, Zenon DEF Closed

LEMMA UnreadableSame ==
  ASSUME UNCHANGED tree, NEW n
  PROVE  Unreadable(n)' <=> Unreadable(n)
  BY DEF Unreadable, IsLiteral

LEMMA LeaveJustified ==
  ASSUME StackOK, Pop, TreeOK, VisitorOK(v), Justified \/ first' # NoError \/ Unreadable(Top.node),
         first # NoError => first' # NoError
  PROVE  Justified'
<1>1. Top.node \in DOMAIN tree /\ tree' = tree
  BY TopReady DEF Pop
<1>2. CASE Unreadable(Top.node)
  BY <1>1, <1>2, LeaveCloses, UnreadableSame DEF Justified
<1>3. CASE Justified
  BY <1>1, <1>3, LeaveCloses, UnreadableSame DEF Justified
<1>. QED
  BY <1>2, <1>3 DEF Justified

LEMMA LeaveMirrors ==
  ASSUME StackOK, Pop, TreeOK, VisitorOK(v), Mirrors, Complete, ~Unreadable(Top.node),
         Visited(v', OwnIds(Top), Top.sibling, Top.node, Children(Top)),
         first' = NoError, v'.refused.path = <<>>
  PROVE  Mirrors'
<1>. DEFINE L == Len(stack)
<1>1. /\ \A i \in DOMAIN stack' : i \in DOMAIN stack /\ stack'[i] = stack[i] /\ i # L
      /\ L \in Nat /\ DOMAIN stack' = 1 .. (L - 1) /\ DOMAIN stack = 1 .. L
  BY Popped
<1>2. Top = stack[L] /\ L \in DOMAIN stack /\ L > 1 /\ tree' = tree
  BY StackFacts DEF Pop
<1>3. /\ Ready(Top) /\ Top.node \in DOMAIN tree /\ tree[Top.node].kind = Top.kind
      /\ Top.kind \in OpenKinds \ {"root"}
  BY <1>2, TopReady
<1>4. Children(Top) = tree[Top.node].kids
  BY TopChildren
<1>. HIDE DEF L
<1>5. PICK q \in RoleSet(stack[L - 1].kind) : Top.sibling = stack[L - 1].ids[q] /\ Top.sibling # 0
  <2>1. L - 1 \in DOMAIN stack /\ (L - 1) + 1 = L
    BY <1>1, <1>2
  <2>. QED
    BY <1>2, <2>1 DEF StackOK
<1>6. ASSUME NEW i \in DOMAIN stack', NEW r \in RoleSet(stack'[i].kind)
      PROVE  Filled(i, r)'
  <2>. DEFINE id == stack[i].ids[r]
  <2>1. i \in DOMAIN stack /\ stack'[i] = stack[i] /\ i # L /\ r \in RoleSet(stack[i].kind)
    BY <1>1, <1>6
  <2>2. Filled(i, r)
    BY <2>1 DEF Mirrors
  <2>3. id # 0 => id \in DOMAIN v'.lists
    <3>1. id # 0 => id \in DOMAIN v.lists
      BY <2>1 DEF StackOK, FrameOK
    <3>2. id # 0 => id \notin OwnIds(Top)
      BY <1>2, <2>1 DEF OwnIds, StackOK
    <3>. QED
      BY <3>1, <3>2 DEF Visited
  <2>4. id # 0 => v'.lists[id] = IF id = Top.sibling THEN Append(v.lists[id], Top.node) ELSE v.lists[id]
    BY <2>3 DEF Visited
  <2>5. CASE i = L - 1
    <3>1. i + 1 \in DOMAIN stack /\ stack[i + 1] = Top /\ i + 1 \notin DOMAIN stack'
      BY <1>1, <1>2, <2>5
    <3>. QED
      BY <1>2, <2>1, <2>2, <2>4, <3>1 DEF Filled
  <2>6. CASE i # L - 1
    <3>1. i + 1 \in DOMAIN stack /\ i + 1 \in DOMAIN stack' /\ stack'[i + 1] = stack[i + 1]
      BY <1>1, <2>6
    <3>2. L - 1 \in DOMAIN stack
      BY <1>1, <1>2
    <3>3. id # 0 => id # Top.sibling
      BY <1>5, <2>1, <2>6, <3>2 DEF StackOK
    <3>. QED
      BY <1>2, <2>1, <2>2, <2>4, <3>1, <3>3 DEF Filled
  <2>. QED
    BY <2>5, <2>6
<1>7. ASSUME NEW n \in DOMAIN tree', Closed(n)' PROVE Built(n)' /\ ~Unreadable(n)'
  <2>1. n \in DOMAIN tree /\ (Closed(n) \/ n = Top.node)
    BY <1>7, LeaveCloses
  <2>2. ~Unreadable(n)'
    BY <1>2, <2>1, UnreadableSame DEF Mirrors
  <2>3. DOMAIN v.built = 0 .. MaxNodes /\ Top.node \in 0 .. MaxNodes
    BY <1>3 DEF Ready, VisitorOK
  <2>4. CASE n = Top.node
    <3>1. v'.built[n] = tree[n].kids
      BY <1>4, <2>3, <2>4 DEF Visited
    <3>2. tree[n].kind \notin ExpressionLeaves \cup SchemaLeaves
      BY <1>3, <2>4 DEF OpenKinds, ExpressionLeaves, SchemaLeaves, ExpressionNodes, SchemaNodes,
                        LiteralNodes
    <3>. QED
      BY <1>2, <2>2, <3>1, <3>2 DEF Built
  <2>5. CASE n # Top.node
    <3>1. v'.built[n] = v.built[n]
      BY <2>5 DEF Visited
    <3>2. Built(n)
      BY <2>1, <2>5 DEF Mirrors
    <3>. QED
      BY <1>2, <2>2, <3>1, <3>2 DEF Built
  <2>. QED
    BY <2>4, <2>5
<1>8. ASSUME NEW id \in DOMAIN v'.lists
      PROVE  \E i \in DOMAIN stack' : \E r \in RoleSet(stack'[i].kind) : stack'[i].ids[r] = id
  <2>1. id \in DOMAIN v.lists /\ id \notin OwnIds(Top)
    BY DEF Visited
  <2>2. PICK i \in DOMAIN stack : \E r \in RoleSet(stack[i].kind) : stack[i].ids[r] = id
    BY <2>1 DEF Mirrors
  <2>3. i # L
    BY <1>2, <2>1, <2>2 DEF OwnIds
  <2>4. i \in DOMAIN stack' /\ stack'[i] = stack[i]
    BY <1>1, <2>3
  <2>. QED
    BY <2>2, <2>4
<1>. QED
  BY <1>6, <1>7, <1>8 DEF Mirrors

\* What is left out of a list of entries is not in the one that is taken.
LEMMA LeaveListed ==
  ASSUME StackOK, Pop, TreeOK, VisitorOK(v), EntriesListed, Kept(v', OwnIds(Top), Top.sibling)
  PROVE  EntriesListed'
<1>1. PICK L \in Nat :
        /\ L = Len(stack) /\ DOMAIN stack' = 1 .. (L - 1) /\ DOMAIN stack = 1 .. L /\ L > 1
        /\ \A i \in DOMAIN stack' : i \in DOMAIN stack /\ stack'[i] = stack[i] /\ i # L
  BY Popped DEF Pop
<1>2. Top = stack[L] /\ L \in DOMAIN stack /\ tree' = tree
  BY <1>1, StackFacts DEF Pop
<1>3. PICK q \in RoleSet(stack[L - 1].kind) : Top.sibling = stack[L - 1].ids[q] /\ Top.sibling # 0
  <2>1. L - 1 \in DOMAIN stack /\ (L - 1) + 1 = L
    BY <1>1
  <2>. QED
    BY <1>2, <2>1 DEF StackOK
<1>4. ASSUME NEW i \in DOMAIN stack', stack'[i].kind = "map_literal", NEW r \in {"keys", "values"},
             Listed(i, r)
      PROVE  Listed(i, r)'
  <2>. DEFINE id == stack[i].ids[r]
              kids == tree[stack[i].node].kids[r]
  <2>1. i \in DOMAIN stack /\ stack'[i] = stack[i] /\ i # L /\ RoleSet(stack[i].kind) = {"keys", "values"}
    BY <1>1, <1>4, RoleSets
  <2>2. CASE \E k \in DOMAIN kids : ~IsLiteral(kids[k])
    BY <1>2, <2>1, <2>2 DEF Listed, IsLiteral
  <2>3. CASE v.lists[id] = kids /\ (i + 1 \in DOMAIN stack => stack[i + 1].sibling # id)
    <3>1. id \in DOMAIN v.lists /\ id # 0
      <4>1. FrameOK(stack[i]) /\ r \in RoleSet(stack[i].kind) /\ stack[i].kind # "field_patch"
        BY <1>4, <2>1 DEF StackOK
      <4>. QED
        BY <4>1 DEF FrameOK, VisitorOK
    <3>2. id \notin OwnIds(Top)
      BY <1>2, <2>1, <3>1 DEF OwnIds, StackOK
    <3>3. id # Top.sibling
      <4>1. CASE i = L - 1
        <5>1. i + 1 = L
          BY <1>1, <4>1
        <5>. QED
          BY <1>2, <2>3, <5>1
      <4>2. CASE i # L - 1
        <5>1. L - 1 \in DOMAIN stack
          BY <1>1
        <5>2. \A a \in RoleSet(stack[i].kind), b \in RoleSet(stack[L - 1].kind) :
                stack[i].ids[a] = stack[L - 1].ids[b] => stack[i].ids[a] = 0
          BY <2>1, <4>2, <5>1 DEF StackOK
        <5>. QED
          BY <1>3, <2>1, <3>1, <5>2
      <4>. QED
        BY <4>1, <4>2
    <3>4. v'.lists[id] = v.lists[id]
      BY <3>1, <3>2, <3>3 DEF Kept
    <3>5. i + 1 \in DOMAIN stack' => i + 1 \in DOMAIN stack /\ stack'[i + 1] = stack[i + 1]
      BY <1>1
    <3>. QED
      BY <1>2, <2>1, <2>3, <3>4, <3>5 DEF Listed
  <2>. QED
    BY <1>4, <2>2, <2>3 DEF Listed
<1>. QED
  BY <1>1, <1>4 DEF EntriesListed

\* A map literal whose lists differ in length was refused an entry.
LEMMA ShortEntries ==
  ASSUME StackOK, TreeOK, VisitorOK(v), EntriesListed, Complete, Len(stack) > 1,
         Top.kind = "map_literal", Len(v.lists[Top.ids["keys"]]) # Len(v.lists[Top.ids["values"]])
  PROVE  Top.node \in DOMAIN tree /\ tree[Top.node].kind = "map_literal" /\ Unreadable(Top.node)
<1>1. Top = stack[Len(stack)] /\ Len(stack) \in DOMAIN stack
  BY StackFacts
<1>2. Top.node \in DOMAIN tree /\ tree[Top.node].kind = "map_literal"
  BY TopReady
<1>3. Listed(Len(stack), "keys") /\ Listed(Len(stack), "values")
  BY <1>1 DEF EntriesListed
<1>4. Len(tree[Top.node].kids["keys"]) = Len(tree[Top.node].kids["values"])
  BY DEF Complete, Kids, Parent
<1>. QED
  BY <1>1, <1>2, <1>3, <1>4 DEF Listed, Unreadable

-----------------------------------------------------------------------------
(* The callbacks of a schema.                                              *)

\* Only the error and the refused field differ.
SameLists(s, t) ==
  /\ VisitorOK(t) /\ t.lists = s.lists /\ t.next_id = s.next_id /\ t.built = s.built

LEMMA RecordFields ==
  ASSUME NEW s, NEW what, NEW path, VisitorOK(s)
  PROVE  LET t == RecordError(s, what, path)
         IN  /\ SameLists(s, t) /\ t.refused = s.refused
             /\ t.error = IF s.error = NoError THEN [what |-> what, path |-> path] ELSE s.error
<1>1. CASE s.error = NoError
  BY <1>1 DEF RecordError, SameLists, VisitorOK
<1>2. CASE s.error # NoError
  BY <1>2 DEF RecordError, SameLists
<1>. QED
  BY <1>1, <1>2

\* A visitor whose refused field, and the error about it, are new.
Refusal(s, t, refused) ==
  /\ SameLists(s, t) /\ t.refused = refused
  /\ t.error = [what |-> "unsupported", path |-> refused.path]

LEMMA SetRefusal ==
  ASSUME NEW s, NEW refused, VisitorOK(s)
  PROVE  Refusal(s, SetRefusalError([s EXCEPT !.refused = refused]), refused)
<1>. DEFINE b == [s EXCEPT !.refused = refused]
            t == SetRefusalError(b)
<1>1. /\ b.lists = s.lists /\ b.next_id = s.next_id /\ b.built = s.built /\ b.refused = refused
      /\ b = [lists |-> b.lists, next_id |-> b.next_id, error |-> b.error,
              refused |-> b.refused, built |-> b.built]
  BY DEF VisitorOK
<1>2. t = [b EXCEPT !.error = [what |-> "unsupported", path |-> b.refused.path]]
  BY DEF SetRefusalError
<1>. HIDE DEF b, t
<1>3. /\ t.lists = s.lists /\ t.next_id = s.next_id /\ t.built = s.built /\ t.refused = refused
      /\ t.error = [what |-> "unsupported", path |-> refused.path]
      /\ t = [lists |-> t.lists, next_id |-> t.next_id, error |-> t.error,
              refused |-> t.refused, built |-> t.built]
  BY <1>1, <1>2
<1>. QED
  BY <1>3 DEF Refusal, SameLists, VisitorOK, t, b

LEMMA RefuseFields ==
  ASSUME NEW s, NEW sibling, NEW name, VisitorOK(s)
  PROVE  LET t == RefuseType(s, sibling, name)
         IN  /\ s.error = NoError => Refusal(s, t, [path |-> <<name>>, list |-> sibling])
             /\ s.error # NoError => t = s
  BY SetRefusal DEF RefuseType

Extends(s, id) == s.refused.path # <<>> /\ s.refused.list = id

Extended(s, sibling, kind, name) ==
  [path |-> <<name, NameIn(kind, Head(s.refused.path))>> \o Tail(s.refused.path),
   list |-> sibling]

LEMMA ExtendFields ==
  ASSUME NEW s, NEW id, NEW sibling, NEW kind, NEW name, VisitorOK(s)
  PROVE  LET t == ExtendRefusedPath(s, id, sibling, name, kind \in {"array", "map"})
         IN  /\ Extends(s, id) => Refusal(s, t, Extended(s, sibling, kind, name))
             /\ ~Extends(s, id) => t = s
<1>. DEFINE t == ExtendRefusedPath(s, id, sibling, name, kind \in {"array", "map"})
            x == Extended(s, sibling, kind, name)
<1>1. CASE Extends(s, id)
  <2>1. t = SetRefusalError([s EXCEPT !.refused = x])
    BY <1>1, Zenon DEF ExtendRefusedPath, Extends, Extended, NameIn
  <2>. HIDE DEF t, x
  <2>2. Refusal(s, t, x)
    BY <2>1, SetRefusal
  <2>. QED
    BY <1>1, <2>2 DEF t, x
<1>2. CASE ~Extends(s, id)
  BY <1>2, Zenon DEF ExtendRefusedPath, Extends
<1>. QED
  BY <1>1, <1>2

\* A node whose children are all there.
Full(f) ==
  /\ f.kind = "array" => Len(v.lists[f.ids["children"]]) = 1
  /\ f.kind = "map" => Len(v.lists[f.ids["children"]]) = 2

\* What becomes of the visitor after an error: the refused path may grow.
Extension(f, t, name) ==
  IF Extends(v, f.ids["children"])
  THEN /\ t.refused = Extended(v, f.sibling, f.kind, name)
       /\ t.error = [what |-> "unsupported", path |-> t.refused.path]
  ELSE t.refused = v.refused /\ t.error = v.error

\* What becomes of it before one.
SchemaOutcome(f, t, name, bad) ==
  CASE f.kind = "user_defined" ->
         /\ t.refused = [path |-> <<name>>, list |-> f.sibling]
         /\ t.error = [what |-> "unsupported", path |-> <<name>>]
    [] f.kind # "user_defined" /\ bad ->
         /\ t.refused = v.refused
         /\ t.error = [what |-> "bad_annotation", path |-> <<name>>]
    [] f.kind # "user_defined" /\ ~bad ->
         /\ t.refused = v.refused /\ t.error = NoError
         /\ Visited(t, OwnIds(f), f.sibling, f.node, Children(f))

\* A user-defined type leaves its list in flight.
LEMMA UserDefinedCallback ==
  ASSUME NEW f, Ready(f), f.kind = "user_defined", NEW name, NEW bad \in BOOLEAN, NEW t,
         t = VisitSchemaNode(v, f.kind, f.sibling, f.node, name, f.ids, bad)
  PROVE  /\ Kept(t, OwnIds(f), f.sibling)
         /\ v.error # NoError => Extension(f, t, name)
         /\ v.error = NoError /\ v.refused.path = <<>> => SchemaOutcome(f, t, name, bad)
<1>. DEFINE id == f.ids["children"]
            x == ExtendRefusedPath(v, id, f.sibling, name, f.kind \in {"array", "map"})
            y == Extended(v, f.sibling, f.kind, name)
<1>1. VisitorOK(v)
  BY DEF Ready
<1>2. t = RefuseType(x, f.sibling, name)
  <2>1. (f.kind \in {"array", "map"}) = FALSE
    OBVIOUS
  <2>. QED
    BY <2>1, Zenon DEF VisitSchemaNode
<1>3. (Extends(v, id) => Refusal(v, x, y)) /\ (~Extends(v, id) => x = v)
  BY <1>1, ExtendFields
<1>. HIDE DEF x, y
<1>4. VisitorOK(x) /\ SameLists(v, x)
  BY <1>1, <1>3 DEF Refusal, SameLists
<1>5. /\ x.error = NoError => Refusal(x, t, [path |-> <<name>>, list |-> f.sibling])
      /\ x.error # NoError => t = x
  BY <1>2, <1>4, RefuseFields
<1>6. SameLists(v, t)
  BY <1>4, <1>5 DEF Refusal, SameLists
<1>7. Kept(t, OwnIds(f), f.sibling)
  BY <1>6 DEF SameLists, Kept
<1>8. ASSUME v.error # NoError PROVE Extension(f, t, name)
  <2>1. CASE Extends(v, id)
    <3>1. x.refused = y /\ x.error = [what |-> "unsupported", path |-> y.path]
      BY <1>3, <2>1 DEF Refusal
    <3>2. x.error # NoError
      BY <3>1 DEF NoError
    <3>. QED
      BY <1>5, <2>1, <3>1, <3>2 DEF Extension, y
  <2>2. CASE ~Extends(v, id)
    BY <1>3, <1>5, <1>8, <2>2 DEF Extension
  <2>. QED
    BY <2>1, <2>2
<1>9. ASSUME v.error = NoError, v.refused.path = <<>> PROVE SchemaOutcome(f, t, name, bad)
  <2>1. x = v
    BY <1>3, <1>9 DEF Extends
  <2>2. Refusal(v, t, [path |-> <<name>>, list |-> f.sibling])
    BY <1>5, <1>9, <2>1
  <2>. QED
    BY <2>2 DEF SchemaOutcome, Refusal
<1>. QED
  BY <1>7, <1>8, <1>9

\* A struct, list or map is built, and the refused path grows through it.
LEMMA ContainerCallback ==
  ASSUME NEW f, Ready(f), f.kind \in {"struct", "array", "map"}, NEW name, NEW bad \in BOOLEAN, NEW t,
         t = VisitSchemaNode(v, f.kind, f.sibling, f.node, name, f.ids, bad)
  PROVE  /\ Kept(t, OwnIds(f), f.sibling)
         /\ v.error # NoError => Extension(f, t, name)
         /\ v.error = NoError /\ v.refused.path = <<>> /\ Full(f) => SchemaOutcome(f, t, name, bad)
<1>. DEFINE id == f.ids["children"]
            children == v.lists[id]
            s == TakeFieldLists(v, <<id>>)
            x == ExtendRefusedPath(s, id, f.sibling, name, f.kind \in {"array", "map"})
            y == Extended(v, f.sibling, f.kind, name)
            a == ApplyDeltaColumnMapping(x, name, bad)
            c == [children |-> children]
            expected == CASE f.kind = "array" -> 1 [] f.kind = "map" -> 2 [] OTHER -> Len(children)
<1>1. RoleSet(f.kind) = {"children"} /\ id \in DOMAIN v.lists /\ id \in Nat
  BY RoleSets, ReadyLists
<1>2. Children(f) = c /\ OwnIds(f) = {id}
  <2>1. f.kind # "map_literal" /\ f.kind # "field_patch"
    OBVIOUS
  <2>2. Children(f) = [r \in RoleSet(f.kind) |-> v.lists[f.ids[r]]]
    BY <2>1, ReadyLists
  <2>. QED
    BY <1>1, <2>2 DEF OwnIds
<1>3. Taken(v, s, {id})
  <2>1. <<id>> \in Seq(Nat) /\ HasLists(v, <<id>>) /\ {<<id>>[j] : j \in DOMAIN <<id>>} = {id}
    <3>1. <<id>> \in Seq(Nat) /\ DOMAIN <<id>> = {1} /\ <<id>>[1] = id
      BY <1>1
    <3>. HIDE DEF id
    <3>. QED
      BY <1>1, <3>1 DEF HasLists
  <2>2. Taken(v, s, {<<id>>[j] : j \in DOMAIN <<id>>})
    BY <2>1, TakeFields DEF Ready
  <2>. QED
    BY <2>1, <2>2
<1>4. children \in Seq(1 .. MaxNodes) /\ Len(children) \in Nat
  BY <1>1 DEF Ready, VisitorOK
<1>5. t = IF Len(children) # expected THEN RecordError(x, "internal", <<name>>)
          ELSE Emit(a, f.sibling, f.node, c)
  <2>. HIDE DEF x, a, c, expected
  <2>1. t = IF ~HasChildren(children, expected) THEN RecordError(x, "internal", <<name>>)
            ELSE IF Len(children) < expected THEN Fail(x, "aborted")
            ELSE Emit(a, f.sibling, f.node, c)
    BY <1>1, Zenon DEF VisitSchemaNode, x, a, c, expected
  <2>. QED
    BY <1>4, <2>1 DEF HasChildren
<1>6. Full(f) => Len(children) = expected
  BY <1>4 DEF Full
<1>7. VisitorOK(s) /\ s.refused = v.refused /\ s.error = v.error
  BY <1>3 DEF Taken
<1>. HIDE DEF s, expected
<1>8. (Extends(v, id) => Refusal(s, x, y)) /\ (~Extends(v, id) => x = s)
  <2>1. /\ Extends(s, id) => Refusal(s, x, Extended(s, f.sibling, f.kind, name))
        /\ ~Extends(s, id) => x = s
    BY <1>7, ExtendFields
  <2>2. (Extends(s, id) <=> Extends(v, id)) /\ Extended(s, f.sibling, f.kind, name) = y
    BY <1>7 DEF Extends, Extended
  <2>. QED
    BY <2>1, <2>2
<1>. HIDE DEF x, y, c
<1>9. VisitorOK(x) /\ SameLists(s, x)
  BY <1>7, <1>8 DEF Refusal, SameLists
<1>10. /\ SameLists(s, a) /\ a.refused = x.refused
       /\ a.error = IF bad /\ x.error = NoError THEN [what |-> "bad_annotation", path |-> <<name>>]
                    ELSE x.error
  <2>1. CASE bad
    <3>1. a = RecordError(x, "bad_annotation", <<name>>)
      BY <2>1 DEF ApplyDeltaColumnMapping
    <3>2. /\ SameLists(x, a) /\ a.refused = x.refused
          /\ a.error = IF x.error = NoError THEN [what |-> "bad_annotation", path |-> <<name>>] ELSE x.error
      BY <1>9, <3>1, RecordFields
    <3>. QED
      BY <1>9, <2>1, <3>2 DEF SameLists
  <2>2. CASE ~bad
    BY <1>9, <2>2 DEF ApplyDeltaColumnMapping, SameLists
  <2>. QED
    BY <2>1, <2>2
<1>. HIDE DEF a
<1>11. CASE Len(children) # expected
  <2>1. /\ SameLists(x, t) /\ t.refused = x.refused
        /\ t.error = IF x.error = NoError THEN [what |-> "internal", path |-> <<name>>] ELSE x.error
    BY <1>5, <1>9, <1>11, RecordFields
  <2>2. Kept(t, OwnIds(f), f.sibling)
    BY <1>2, <1>3, <1>9, <2>1 DEF SameLists, Taken, Kept
  <2>3. ASSUME v.error # NoError PROVE Extension(f, t, name)
    <3>1. CASE Extends(v, id)
      <4>1. x.refused = y /\ x.error = [what |-> "unsupported", path |-> y.path]
        BY <1>8, <3>1 DEF Refusal
      <4>2. x.error # NoError
        BY <4>1 DEF NoError
      <4>. QED
        BY <2>1, <3>1, <4>1, <4>2 DEF Extension, y
    <3>2. CASE ~Extends(v, id)
      BY <1>7, <1>8, <2>1, <2>3, <3>2 DEF Extension
    <3>. QED
      BY <3>1, <3>2
  <2>. QED
    BY <1>6, <1>11, <2>2, <2>3
<1>12. CASE Len(children) = expected
  <2>1. Emitted(a, t, f.sibling, f.node, c)
    <3>1. VisitorOK(a) /\ f.sibling \in DOMAIN a.lists /\ f.node \in 1 .. MaxNodes
      BY <1>2, <1>3, <1>10 DEF SameLists, Taken, Ready
    <3>. QED
      BY <1>5, <1>12, <3>1, EmitFields
  <2>2. Kept(t, OwnIds(f), f.sibling) /\ t.refused = x.refused /\ t.error = a.error
    BY <1>2, <1>3, <1>10, <2>1 DEF SameLists, Taken, Kept, Emitted
  <2>3. ASSUME v.error # NoError PROVE Extension(f, t, name)
    <3>1. CASE Extends(v, id)
      <4>1. x.refused = y /\ x.error = [what |-> "unsupported", path |-> y.path]
        BY <1>8, <3>1 DEF Refusal
      <4>2. x.error # NoError
        BY <4>1 DEF NoError
      <4>. QED
        BY <1>10, <2>2, <3>1, <4>1, <4>2 DEF Extension, y
    <3>2. CASE ~Extends(v, id)
      BY <1>7, <1>8, <1>10, <2>2, <2>3, <3>2 DEF Extension
    <3>. QED
      BY <3>1, <3>2
  <2>4. ASSUME v.error = NoError, v.refused.path = <<>> PROVE SchemaOutcome(f, t, name, bad)
    <3>1. x = s
      BY <1>8, <2>4 DEF Extends
    <3>2. t.refused = v.refused
      BY <1>7, <2>2, <3>1
    <3>3. t.error = IF bad THEN [what |-> "bad_annotation", path |-> <<name>>] ELSE NoError
      BY <1>7, <1>10, <2>2, <2>4, <3>1
    <3>4. Visited(t, OwnIds(f), f.sibling, f.node, Children(f))
      BY <1>2, <1>3, <1>10, <2>1 DEF Visited, SameLists, Taken, Emitted
    <3>. QED
      BY <3>2, <3>3, <3>4 DEF SchemaOutcome
  <2>. QED
    BY <2>2, <2>3, <2>4
<1>. QED
  BY <1>11, <1>12

LEMMA SchemaCallback ==
  ASSUME NEW f, Ready(f), f.kind \in SchemaNodes, NEW name, NEW bad \in BOOLEAN, NEW t,
         t = VisitSchemaNode(v, f.kind, f.sibling, f.node, name, f.ids, bad)
  PROVE  /\ Kept(t, OwnIds(f), f.sibling)
         /\ v.error # NoError => Extension(f, t, name)
         /\ v.error = NoError /\ v.refused.path = <<>> /\ Full(f) => SchemaOutcome(f, t, name, bad)
<1>1. CASE f.kind = "user_defined"
  BY <1>1, UserDefinedCallback
<1>2. CASE f.kind \in {"struct", "array", "map"}
  BY <1>2, ContainerCallback
<1>. QED
  BY <1>1, <1>2 DEF SchemaNodes

-----------------------------------------------------------------------------
(* The path of a refused field.                                            *)

LEMMA NamesIn ==
  ASSUME NEW kind, NEW name \in Name
  PROVE  NameIn(kind, name) \in Name
<1>1. Shown(name.label) \in Label
  BY DEF Shown, Label, Name
<1>2. [name EXCEPT !.label = Shown(name.label)] \in Name
  BY <1>1 DEF Name
<1>. QED
  BY <1>2 DEF NameIn

\* The path of a field below the open ones, name by name.
LEMMA PathNames ==
  ASSUME NEW frames \in Seq(Frame), Len(frames) >= 1, NEW node \in Nat, NEW label \in Label
  PROVE  LET path == PathOf(frames, node, label)
             n == Len(frames)
         IN  /\ path \in Seq(Name) /\ Len(path) = n
             /\ path[n] = NameIn(frames[n].kind, [node |-> node, label |-> label])
             /\ \A i \in 1 .. (n - 1) : path[i] = NameIn(frames[i].kind, FrameName(frames[i + 1]))
<1>. DEFINE n == Len(frames)
            own == [node |-> node, label |-> label]
            names == [i \in 1 .. n |-> IF i = n THEN own
                        ELSE [node |-> frames[i + 1].node, label |-> frames[i + 1].label]]
            kinds == [i \in DOMAIN frames |-> frames[i].kind]
            path == [i \in 1 .. n |-> NameIn(frames[i].kind, names[i])]
<1>1. n \in Nat /\ n >= 1 /\ DOMAIN frames = 1 .. n
  OBVIOUS
<1>2. PathOf(frames, node, label) = path
  <2>1. PathOf(frames, node, label) =
          [i \in DOMAIN names |-> IF kinds[i] \in {"array", "map"}
                                  THEN [names[i] EXCEPT !.label = Shown(@)] ELSE names[i]]
    BY DEF PathOf
  <2>2. DOMAIN names = 1 .. n /\ \A i \in 1 .. n : kinds[i] = frames[i].kind
    BY <1>1
  <2>. HIDE DEF names, kinds, n
  <2>. QED
    BY <2>1, <2>2 DEF NameIn
<1>. HIDE DEF n
<1>3. /\ names[n] = own
      /\ \A i \in 1 .. (n - 1) : names[i] = FrameName(frames[i + 1]) /\ i + 1 \in DOMAIN frames
  <2>1. n \in 1 .. n
    BY <1>1
  <2>2. \A i \in 1 .. (n - 1) : i \in 1 .. n /\ i # n /\ i + 1 \in 1 .. n
    BY <1>1
  <2>. QED
    BY <1>1, <2>1, <2>2, Zenon DEF FrameName
<1>. HIDE DEF names
<1>4. own \in Name
  BY DEF Name
<1>5. \A i \in 1 .. (n - 1) : names[i] \in Name
  <2>1. \A f \in Frame : FrameName(f) \in Name
    BY DEF Frame, Name, FrameName
  <2>2. \A i \in DOMAIN frames : frames[i] \in Frame
    OBVIOUS
  <2>. QED
    BY <1>3, <2>1, <2>2
<1>6. \A i \in 1 .. n : names[i] \in Name
  <2>1. \A i \in 1 .. n : i = n \/ i \in 1 .. (n - 1)
    BY <1>1
  <2>. HIDE DEF own
  <2>. QED
    BY <1>3, <1>4, <1>5, <2>1
<1>7. \A i \in 1 .. n : NameIn(frames[i].kind, names[i]) \in Name
  BY <1>6, NamesIn
<1>8. path \in Seq(Name) /\ Len(path) = n
  BY <1>1, <1>7
<1>9. \A i \in 1 .. n : path[i] = NameIn(frames[i].kind, names[i])
  OBVIOUS
<1>. HIDE DEF path, own
<1>10. n \in 1 .. n /\ \A i \in 1 .. (n - 1) : i \in 1 .. n
  BY <1>1
<1>. QED
  BY <1>2, <1>3, <1>8, <1>9, <1>10 DEF n, own

\* One name is put before the path, and the name that was first is now a child's.
LEMMA LongerPath ==
  ASSUME NEW path \in Seq(Name), path # <<>>, NEW a \in Name, NEW b \in Name
  PROVE  LET q == <<a, b>> \o Tail(path)
         IN  /\ q \in Seq(Name) /\ q # <<>> /\ Len(q) = Len(path) + 1 /\ q[1] = a /\ q[2] = b
             /\ \A j \in 3 .. Len(q) : q[j] = path[j - 1]
<1>. DEFINE p == Tail(path)
            q == <<a, b>> \o p
<1>1. p \in Seq(Name) /\ Len(p) = Len(path) - 1 /\ Len(path) \in Nat \ {0}
      /\ \A j \in 1 .. Len(p) : p[j] = path[j + 1]
  OBVIOUS
<1>2. <<a, b>> \in Seq(Name) /\ Len(<<a, b>>) = 2 /\ <<a, b>>[1] = a /\ <<a, b>>[2] = b
  OBVIOUS
<1>. HIDE DEF p
<1>3. q \in Seq(Name) /\ Len(q) = 2 + Len(p)
  BY <1>1, <1>2
<1>4. \A j \in 1 .. Len(q) : q[j] = IF j <= 2 THEN <<a, b>>[j] ELSE p[j - 2]
  BY <1>1, <1>2, <1>3
<1>5. \A j \in 3 .. Len(q) : j - 2 \in 1 .. Len(p) /\ (j - 2) + 1 = j - 1
  BY <1>1, <1>3
<1>. HIDE DEF q
<1>6. q[1] = a /\ q[2] = b /\ q # <<>>
  BY <1>1, <1>2, <1>3, <1>4
<1>7. ASSUME NEW j \in 3 .. Len(q) PROVE q[j] = path[j - 1]
  <2>1. j \in 1 .. Len(q) /\ ~(j <= 2)
    BY <1>1, <1>3
  <2>2. q[j] = p[j - 2]
    BY <1>4, <2>1
  <2>3. p[j - 2] = path[(j - 2) + 1]
    BY <1>1, <1>5
  <2>. QED
    BY <1>5, <2>2, <2>3
<1>. QED
  BY <1>1, <1>3, <1>6, <1>7 DEF q, p

\* The open nodes of a schema have one list each, and it is in flight.
LEMMA SchemaFrames ==
  ASSUME StackOK, VisitorOK(v), visitor = "schema", NEW i \in DOMAIN stack
  PROVE  /\ RoleSet(stack[i].kind) = {"children"} /\ stack[i].ids["children"] # 0
         /\ stack[i].ids["children"] \in DOMAIN v.lists
<1>1. FrameOK(stack[i]) /\ stack[i].kind \in {"root"} \cup SchemaNodes
  BY DEF StackOK, FrameOK, OpenKinds
<1>2. stack[i].kind \notin {"struct_literal", "map_literal", "struct_patch", "field_patch"}
  BY <1>1 DEF SchemaNodes
<1>3. RoleSet(stack[i].kind) = {"children"}
  BY <1>2, RoleSets
<1>4. stack[i].ids["children"] \in DOMAIN v.lists
  BY <1>1, <1>2, <1>3 DEF FrameOK
<1>. QED
  BY <1>3, <1>4 DEF VisitorOK

LEMMA TopFull ==
  ASSUME StackOK, TreeOK, VisitorOK(v), Mirrors, Len(stack) > 1, Complete, visitor = "schema"
  PROVE  Full(Top)
<1>1. Ready(Top) /\ Top.kind # "field_patch"
  BY TopReady DEF OpenKinds, SchemaNodes
<1>2. Len(stack) \in DOMAIN stack /\ Top = stack[Len(stack)]
  BY StackFacts
<1>3. RoleSet(Top.kind) = {"children"}
  BY <1>2, SchemaFrames
<1>4. tree[Top.node].kids["children"] = v.lists[Top.ids["children"]]
  <2>1. Top.ids["children"] # 0
    BY <1>1, <1>3, ReadyLists
  <2>. QED
    BY <1>3, <2>1, TopLists
<1>5. Kids("children") = v.lists[Top.ids["children"]]
  BY <1>4 DEF Kids, Parent
<1>. QED
  BY <1>5 DEF Complete, Full

\* The refused path grows by the node the kernel leaves when it ends in that node's list,
\* and stays as it is when it ends further out.
LEMMA LeaveReports ==
  ASSUME StackOK, Pop, TreeOK, VisitorOK(v), visitor = "schema", Reports, first' = first,
         Extension(Top, v', FrameName(Top))
  PROVE  Reports'
<1>. DEFINE L == Len(stack)
<1>1. /\ \A i \in DOMAIN stack' : i \in DOMAIN stack /\ stack'[i] = stack[i] /\ i # L
      /\ L \in Nat /\ DOMAIN stack' = 1 .. (L - 1) /\ DOMAIN stack = 1 .. L
  BY Popped
<1>2. Top = stack[L] /\ L \in DOMAIN stack /\ L > 1 /\ Top \in Frame
  BY StackFacts DEF Pop
<1>. HIDE DEF L
<1>3. CASE first.what = "bad_annotation" /\ v.error = first /\ v.refused.path = <<>>
  <2>1. ~Extends(v, Top.ids["children"])
    BY <1>3 DEF Extends
  <2>. QED
    BY <1>3, <2>1 DEF Extension, Reports
<1>4. CASE /\ first.what = "unsupported" /\ first = [what |-> "unsupported", path |-> first.path]
           /\ v.error = [what |-> "unsupported", path |-> v.refused.path]
           /\ \E d \in DOMAIN stack : ReachesUpTo(d)
  <2>. DEFINE path == v.refused.path
  <2>1. PICK d \in DOMAIN stack : ReachesUpTo(d)
    BY <1>4
  <2>2. /\ first.path \in Seq(Name) /\ path \in Seq(Name) /\ path # <<>>
        /\ Len(first.path) = d - 1 + Len(path)
        /\ v.refused.list = stack[d].ids["children"]
        /\ first.path[d] = NameIn(stack[d].kind, path[1])
        /\ \A j \in 2 .. Len(path) : first.path[d - 1 + j] = path[j]
        /\ \A i \in 1 .. (d - 1) : first.path[i] = NameIn(stack[i].kind, FrameName(stack[i + 1]))
    BY <2>1 DEF ReachesUpTo
  <2>3. CASE d = L
    <3>. DEFINE a == FrameName(Top)
                b == NameIn(Top.kind, Head(path))
                q == <<a, b>> \o Tail(path)
    <3>1. PICK e \in Nat : e = L - 1
      BY <1>1, <1>2
    <3>2. Head(path) = path[1] /\ path[1] \in Name
      BY <2>2
    <3>3. a \in Name /\ b \in Name
      <4>1. a \in Name
        BY <1>2 DEF Frame, FrameName, Name
      <4>. QED
        BY <3>2, <4>1, NamesIn
    <3>4. /\ q \in Seq(Name) /\ q # <<>> /\ Len(q) = Len(path) + 1 /\ q[1] = a /\ q[2] = b
          /\ \A j \in 3 .. Len(q) : q[j] = path[j - 1]
      BY <2>2, <3>3, LongerPath
    <3>5. Extends(v, Top.ids["children"])
      BY <1>2, <2>2, <2>3 DEF Extends
    <3>6. v'.refused = Extended(v, Top.sibling, Top.kind, a)
          /\ v'.error = [what |-> "unsupported", path |-> v'.refused.path]
      BY <3>5 DEF Extension
    <3>7. v'.refused.path = q /\ v'.refused.list = Top.sibling
      BY <3>6 DEF Extended
    <3>. HIDE DEF q, a, b, path
    <3>8. /\ e \in DOMAIN stack' /\ e \in DOMAIN stack /\ e + 1 = L /\ e + 1 \in DOMAIN stack
          /\ stack'[e] = stack[e] /\ e \in 1 .. (d - 1)
      BY <1>1, <1>2, <2>3, <3>1
    <3>9. \A i \in 1 .. (e - 1) :
             /\ stack'[i] = stack[i] /\ stack'[i + 1] = stack[i + 1] /\ i \in 1 .. (d - 1)
      <4>1. \A i \in 1 .. (e - 1) : i \in 1 .. (L - 1) /\ i + 1 \in 1 .. (L - 1) /\ i \in 1 .. (d - 1)
        BY <1>1, <2>3, <3>1
      <4>. QED
        BY <1>1, <4>1
    <3>10. Top.sibling = stack[e].ids["children"]
      <4>1. \E r \in RoleSet(stack[e].kind) : stack[e + 1].sibling = stack[e].ids[r]
        BY <3>8 DEF StackOK
      <4>2. RoleSet(stack[e].kind) = {"children"}
        BY <3>8, SchemaFrames
      <4>. QED
        BY <1>2, <3>8, <4>1, <4>2
    <3>11. Len(path) \in Nat \ {0} /\ L \in Nat /\ d = e + 1 /\ Len(q) = Len(path) + 1
      BY <1>1, <2>2, <2>3, <3>1, <3>4
    <3>12. Len(first.path) = e - 1 + Len(q)
      <4>1. Len(first.path) = d - 1 + Len(path)
        BY <2>2
      <4>. QED
        BY <3>11, <4>1
    <3>13. first.path[e] = NameIn(stack[e].kind, q[1])
      BY <1>2, <2>2, <3>4, <3>8 DEF a
    <3>14. ASSUME NEW j \in 2 .. Len(q) PROVE first.path[e - 1 + j] = q[j]
      <4>1. CASE j = 2
        <5>1. e - 1 + j = d
          BY <3>11, <4>1
        <5>. QED
          BY <1>2, <2>2, <2>3, <3>2, <3>4, <4>1, <5>1 DEF b
      <4>2. CASE j # 2
        <5>1. j \in 3 .. Len(q) /\ j - 1 \in 2 .. Len(path) /\ e - 1 + j = d - 1 + (j - 1)
          BY <3>11, <4>2
        <5>2. q[j] = path[j - 1] /\ first.path[d - 1 + (j - 1)] = path[j - 1]
          BY <2>2, <3>4, <5>1
        <5>. QED
          BY <5>1, <5>2
      <4>. QED
        BY <4>1, <4>2
    <3>15. ReachesUpTo(e)'
      <4>1. \A i \in 1 .. (e - 1) : first.path[i] = NameIn(stack'[i].kind, FrameName(stack'[i + 1]))
        BY <2>2, <3>9
      <4>. QED
        BY <2>2, <3>4, <3>7, <3>8, <3>10, <3>12, <3>13, <3>14, <4>1 DEF ReachesUpTo
    <3>. QED
      BY <1>4, <3>6, <3>8, <3>15 DEF Reports
  <2>4. CASE d # L
    <3>1. d \in DOMAIN stack' /\ stack'[d] = stack[d]
      BY <1>1, <2>4
    <3>2. ~Extends(v, Top.ids["children"])
      <4>1. /\ RoleSet(stack[d].kind) = {"children"} /\ stack[d].ids["children"] # 0
            /\ RoleSet(stack[L].kind) = {"children"}
        BY <1>2, SchemaFrames
      <4>2. stack[d].ids["children"] # stack[L].ids["children"]
        BY <1>2, <2>4, <4>1 DEF StackOK
      <4>. QED
        BY <1>2, <2>2, <4>2 DEF Extends
    <3>3. v'.refused = v.refused /\ v'.error = v.error
      BY <3>2 DEF Extension
    <3>4. ASSUME NEW i \in 1 .. (d - 1) PROVE stack'[i] = stack[i] /\ stack'[i + 1] = stack[i + 1]
      <4>1. i \in DOMAIN stack' /\ i + 1 \in DOMAIN stack'
        BY <1>1, <2>4
      <4>. QED
        BY <1>1, <4>1
    <3>5. \A i \in 1 .. (d - 1) : first.path[i] = NameIn(stack'[i].kind, FrameName(stack'[i + 1]))
      BY <2>2, <3>4
    <3>6. ReachesUpTo(d)'
      BY <2>2, <3>1, <3>3, <3>5 DEF ReachesUpTo
    <3>. QED
      BY <1>4, <3>1, <3>3, <3>6 DEF Reports
  <2>. QED
    BY <2>3, <2>4
<1>. QED
  BY <1>3, <1>4 DEF Reports

\* A field that is refused now ends in the list of the node the kernel is in.
LEMMA RefusalReports ==
  ASSUME StackOK', NEW node \in Nat, NEW label \in Label,
         first' = [what |-> "unsupported", path |-> PathOf(stack', node, label)],
         v'.refused = [path |-> <<[node |-> node, label |-> label]>>,
                       list |-> stack'[Len(stack')].ids["children"]],
         v'.error = [what |-> "unsupported", path |-> <<[node |-> node, label |-> label]>>]
  PROVE  Reports'
<1>. DEFINE name == [node |-> node, label |-> label]
            path == PathOf(stack', node, label)
<1>0. stack' \in Seq(Frame) /\ Len(stack') >= 1
  BY DEF StackOK
<1>1. PICK n \in DOMAIN stack' : n = Len(stack') /\ n \in Nat
  BY <1>0
<1>2. /\ path \in Seq(Name) /\ Len(path) = n
      /\ path[n] = NameIn(stack'[n].kind, name)
      /\ \A i \in 1 .. (n - 1) : path[i] = NameIn(stack'[i].kind, FrameName(stack'[i + 1]))
  BY <1>0, <1>1, PathNames
<1>3. name \in Name
  BY DEF Name
<1>. HIDE DEF name, path
<1>4. /\ v'.refused.path = <<name>> /\ v'.refused.list = stack'[n].ids["children"]
      /\ first'.path = path /\ first'.what = "unsupported"
      /\ first' = [what |-> "unsupported", path |-> first'.path]
      /\ v'.error = [what |-> "unsupported", path |-> v'.refused.path]
  BY <1>1 DEF name, path
<1>5. <<name>> \in Seq(Name) /\ <<name>> # <<>> /\ Len(<<name>>) = 1 /\ <<name>>[1] = name
  BY <1>3
<1>6. 2 .. Len(<<name>>) = {} /\ n = n - 1 + Len(<<name>>)
  BY <1>1, <1>5
<1>7. ReachesUpTo(n)'
  <2>1. /\ first'.path \in Seq(Name) /\ v'.refused.path \in Seq(Name) /\ v'.refused.path # <<>>
        /\ Len(first'.path) = n - 1 + Len(v'.refused.path)
        /\ first'.path[n] = NameIn(stack'[n].kind, v'.refused.path[1])
        /\ \A j \in 2 .. Len(v'.refused.path) : first'.path[n - 1 + j] = v'.refused.path[j]
        /\ \A i \in 1 .. (n - 1) : first'.path[i] = NameIn(stack'[i].kind, FrameName(stack'[i + 1]))
    BY <1>2, <1>4, <1>5, <1>6
  <2>. QED
    BY <1>1, <1>4, <2>1 DEF ReachesUpTo
<1>. QED
  BY <1>1, <1>4, <1>7 DEF Reports

-----------------------------------------------------------------------------
(* The kernel visits one more node.                                        *)

NodeKinds == (OpenKinds \ {"root"}) \cup Leaves

LEMMA HeldKinds ==
  ASSUME StackOK, TreeOK, NEW role \in RoleSet(Top.kind), NEW kind, MayHold(role, kind)
  PROVE  /\ kind \in NodeKinds /\ Top.ids[role] # 0
         /\ role = "input_path" => Kids("input_path") = <<>>
<1>0. ASSUME role = "input_path" PROVE Kids("input_path") = <<>>
  <2>1. Top.kind = "struct_patch"
    BY <1>0, RoleSets
  <2>. QED
    BY <1>0, <2>1 DEF MayHold
<1>1. CASE visitor = "schema"
  <2>0. Top.kind \notin {"struct_literal", "map_literal", "struct_patch"}
    BY <1>1, StackFacts DEF FrameOK, OpenKinds, SchemaNodes
  <2>1. kind \in SchemaLeaves \cup SchemaNodes /\ Top.ids[role] # 0
    BY <1>1, <2>0 DEF MayHold
  <2>2. "root" \notin SchemaLeaves \cup SchemaNodes
    BY DEF SchemaLeaves, SchemaNodes
  <2>. QED
    BY <1>0, <1>1, <2>1, <2>2 DEF NodeKinds, OpenKinds, Leaves
<1>2. CASE visitor = "expression"
  <2>1. kind \in ExpressionLeaves \cup ExpressionNodes \cup {"field_patch"}
    BY <1>2 DEF MayHold, ExpressionLeaves, ExpressionNodes, LiteralNodes
  <2>2. "root" \notin ExpressionLeaves \cup ExpressionNodes \cup {"field_patch"}
    BY DEF ExpressionLeaves, ExpressionNodes, LiteralNodes
  <2>3. Top.ids[role] # 0
    BY DEF MayHold
  <2>. QED
    BY <1>0, <1>2, <2>1, <2>2, <2>3 DEF NodeKinds, OpenKinds, Leaves
<1>. QED
  BY <1>1, <1>2 DEF TreeOK

Growth(role, kind, label) ==
  /\ role \in RoleSet(Top.kind) /\ kind \in NodeKinds /\ NewNode <= MaxNodes
  /\ role = "input_path" => Kids("input_path") = <<>>
  /\ tree' = Grown(role, kind, label) /\ UNCHANGED visitor

\* The tree has one more node, n, at the end of a list of the node the kernel is in.
Grew(n, role, kind) ==
  /\ n \in 1 .. MaxNodes /\ n = NewNode /\ n \notin DOMAIN tree
  /\ Parent \in DOMAIN tree /\ Parent # n
  /\ DOMAIN tree' = DOMAIN tree \cup {n} /\ DOMAIN tree = 0 .. (n - 1) /\ DOMAIN tree' = 0 .. n
  /\ tree'[n].kind = kind /\ tree'[n].kids = [r \in RoleSet(kind) |-> <<>>]
  /\ \A m \in DOMAIN tree : m # Parent => tree'[m] = tree[m]
  /\ \A m \in DOMAIN tree : tree'[m].kind = tree[m].kind
  /\ tree'[Parent].kids = [tree[Parent].kids EXCEPT ![role] = Append(@, n)]
  /\ \A r \in RoleSet(Top.kind) :
       tree'[Parent].kids[r] = IF r = role THEN Append(tree[Parent].kids[r], n)
                               ELSE tree[Parent].kids[r]

LEMMA TreeGrows ==
  ASSUME StackOK, TreeOK, NEW role, NEW kind, NEW label, Growth(role, kind, label)
  PROVE  TreeOK' /\ Grew(NewNode, role, kind)
<1>. DEFINE P == Parent
<1>1. FrameOK(Top) /\ P = Top.node /\ P \in DOMAIN tree /\ tree[P].kind = Top.kind
  BY StackFacts DEF Parent, FrameOK
<1>2. MaxNodes \in Nat /\ MaxNodes' = MaxNodes
  BY NodeBound DEF TreeOK, MaxNodes, Growth
<1>3. PICK n \in 1 .. (MaxNodes + 1) : n = NewNode
  BY DEF TreeOK
<1>4. n \in 1 .. MaxNodes
  BY <1>2, <1>3 DEF Growth
<1>5. DOMAIN tree = 0 .. (n - 1)
  BY <1>3 DEF TreeOK
<1>6. n \notin DOMAIN tree /\ P # n /\ DOMAIN tree \cup {n} = 0 .. n
  BY <1>1, <1>4, <1>5
<1>. DEFINE fresh == [kind |-> kind, label |-> label, kids |-> [r \in RoleSet(kind) |-> <<>>]]
            parent == [tree[P] EXCEPT !.kids[role] = Append(@, n)]
<1>. HIDE DEF P
<1>7. tree' = [m \in DOMAIN tree \cup {n} |->
                 CASE m = n -> fresh [] m = P -> parent [] OTHER -> tree[m]]
  BY <1>3 DEF Growth, Grown, P
<1>. HIDE DEF fresh, parent
<1>8. /\ DOMAIN tree' = DOMAIN tree \cup {n} /\ tree'[n] = fresh /\ tree'[P] = parent
      /\ \A m \in DOMAIN tree : m # P => tree'[m] = tree[m]
      /\ tree' = [m \in DOMAIN tree' |-> tree'[m]]
  BY <1>1, <1>6, <1>7
<1>9. fresh.kind = kind /\ fresh.kids = [r \in RoleSet(kind) |-> <<>>]
      /\ fresh = [kind |-> fresh.kind, label |-> fresh.label, kids |-> fresh.kids]
  BY DEF fresh
<1>10. /\ tree[P] = [kind |-> tree[P].kind, label |-> tree[P].label, kids |-> tree[P].kids]
       /\ tree[P].kids \in [RoleSet(Top.kind) -> Seq(1 .. (n - 1))]
  BY <1>1, <1>3 DEF TreeOK
<1>. DEFINE kids == [tree[P].kids EXCEPT ![role] = Append(@, n)]
<1>11. /\ parent.kind = tree[P].kind /\ parent.kids = kids
       /\ parent = [kind |-> parent.kind, label |-> parent.label, kids |-> parent.kids]
  <2>1. parent = [tree[P] EXCEPT !.kids = kids]
    BY <1>10 DEF parent
  <2>. HIDE DEF kids
  <2>. QED
    BY <1>10, <2>1
<1>12. /\ DOMAIN kids = RoleSet(Top.kind) /\ kids = [r \in DOMAIN kids |-> kids[r]]
       /\ \A r \in RoleSet(Top.kind) : kids[r] = IF r = role THEN Append(tree[P].kids[r], n)
                                                 ELSE tree[P].kids[r]
  <2>1. role \in RoleSet(Top.kind)
    BY DEF Growth
  <2>2. \A g, S, T : g \in [S -> T] => DOMAIN g = S /\ g = [x \in S |-> g[x]]
    OBVIOUS
  <2>. DEFINE g == tree[P].kids
  <2>3. DOMAIN g = RoleSet(Top.kind)
    BY <1>10, <2>2
  <2>. HIDE DEF g
  <2>4. \A x : DOMAIN [g EXCEPT ![role] = x] = DOMAIN g
               /\ [g EXCEPT ![role] = x] = [r \in DOMAIN g |-> [g EXCEPT ![role] = x][r]]
               /\ \A r \in DOMAIN g : [g EXCEPT ![role] = x][r] = IF r = role THEN x ELSE g[r]
    BY <2>1, <2>3
  <2>5. kids = [g EXCEPT ![role] = Append(g[role], n)]
    BY DEF g
  <2>. HIDE DEF kids
  <2>. QED
    BY <2>3, <2>4, <2>5 DEF g
<1>13. \A m \in DOMAIN tree : tree'[m].kind = tree[m].kind
  BY <1>8, <1>11
<1>14. Grew(n, role, kind)
  BY <1>1, <1>3, <1>4, <1>5, <1>6, <1>8, <1>9, <1>11, <1>12, <1>13 DEF Grew, P
<1>15. NewNode' = n + 1
  <2>1. Cardinality(0 .. n) = n + 1
    BY <1>4, FS_Interval
  <2>. QED
    BY <1>6, <1>8, <2>1 DEF NewNode
<1>16. ASSUME NEW q \in Seq(1 .. (n - 1)) PROVE q \in Seq(1 .. n) /\ Append(q, n) \in Seq(1 .. n)
  <2>1. \A i \in 1 .. Len(q) : q[i] \in 1 .. n
    BY <1>4
  <2>2. q \in Seq(1 .. n)
    BY <2>1
  <2>. QED
    BY <1>4, <2>2
<1>17. OpenKinds' = OpenKinds /\ Leaves' = Leaves
  BY DEF OpenKinds, Leaves, Growth
<1>18. ASSUME NEW m \in DOMAIN tree'
       PROVE  /\ tree'[m] = [kind |-> tree'[m].kind, label |-> tree'[m].label, kids |-> tree'[m].kids]
              /\ tree'[m].kind \in OpenKinds \cup Leaves
              /\ tree'[m].kind = "root" <=> m = 0
              /\ tree'[m].kids \in [RoleSet(tree'[m].kind) -> Seq(1 .. n)]
              /\ tree'[m].kind = "struct_patch" => Len(tree'[m].kids["input_path"]) <= 1
  <2>1. CASE m = n
    <3>1. kind \in OpenKinds \cup Leaves /\ kind # "root" /\ n # 0
      BY <1>4 DEF Growth, NodeKinds, Leaves, ExpressionLeaves, SchemaLeaves
    <3>2. <<>> \in Seq(1 .. n) /\ Len(<<>>) <= 1
      OBVIOUS
    <3>3. tree'[m].kids \in [RoleSet(kind) -> Seq(1 .. n)]
      BY <1>8, <1>9, <2>1, <3>2
    <3>4. kind = "struct_patch" => tree'[m].kids["input_path"] = <<>>
      BY <1>8, <1>9, <2>1, RoleSets
    <3>. QED
      BY <1>8, <1>9, <2>1, <3>1, <3>2, <3>3, <3>4
  <2>2. CASE m # n
    <3>1. /\ m \in DOMAIN tree
          /\ tree[m] = [kind |-> tree[m].kind, label |-> tree[m].label, kids |-> tree[m].kids]
          /\ tree[m].kind \in OpenKinds \cup Leaves
          /\ tree[m].kind = "root" <=> m = 0
          /\ tree[m].kids \in [RoleSet(tree[m].kind) -> Seq(1 .. (n - 1))]
          /\ tree[m].kind = "struct_patch" => Len(tree[m].kids["input_path"]) <= 1
      BY <1>3, <1>8, <2>2 DEF TreeOK
    <3>2. CASE m = P
      <4>1. kids \in [RoleSet(Top.kind) -> Seq(1 .. n)]
        <5>1. \A r \in RoleSet(Top.kind) : kids[r] \in Seq(1 .. n)
          BY <1>10, <1>12, <1>16
        <5>. HIDE DEF kids
        <5>. QED
          BY <1>12, <5>1
      <4>2. Top.kind = "struct_patch" => Len(kids["input_path"]) <= 1
        <5>1. ASSUME Top.kind = "struct_patch" PROVE "input_path" \in RoleSet(Top.kind)
          BY <5>1, RoleSets
        <5>2. role = "input_path" => tree[P].kids["input_path"] = <<>>
          BY DEF Growth, Kids, P
        <5>3. Len(Append(<<>>, n)) = 1
          OBVIOUS
        <5>. HIDE DEF kids
        <5>4. CASE role = "input_path"
          BY <1>12, <5>1, <5>2, <5>3, <5>4
        <5>5. CASE role # "input_path"
          BY <1>1, <1>12, <3>1, <3>2, <5>1, <5>5
        <5>. QED
          BY <5>4, <5>5
      <4>. HIDE DEF kids
      <4>. QED
        BY <1>1, <1>8, <1>11, <3>1, <3>2, <4>1, <4>2
    <3>3. CASE m # P
      <4>1. tree'[m] = tree[m]
        BY <1>8, <3>1, <3>3
      <4>2. \A S : tree[m].kids \in [S -> Seq(1 .. (n - 1))] => tree[m].kids \in [S -> Seq(1 .. n)]
        BY <1>16
      <4>. QED
        BY <3>1, <4>1, <4>2
    <3>. QED
      BY <3>2, <3>3
  <2>. QED
    BY <2>1, <2>2
<1>19. TreeOK'
  <2>1. NewNode' \in 1 .. (MaxNodes' + 1) /\ NewNode' - 1 = n
    BY <1>2, <1>4, <1>15
  <2>2. tree' = [m \in 0 .. n |-> tree'[m]]
    BY <1>6, <1>8
  <2>3. visitor' \in {"expression", "schema"}
    BY DEF TreeOK, Growth
  <2>. QED
    BY <1>17, <1>18, <2>1, <2>2, <2>3 DEF TreeOK
<1>. QED
  BY <1>3, <1>14, <1>19

\* The nodes that are closed can be read, or not, as before.
LEMMA GrowthUnreadable ==
  ASSUME TreeOK, NEW n, NEW role, NEW kind, Grew(n, role, kind), NEW m \in DOMAIN tree, m # Parent
  PROVE  Unreadable(m)' <=> Unreadable(m)
<1>1. tree'[m] = tree[m] /\ n = NewNode /\ DOMAIN tree = 0 .. (n - 1) /\ n \in Nat
  BY DEF Grew
<1>2. \A k \in DOMAIN tree : IsLiteral(k)' <=> IsLiteral(k)
  BY DEF Grew, IsLiteral
<1>3. CASE tree[m].kind = "map_literal"
  <2>1. RoleSet(tree[m].kind) = {"keys", "values"}
    BY <1>3, RoleSets
  <2>2. tree[m].kids \in [{"keys", "values"} -> Seq(1 .. (n - 1))]
    BY <1>1, <2>1 DEF TreeOK
  <2>3. ASSUME NEW r \in {"keys", "values"}, NEW i \in DOMAIN tree[m].kids[r]
        PROVE  tree[m].kids[r][i] \in DOMAIN tree
    <3>1. tree[m].kids[r] \in Seq(1 .. (n - 1))
      BY <2>2
    <3>0. \A S : \A q \in Seq(S) : \A j \in DOMAIN q : q[j] \in S
      OBVIOUS
    <3>2. tree[m].kids[r][i] \in 1 .. (n - 1)
      BY <3>0, <3>1, Zenon
    <3>. QED
      BY <1>1, <3>2
  <2>. QED
    BY <1>1, <1>2, <1>3, <2>3 DEF Unreadable
<1>4. CASE tree[m].kind # "map_literal"
  BY <1>1, <1>4 DEF Unreadable
<1>. QED
  BY <1>3, <1>4

LEMMA FreshUnreadable ==
  ASSUME NEW n, NEW role, NEW kind, Grew(n, role, kind)
  PROVE  Unreadable(n)' <=>
           kind \in {"refused_literal", "refused_node", "refused_type", "user_defined"}
<1>1. tree'[n].kind = kind /\ tree'[n].kids = [r \in RoleSet(kind) |-> <<>>]
  BY DEF Grew
<1>2. CASE kind = "map_literal"
  <2>1. tree'[n].kids["keys"] = <<>> /\ tree'[n].kids["values"] = <<>>
    BY <1>1, <1>2, RoleSets
  <2>. QED
    BY <1>1, <1>2, <2>1 DEF Unreadable
<1>3. CASE kind # "map_literal"
  BY <1>1, <1>3 DEF Unreadable
<1>. QED
  BY <1>2, <1>3

\* The list of a role grows by the new node, if it is visited into it, or stays as it is.
ListFollows(i, r, id, n, role, kind) ==
  /\ i \in DOMAIN stack' /\ stack'[i] = stack[i] /\ id = stack[i].ids[r]
  /\ i = Len(stack) /\ r = role =>
       kind # "literal" \/ (stack' = stack /\ v'.lists[id] = Append(v.lists[id], n))
  /\ ~(i = Len(stack) /\ r = role) =>
       /\ v'.lists[id] = v.lists[id]
       /\ i + 1 \in DOMAIN stack' =>
            (i + 1 \in DOMAIN stack /\ stack'[i + 1] = stack[i + 1]) \/ stack'[i + 1].sibling # id

\* The lists of entries have the new node, or it is no literal.
LEMMA ListedGrows ==
  ASSUME StackOK, TreeOK, NEW n, NEW role \in RoleSet(Top.kind), NEW kind, Grew(n, role, kind),
         NEW i \in DOMAIN stack, NEW r \in RoleSet(stack[i].kind), Listed(i, r),
         NEW id, ListFollows(i, r, id, n, role, kind)
  PROVE  Listed(i, r)'
<1>. DEFINE L == Len(stack)
            kids == tree[stack[i].node].kids[r]
            new == tree'[stack[i].node].kids[r]
<1>0. /\ i \in DOMAIN stack' /\ stack'[i] = stack[i] /\ id = stack[i].ids[r]
      /\ i = L /\ r = role =>
           kind # "literal" \/ (stack' = stack /\ v'.lists[id] = Append(v.lists[id], n))
      /\ ~(i = L /\ r = role) =>
           /\ v'.lists[id] = v.lists[id]
           /\ i + 1 \in DOMAIN stack' =>
                (i + 1 \in DOMAIN stack /\ stack'[i + 1] = stack[i + 1]) \/ stack'[i + 1].sibling # id
  BY DEF ListFollows
<1>1. L + 1 \notin DOMAIN stack /\ Parent = stack[L].node /\ L \in DOMAIN stack /\ Top = stack[L]
  BY StackFacts DEF Parent
<1>. HIDE DEF L
<1>2. FrameOK(stack[i])
  BY DEF StackOK
<1>3. n \in Nat /\ n = NewNode /\ DOMAIN tree = 0 .. (n - 1) /\ tree'[n].kind = kind
      /\ \A m \in DOMAIN tree : tree'[m].kind = tree[m].kind
  BY DEF Grew
<1>4. kids \in Seq(1 .. (n - 1))
  BY <1>2, <1>3 DEF FrameOK, TreeOK
<1>5. new = IF i = L /\ r = role THEN Append(kids, n) ELSE kids
  <2>1. CASE i = L
    BY <1>1, <2>1 DEF Grew
  <2>2. CASE i # L
    <3>1. stack[i].node # Parent /\ stack[i].node \in DOMAIN tree
      BY <1>1, <1>2, <2>2 DEF StackOK, FrameOK
    <3>. QED
      BY <2>2, <3>1 DEF Grew
  <2>. QED
    BY <2>1, <2>2
<1>6. Listed(i, r)' <=> \/ \E k \in DOMAIN new : tree'[new[k]].kind # "literal"
                       \/ /\ v'.lists[id] = new
                          /\ i + 1 \in DOMAIN stack' => stack'[i + 1].sibling # id
  BY <1>0 DEF Listed, IsLiteral
<1>7. \/ \E k \in DOMAIN kids : tree[kids[k]].kind # "literal"
      \/ v.lists[id] = kids /\ (i + 1 \in DOMAIN stack => stack[i + 1].sibling # id)
  BY <1>0 DEF Listed, IsLiteral
<1>. HIDE DEF new, kids
<1>8. \A k \in DOMAIN kids : kids[k] \in DOMAIN tree
  <2>0. \A S : \A q \in Seq(S) : \A j \in DOMAIN q : q[j] \in S
    OBVIOUS
  <2>1. \A k \in DOMAIN kids : kids[k] \in 1 .. (n - 1)
    BY <1>4, <2>0, Zenon
  <2>. QED
    BY <1>3, <2>1
<1>9. /\ \A k \in DOMAIN kids : k \in DOMAIN Append(kids, n) /\ Append(kids, n)[k] = kids[k]
      /\ Len(kids) + 1 \in DOMAIN Append(kids, n) /\ Append(kids, n)[Len(kids) + 1] = n
  BY <1>4
<1>10. CASE \E k \in DOMAIN kids : tree[kids[k]].kind # "literal"
  <2>1. PICK k \in DOMAIN kids : tree[kids[k]].kind # "literal"
    BY <1>10
  <2>2. k \in DOMAIN new /\ new[k] = kids[k]
    BY <1>5, <1>9
  <2>3. tree'[new[k]].kind # "literal"
    BY <1>3, <1>8, <2>1, <2>2
  <2>. QED
    BY <1>6, <2>2, <2>3
<1>11. CASE v.lists[id] = kids /\ (i + 1 \in DOMAIN stack => stack[i + 1].sibling # id)
  <2>1. CASE i = L /\ r = role
    <3>1. CASE kind # "literal"
      <4>1. PICK k : k \in DOMAIN new /\ new[k] = n
        BY <1>5, <1>9, <2>1
      <4>2. tree'[new[k]].kind # "literal"
        BY <1>3, <3>1, <4>1
      <4>. QED
        BY <1>6, <4>1, <4>2
    <3>2. CASE stack' = stack /\ v'.lists[id] = Append(v.lists[id], n)
      BY <1>1, <1>5, <1>6, <1>11, <2>1, <3>2
    <3>. QED
      BY <1>0, <2>1, <3>1, <3>2
  <2>2. CASE ~(i = L /\ r = role)
    <3>1. new = kids /\ v'.lists[id] = kids
      BY <1>0, <1>5, <1>11, <2>2
    <3>2. i + 1 \in DOMAIN stack' => stack'[i + 1].sibling # id
      BY <1>0, <1>11, <2>2
    <3>. QED
      BY <1>6, <3>1, <3>2
  <2>. QED
    BY <2>1, <2>2
<1>. QED
  BY <1>7, <1>10, <1>11

-----------------------------------------------------------------------------
(* A node without children.                                                *)

LEMMA LeafStack ==
  ASSUME StackOK, TreeOK, NEW n, NEW role, NEW kind, Grew(n, role, kind),
         UNCHANGED <<visitor, stack>>, DOMAIN v'.lists = DOMAIN v.lists
  PROVE  StackOK'
<1>1. \A m \in DOMAIN tree : m \in DOMAIN tree' /\ tree'[m].kind = tree[m].kind
  BY DEF Grew
<1>2. \A i \in DOMAIN stack : FrameOK(stack[i])'
  BY <1>1 DEF StackOK, FrameOK, OpenKinds
<1>3. stack' = stack
  OBVIOUS
<1>4. \A i \in DOMAIN stack' : FrameOK(stack[i])'
  BY <1>2, <1>3
<1>. QED
  BY <1>3, <1>4 DEF StackOK

LEMMA LeafCloses ==
  ASSUME StackOK, TreeOK, NEW n, NEW role, NEW kind, Grew(n, role, kind), UNCHANGED stack
  PROVE  /\ \A m : Closed(m)' <=> Closed(m) \/ m = n
         /\ \A m : Closed(m) => m \in DOMAIN tree /\ m # Parent
<1>1. \A i \in DOMAIN stack : stack[i].node \in DOMAIN tree
  BY DEF StackOK, FrameOK
<1>2. n \notin DOMAIN tree /\ DOMAIN tree' = DOMAIN tree \cup {n}
  BY DEF Grew
<1>3. Parent = stack[Len(stack)].node /\ Len(stack) \in DOMAIN stack
  BY StackFacts DEF Parent
<1>. QED
  BY <1>1, <1>2, <1>3, Zenon DEF Closed

LEMMA LeafJustified ==
  ASSUME StackOK, TreeOK, NEW n, NEW role, NEW kind, Grew(n, role, kind), UNCHANGED stack,
         first # NoError => first' # NoError,
         Justified \/ first' # NoError \/ kind \in {"refused_literal", "refused_type"}
  PROVE  Justified'
<1>1. n \in DOMAIN tree' /\ \A m \in DOMAIN tree : m \in DOMAIN tree'
  BY DEF Grew
<1>2. CASE kind \in {"refused_literal", "refused_type"}
  BY <1>1, <1>2, FreshUnreadable, LeafCloses DEF Justified
<1>3. CASE Justified
  BY <1>1, <1>3, GrowthUnreadable, LeafCloses DEF Justified
<1>4. CASE first' # NoError
  BY <1>4 DEF Justified
<1>. QED
  BY <1>2, <1>3, <1>4

\* The new node is in the list its siblings are in, for the visitor and for the kernel.
LEMMA LeafMirrors ==
  ASSUME StackOK, TreeOK, VisitorOK(v), Mirrors, NEW n, NEW role \in RoleSet(Top.kind), NEW kind,
         Grew(n, role, kind), UNCHANGED stack, Top.ids[role] # 0,
         kind \in {"literal", "column", "simple"}, Emitted(v, v', Top.ids[role], n, <<>>),
         first' = NoError
  PROVE  Mirrors'
<1>. DEFINE L == Len(stack)
            sibling == Top.ids[role]
<1>1. L \in DOMAIN stack /\ L + 1 \notin DOMAIN stack /\ Top = stack[L] /\ Parent = stack[L].node
  BY StackFacts DEF Parent
<1>2. v'.refused.path = <<>>
  BY DEF Mirrors, Emitted
<1>. HIDE DEF L
<1>3. ASSUME NEW i \in DOMAIN stack, NEW r \in RoleSet(stack[i].kind) PROVE Filled(i, r)'
  <2>. DEFINE id == stack[i].ids[r]
  <2>1. Filled(i, r) /\ FrameOK(stack[i])
    BY DEF Mirrors, StackOK
  <2>2. id # 0 => id \in DOMAIN v.lists
    BY <2>1 DEF FrameOK
  <2>3. id # 0 => v'.lists[id] = IF id = sibling THEN Append(v.lists[id], n) ELSE v.lists[id]
    BY <2>2 DEF Emitted
  <2>4. CASE i = L /\ r = role
    <3>1. tree'[stack[i].node].kids[r] = Append(tree[stack[i].node].kids[r], n)
      BY <1>1, <2>4 DEF Grew
    <3>2. tree[stack[i].node].kids[r] = v.lists[id] /\ id # 0 /\ id = sibling
      BY <1>1, <2>1, <2>4 DEF Filled
    <3>. QED
      BY <1>1, <2>3, <2>4, <3>1, <3>2 DEF Filled
  <2>5. CASE ~(i = L /\ r = role)
    <3>1. tree'[stack[i].node].kids[r] = tree[stack[i].node].kids[r]
      <4>1. CASE i = L
        BY <1>1, <2>5, <4>1 DEF Grew
      <4>2. CASE i # L
        <5>1. stack[i].node # Parent /\ stack[i].node \in DOMAIN tree
          BY <1>1, <2>1, <4>2 DEF StackOK, FrameOK
        <5>. QED
          BY <5>1 DEF Grew
      <4>. QED
        BY <4>1, <4>2
    <3>2. id # 0 => id # sibling
      BY <1>1, <2>5 DEF StackOK
    <3>. QED
      BY <2>1, <2>3, <3>1, <3>2 DEF Filled
  <2>. QED
    BY <2>4, <2>5
<1>4. ASSUME NEW m \in DOMAIN tree', Closed(m)' PROVE Built(m)' /\ ~Unreadable(m)'
  <2>1. DOMAIN v.built = 0 .. MaxNodes /\ n \in 0 .. MaxNodes
    BY DEF VisitorOK, Grew
  <2>2. CASE m = n
    <3>1. tree'[n].kind = kind /\ v'.built[n] = <<>>
      BY <2>1 DEF Grew, Emitted
    <3>2. ~Unreadable(n)'
      BY FreshUnreadable
    <3>. QED
      BY <2>2, <3>1, <3>2 DEF Built, ExpressionLeaves, SchemaLeaves
  <2>3. CASE m # n
    <3>1. Closed(m) /\ m \in DOMAIN tree /\ m # Parent
      BY <1>4, <2>3, LeafCloses
    <3>2. Built(m) /\ ~Unreadable(m) /\ tree'[m] = tree[m]
      BY <3>1 DEF Mirrors, Grew
    <3>3. v'.built[m] = v.built[m]
      BY <2>3 DEF Emitted
    <3>4. ~Unreadable(m)'
      BY <3>1, <3>2, GrowthUnreadable
    <3>. QED
      BY <3>2, <3>3, <3>4 DEF Built
  <2>. QED
    BY <2>2, <2>3
<1>5. DOMAIN v'.lists = DOMAIN v.lists
  BY DEF Emitted
<1>. QED
  BY <1>2, <1>3, <1>4, <1>5 DEF Mirrors

LEMMA LeafListed ==
  ASSUME StackOK, TreeOK, VisitorOK(v), EntriesListed, NEW n, NEW role \in RoleSet(Top.kind),
         NEW kind, Grew(n, role, kind), UNCHANGED stack,
         NEW sibling, sibling = Top.ids[role],
         \/ Emitted(v, v', sibling, n, <<>>)
         \/ kind # "literal" /\ v'.lists = v.lists
  PROVE  EntriesListed'
<1>1. Top = stack[Len(stack)] /\ Len(stack) \in DOMAIN stack
  BY StackFacts
<1>2. ASSUME NEW i \in DOMAIN stack, stack[i].kind = "map_literal", NEW r \in {"keys", "values"},
             Listed(i, r)
      PROVE  Listed(i, r)'
  <2>1. PICK id : id = stack[i].ids[r] /\ id \in DOMAIN v.lists /\ id # 0
    <3>1. r \in RoleSet(stack[i].kind)
      BY <1>2, RoleSets
    <3>. QED
      BY <1>2, <3>1 DEF StackOK, FrameOK, VisitorOK
  <2>2. r \in RoleSet(stack[i].kind)
    BY <1>2, RoleSets
  <2>3. id = sibling <=> i = Len(stack) /\ r = role
    BY <1>1, <2>1, <2>2 DEF StackOK
  <2>4. CASE Emitted(v, v', sibling, n, <<>>)
    <3>1. v'.lists[id] = IF id = sibling THEN Append(v.lists[id], n) ELSE v.lists[id]
      BY <2>1, <2>4 DEF Emitted
    <3>2. stack' = stack /\ i \in DOMAIN stack' /\ stack'[i] = stack[i]
      OBVIOUS
    <3>3. ListFollows(i, r, id, n, role, kind)
      BY <2>1, <2>3, <3>1, <3>2 DEF ListFollows
    <3>. QED
      BY <1>2, <2>2, <3>3, ListedGrows
  <2>5. CASE kind # "literal" /\ v'.lists = v.lists
    <3>1. ListFollows(i, r, id, n, role, kind)
      BY <2>1, <2>5 DEF ListFollows
    <3>. QED
      BY <1>2, <2>2, <3>1, ListedGrows
  <2>. QED
    BY <2>4, <2>5
<1>3. stack' = stack
  OBVIOUS
<1>. QED
  BY <1>2, <1>3 DEF EntriesListed

\* What was recorded of the first problem stays as it is.
LEMMA ReportsKept ==
  ASSUME StackOK, Reports, \A i \in DOMAIN stack : i \in DOMAIN stack' /\ stack'[i] = stack[i],
         first' = first, v'.error = v.error, v'.refused = v.refused
  PROVE  Reports'
<1>1. CASE first.what = "bad_annotation" /\ v.error = first /\ v.refused.path = <<>>
  BY <1>1 DEF Reports
<1>2. CASE /\ first.what = "unsupported" /\ first = [what |-> "unsupported", path |-> first.path]
           /\ v.error = [what |-> "unsupported", path |-> v.refused.path]
           /\ \E d \in DOMAIN stack : ReachesUpTo(d)
  <2>1. PICK d \in DOMAIN stack : ReachesUpTo(d)
    BY <1>2
  <2>2. DOMAIN stack = 1 .. Len(stack) /\ Len(stack) \in Nat
    BY StackFacts
  <2>3. \A i \in 1 .. (d - 1) : i \in DOMAIN stack /\ i + 1 \in DOMAIN stack
    BY <2>2
  <2>4. \A i \in 1 .. (d - 1) : stack'[i] = stack[i] /\ stack'[i + 1] = stack[i + 1]
    BY <2>3
  <2>5. \A i \in 1 .. (d - 1) : first.path[i] = NameIn(stack'[i].kind, FrameName(stack'[i + 1]))
    BY <2>1, <2>4 DEF ReachesUpTo
  <2>6. ReachesUpTo(d)' /\ d \in DOMAIN stack'
    BY <2>1, <2>5 DEF ReachesUpTo
  <2>. QED
    BY <1>2, <2>6 DEF Reports
<1>. QED
  BY <1>1, <1>2 DEF Reports

-----------------------------------------------------------------------------
(* Entering a node.                                                        *)

LEMMA PlacesDiffer ==
  ASSUME NEW kind, NEW i \in 1 .. Len(Roles(kind))
  PROVE  Roles(kind)[i] \in RoleSet(kind) /\ PlaceOf(kind, Roles(kind)[i]) = i
<1>. DEFINE r == Roles(kind)[i]
            p == PlaceOf(kind, r)
<1>1. DOMAIN Roles(kind) = 1 .. Len(Roles(kind))
  BY RoleCount
<1>2. r \in RoleSet(kind)
  BY <1>1 DEF RoleSet
<1>3. p \in 1 .. Len(Roles(kind)) /\ Roles(kind)[p] = r
  BY <1>2, Places
<1>4. ASSUME NEW j \in 1 .. Len(Roles(kind)), Roles(kind)[j] = Roles(kind)[i] PROVE j = i
  <2>1. CASE kind \in {"struct_literal", "map_literal"}
    <3>1. Roles(kind) = <<"keys", "values">> /\ Len(Roles(kind)) = 2
      BY <2>1, RoleSets
    <3>2. i \in {1, 2} /\ j \in {1, 2}
      BY <3>1
    <3>. QED
      BY <1>4, <3>1, <3>2
  <2>2. CASE kind = "struct_patch"
    <3>1. /\ Roles(kind) = <<"input_path", "prepended", "field_patches", "appended">>
          /\ Len(Roles(kind)) = 4
      BY <2>2, RoleSets
    <3>2. i \in {1, 2, 3, 4} /\ j \in {1, 2, 3, 4}
      BY <3>1
    <3>. QED
      BY <1>4, <3>1, <3>2
  <2>3. CASE kind \notin {"struct_literal", "map_literal", "struct_patch"}
    <3>1. Roles(kind) = <<"children">> /\ Len(Roles(kind)) = 1
      BY <2>3, RoleSets
    <3>. QED
      BY <3>1
  <2>. QED
    BY <2>1, <2>2, <2>3
<1>. QED
  BY <1>2, <1>3, <1>4

\* The lists of the node the kernel enters: new, empty, and each for one role.
NewLists(f) ==
  /\ f.ids \in [RoleSet(f.kind) -> Nat]
  /\ \A r \in RoleSet(f.kind) :
       \/ f.ids[r] = 0 /\ f.kind = "field_patch"
       \/ f.ids[r] # 0 /\ f.ids[r] \in DOMAIN v'.lists \ DOMAIN v.lists /\ v'.lists[f.ids[r]] = <<>>
  /\ \A r, q \in RoleSet(f.kind) : f.ids[r] = f.ids[q] /\ f.ids[r] # 0 => r = q
  /\ DOMAIN v.lists \subseteq DOMAIN v'.lists
  /\ \A id \in DOMAIN v.lists : v'.lists[id] = v.lists[id]
  /\ \A id \in DOMAIN v'.lists \ DOMAIN v.lists : \E r \in RoleSet(f.kind) : f.ids[r] = id

LEMMA Allocation ==
  ASSUME VisitorOK(v), NEW f, NEW listed \in BOOLEAN, ~listed => f.kind = "field_patch",
         v' = MakeFieldLists(v, IF listed THEN Len(Roles(f.kind)) ELSE 0),
         f.ids = [r \in RoleSet(f.kind) |->
                    IF ~listed THEN 0 ELSE v.next_id - 1 + PlaceOf(f.kind, r)]
  PROVE  NewLists(f)
<1>. DEFINE k == IF listed THEN Len(Roles(f.kind)) ELSE 0
            new == v.next_id .. (v.next_id + k - 1)
            R == RoleSet(f.kind)
<1>1. k \in Nat
  BY RoleCount
<1>2. v' = MakeFieldLists(v, k)
  OBVIOUS
<1>. HIDE DEF k
<1>3. /\ DOMAIN v'.lists = DOMAIN v.lists \cup new
      /\ \A id \in DOMAIN v.lists : v'.lists[id] = v.lists[id]
      /\ \A id \in new : v'.lists[id] = <<>>
  BY <1>1, <1>2, MakeFields
<1>4. v.next_id \in Nat \ {0} /\ \A id \in new : id # 0 /\ id \notin DOMAIN v.lists
  BY <1>1 DEF VisitorOK
<1>5. CASE listed
  <2>1. \A r \in R : f.ids[r] = v.next_id - 1 + PlaceOf(f.kind, r)
    BY <1>5
  <2>2. k = Len(Roles(f.kind))
    BY <1>5 DEF k
  <2>3. ASSUME NEW r \in R PROVE f.ids[r] \in new /\ f.ids[r] \in Nat
    <3>1. PlaceOf(f.kind, r) \in 1 .. k
      BY <2>2, Places
    <3>. QED
      BY <1>1, <1>4, <2>1, <3>1
  <2>4. ASSUME NEW r \in R, NEW q \in R, f.ids[r] = f.ids[q] PROVE r = q
    <3>1. PlaceOf(f.kind, r) \in 1 .. k /\ PlaceOf(f.kind, q) \in 1 .. k
      BY <2>2, Places
    <3>2. PlaceOf(f.kind, r) = PlaceOf(f.kind, q)
      BY <1>1, <1>4, <2>1, <2>4, <3>1
    <3>3. Roles(f.kind)[PlaceOf(f.kind, r)] = r /\ Roles(f.kind)[PlaceOf(f.kind, q)] = q
      BY Places
    <3>. QED
      BY <3>2, <3>3
  <2>5. ASSUME NEW id \in new PROVE \E r \in R : f.ids[r] = id
    <3>1. PICK i \in 1 .. k : id = v.next_id - 1 + i
      <4>1. id - v.next_id + 1 \in 1 .. k /\ id = v.next_id - 1 + (id - v.next_id + 1)
        BY <1>1, <1>4
      <4>. QED
        BY <4>1
    <3>2. Roles(f.kind)[i] \in R /\ PlaceOf(f.kind, Roles(f.kind)[i]) = i
      BY <2>2, PlacesDiffer
    <3>. QED
      BY <2>1, <3>1, <3>2
  <2>6. f.ids \in [R -> Nat]
    BY <2>3
  <2>. HIDE DEF new
  <2>. QED
    BY <1>3, <1>4, <2>3, <2>4, <2>5, <2>6 DEF NewLists
<1>6. CASE ~listed
  <2>1. k = 0 /\ \A r \in R : f.ids[r] = 0
    BY <1>6 DEF k
  <2>2. new = {}
    BY <1>4, <2>1
  <2>3. f.ids \in [R -> Nat] /\ f.kind = "field_patch"
    BY <1>6
  <2>. HIDE DEF new
  <2>. QED
    BY <1>3, <2>1, <2>2, <2>3 DEF NewLists
<1>. QED
  BY <1>5, <1>6

\* The kernel is in a new node, whose siblings are in a list of the one it was in.
Entered(f, n, role, kind) ==
  /\ f \in Frame /\ f.node = n /\ f.kind = kind /\ kind \in OpenKinds \ {"root"}
  /\ role \in RoleSet(Top.kind) /\ f.sibling = Top.ids[role] /\ f.sibling # 0
  /\ stack' = Append(stack, f) /\ UNCHANGED <<visitor, first>>
  /\ NewLists(f)

LEMMA Pushed ==
  ASSUME StackOK, NEW f \in Frame, stack' = Append(stack, f)
  PROVE  /\ stack' \in Seq(Frame) /\ Len(stack') = Len(stack) + 1 /\ Len(stack) \in Nat \ {0}
         /\ DOMAIN stack' = 1 .. (Len(stack) + 1) /\ DOMAIN stack = 1 .. Len(stack)
         /\ \A i \in DOMAIN stack : i \in DOMAIN stack' /\ stack'[i] = stack[i] /\ i # Len(stack) + 1
         /\ stack'[Len(stack) + 1] = f /\ Len(stack) + 1 \in DOMAIN stack'
         /\ \A i \in DOMAIN stack' : i \in DOMAIN stack \/ i = Len(stack) + 1
<1>1. stack \in Seq(Frame) /\ Len(stack) \in Nat \ {0} /\ DOMAIN stack = 1 .. Len(stack)
  BY DEF StackOK
<1>2. /\ stack' \in Seq(Frame) /\ Len(stack') = Len(stack) + 1
      /\ \A i \in 1 .. Len(stack) : stack'[i] = stack[i]
      /\ stack'[Len(stack) + 1] = f
  BY <1>1
<1>3. DOMAIN stack' = 1 .. (Len(stack) + 1)
  BY <1>1, <1>2
<1>. QED
  BY <1>1, <1>2, <1>3

LEMMA EnterStack ==
  ASSUME StackOK, TreeOK, VisitorOK(v), NEW f, NEW n, NEW role, NEW kind, Grew(n, role, kind),
         Entered(f, n, role, kind)
  PROVE  StackOK'
<1>0. /\ f \in Frame /\ f.node = n /\ f.kind = kind /\ kind \in OpenKinds \ {"root"}
      /\ role \in RoleSet(Top.kind) /\ f.sibling = Top.ids[role] /\ f.sibling # 0
      /\ stack' = Append(stack, f) /\ visitor' = visitor /\ NewLists(f)
  BY DEF Entered
<1>1. PICK L \in Nat \ {0} :
        /\ L = Len(stack) /\ stack' \in Seq(Frame) /\ Len(stack') = L + 1
        /\ DOMAIN stack' = 1 .. (L + 1) /\ DOMAIN stack = 1 .. L
        /\ \A i \in DOMAIN stack : i \in DOMAIN stack' /\ stack'[i] = stack[i] /\ i # L + 1
        /\ stack'[L + 1] = f /\ L + 1 \in DOMAIN stack'
        /\ \A i \in DOMAIN stack' : i \in DOMAIN stack \/ i = L + 1
  BY <1>0, Pushed
<1>2. Top = stack[L] /\ L \in DOMAIN stack
  BY <1>1, StackFacts
<1>3. /\ n \in DOMAIN tree' /\ n \notin DOMAIN tree /\ n # 0 /\ tree'[n].kind = kind
      /\ \A m \in DOMAIN tree : m \in DOMAIN tree' /\ tree'[m].kind = tree[m].kind
  BY DEF Grew
<1>4. ASSUME NEW i \in DOMAIN stack PROVE FrameOK(stack[i]) /\ FrameOK(stack[i])'
  <2>1. FrameOK(stack[i]) /\ stack'[i] = stack[i]
    BY <1>1 DEF StackOK
  <2>2. DOMAIN v.lists \subseteq DOMAIN v'.lists
    BY <1>0 DEF NewLists
  <2>. QED
    BY <1>0, <1>3, <2>1, <2>2 DEF FrameOK, OpenKinds
<1>5. FrameOK(f)'
  BY <1>0, <1>3 DEF NewLists, FrameOK, OpenKinds
<1>6. ASSUME NEW i \in DOMAIN stack' PROVE FrameOK(stack[i])'
  BY <1>1, <1>4, <1>5
<1>7. ASSUME NEW i \in DOMAIN stack' PROVE stack'[i].node = 0 <=> i = 1
  <2>1. CASE i = L + 1
    BY <1>0, <1>1, <1>3, <2>1
  <2>2. CASE i \in DOMAIN stack
    BY <1>1, <2>2 DEF StackOK
  <2>. QED
    BY <1>1, <2>1, <2>2
<1>8. ASSUME NEW i \in DOMAIN stack', NEW j \in DOMAIN stack', stack'[i].node = stack'[j].node
      PROVE  i = j
  <2>1. \A m \in DOMAIN stack : stack'[m].node = stack[m].node /\ stack[m].node \in DOMAIN tree
    BY <1>1, <1>4 DEF FrameOK
  <2>2. stack'[L + 1].node = n
    BY <1>0, <1>1
  <2>3. CASE i \in DOMAIN stack /\ j \in DOMAIN stack
    BY <1>8, <2>1, <2>3 DEF StackOK
  <2>. QED
    BY <1>1, <1>3, <1>8, <2>1, <2>2, <2>3
<1>9. ASSUME NEW i \in DOMAIN stack', NEW j \in DOMAIN stack',
             NEW r \in RoleSet(stack'[i].kind), NEW q \in RoleSet(stack'[j].kind),
             stack'[i].ids[r] = stack'[j].ids[q], stack'[i].ids[r] # 0
      PROVE  i = j /\ r = q
  <2>1. ASSUME NEW m \in DOMAIN stack, NEW p \in RoleSet(stack[m].kind), stack[m].ids[p] # 0
        PROVE  stack[m].ids[p] \in DOMAIN v.lists
    BY <1>4, <2>1 DEF FrameOK
  <2>2. \A p \in RoleSet(f.kind) : f.ids[p] # 0 => f.ids[p] \notin DOMAIN v.lists
    BY <1>0 DEF NewLists
  <2>3. CASE i \in DOMAIN stack /\ j \in DOMAIN stack
    <3>1. stack'[i] = stack[i] /\ stack'[j] = stack[j]
      BY <1>1, <2>3
    <3>. QED
      BY <1>9, <2>3, <3>1 DEF StackOK
  <2>4. CASE i = L + 1 /\ j = L + 1
    BY <1>0, <1>1, <1>9, <2>4 DEF NewLists
  <2>5. CASE i \in DOMAIN stack /\ j = L + 1
    <3>1. stack'[i] = stack[i] /\ stack'[j] = f
      BY <1>1, <2>5
    <3>. QED
      BY <1>9, <2>1, <2>2, <2>5, <3>1
  <2>6. CASE i = L + 1 /\ j \in DOMAIN stack
    <3>1. stack'[i] = f /\ stack'[j] = stack[j]
      BY <1>1, <2>6
    <3>. QED
      BY <1>9, <2>1, <2>2, <2>6, <3>1
  <2>. QED
    BY <1>1, <2>3, <2>4, <2>5, <2>6
<1>10. ASSUME NEW i \in DOMAIN stack', i + 1 \in DOMAIN stack'
       PROVE  /\ stack'[i + 1].sibling # 0
              /\ \E r \in RoleSet(stack'[i].kind) : stack'[i + 1].sibling = stack'[i].ids[r]
  <2>1. CASE i = L
    BY <1>0, <1>1, <1>2, <2>1
  <2>2. CASE i # L
    <3>1. i \in DOMAIN stack /\ i + 1 \in DOMAIN stack
      BY <1>1, <1>10, <2>2
    <3>2. stack'[i] = stack[i] /\ stack'[i + 1] = stack[i + 1]
      BY <1>1, <3>1
    <3>3. /\ stack[i + 1].sibling # 0
          /\ \E r \in RoleSet(stack[i].kind) : stack[i + 1].sibling = stack[i].ids[r]
      BY <3>1 DEF StackOK
    <3>. QED
      BY <3>2, <3>3
  <2>. QED
    BY <2>1, <2>2
<1>11. stack' \in Seq(Frame) /\ Len(stack') >= 1
  BY <1>1
<1>. QED
  BY <1>6, <1>7, <1>8, <1>9, <1>10, <1>11 DEF StackOK

LEMMA EnterCloses ==
  ASSUME StackOK, TreeOK, NEW f, NEW n, NEW role, NEW kind, Grew(n, role, kind),
         Entered(f, n, role, kind)
  PROVE  /\ \A m : Closed(m)' <=> Closed(m)
         /\ \A m : Closed(m) => m \in DOMAIN tree /\ m \in DOMAIN tree' /\ m # Parent
<1>1. f \in Frame /\ f.node = n /\ stack' = Append(stack, f)
  BY DEF Entered
<1>2. PICK e \in Nat :
        /\ \A i \in DOMAIN stack : i \in DOMAIN stack' /\ stack'[i] = stack[i]
        /\ stack'[e] = f /\ e \in DOMAIN stack'
        /\ \A i \in DOMAIN stack' : i \in DOMAIN stack \/ i = e
  <2>1. Len(stack) + 1 \in Nat
    BY StackFacts
  <2>. QED
    BY <1>1, <2>1, Pushed
<1>3. n \notin DOMAIN tree /\ DOMAIN tree' = DOMAIN tree \cup {n}
  BY DEF Grew
<1>4. Parent = stack[Len(stack)].node /\ Len(stack) \in DOMAIN stack
  BY StackFacts DEF Parent
<1>. QED
  BY <1>1, <1>2, <1>3, <1>4, Zenon DEF Closed

LEMMA EnterJustified ==
  ASSUME StackOK, TreeOK, NEW f, NEW n, NEW role, NEW kind, Grew(n, role, kind),
         Entered(f, n, role, kind), Justified
  PROVE  Justified'
<1>1. first' = first
  BY DEF Entered
<1>. QED
  BY <1>1, GrowthUnreadable, EnterCloses DEF Justified

\* The list of the new node's siblings has all of them but the new node itself.
LEMMA EnterMirrors ==
  ASSUME StackOK, TreeOK, VisitorOK(v), NEW f, NEW n, NEW role, NEW kind, Grew(n, role, kind),
         Entered(f, n, role, kind), Mirrors, v'.refused = v.refused, v'.built = v.built
  PROVE  Mirrors'
<1>0. /\ f \in Frame /\ f.node = n /\ f.kind = kind
      /\ role \in RoleSet(Top.kind) /\ f.sibling = Top.ids[role] /\ f.sibling # 0
      /\ stack' = Append(stack, f) /\ first' = first /\ NewLists(f)
  BY DEF Entered
<1>1. PICK L \in Nat \ {0} :
        /\ L = Len(stack) /\ DOMAIN stack' = 1 .. (L + 1) /\ DOMAIN stack = 1 .. L
        /\ \A i \in DOMAIN stack : i \in DOMAIN stack' /\ stack'[i] = stack[i] /\ i # L + 1
        /\ stack'[L + 1] = f /\ L + 1 \in DOMAIN stack'
        /\ \A i \in DOMAIN stack' : i \in DOMAIN stack \/ i = L + 1
  BY <1>0, Pushed
<1>2. Top = stack[L] /\ L \in DOMAIN stack /\ Parent = stack[L].node
  BY <1>1, StackFacts DEF Parent
<1>3. ASSUME NEW i \in DOMAIN stack, NEW r \in RoleSet(stack[i].kind) PROVE Filled(i, r)'
  <2>. DEFINE id == stack[i].ids[r]
  <2>1. Filled(i, r) /\ FrameOK(stack[i]) /\ stack'[i] = stack[i]
    BY <1>1 DEF Mirrors, StackOK
  <2>2. id # 0 => v'.lists[id] = v.lists[id]
    BY <1>0, <2>1 DEF FrameOK, NewLists
  <2>3. CASE i = L /\ r = role
    <3>1. tree'[stack[i].node].kids[r] = Append(tree[stack[i].node].kids[r], n)
      BY <1>2, <2>3 DEF Grew
    <3>2. L + 1 \notin DOMAIN stack
      BY <1>1
    <3>3. tree[stack[i].node].kids[r] = v.lists[id] /\ id # 0 /\ id = f.sibling
      BY <1>0, <1>2, <2>1, <2>3, <3>2 DEF Filled
    <3>4. i + 1 \in DOMAIN stack' /\ stack'[i + 1] = f
      BY <1>1, <2>3
    <3>. QED
      BY <1>0, <2>1, <2>2, <3>1, <3>3, <3>4 DEF Filled
  <2>4. CASE i = L /\ r # role
    <3>1. tree'[stack[i].node].kids[r] = tree[stack[i].node].kids[r]
      BY <1>2, <2>4 DEF Grew
    <3>2. L + 1 \notin DOMAIN stack
      BY <1>1
    <3>3. i + 1 \in DOMAIN stack' /\ stack'[i + 1] = f
      BY <1>1, <2>4
    <3>4. id # 0 => id # f.sibling
      BY <1>0, <1>2, <2>4 DEF StackOK
    <3>5. tree[stack[i].node].kids[r] = IF id = 0 THEN <<>> ELSE v.lists[id]
      BY <2>1, <2>4, <3>2 DEF Filled
    <3>. QED
      BY <2>1, <2>2, <3>1, <3>3, <3>4, <3>5 DEF Filled
  <2>5. CASE i # L
    <3>1. stack[i].node # Parent /\ stack[i].node \in DOMAIN tree
      BY <1>2, <2>1, <2>5 DEF StackOK, FrameOK
    <3>2. tree'[stack[i].node] = tree[stack[i].node]
      BY <3>1 DEF Grew
    <3>3. i + 1 \in DOMAIN stack
      BY <1>1, <2>5
    <3>4. i + 1 \in DOMAIN stack' /\ stack'[i + 1] = stack[i + 1]
      BY <1>1, <3>3
    <3>. QED
      BY <2>1, <2>2, <3>2, <3>3, <3>4 DEF Filled
  <2>. QED
    BY <2>3, <2>4, <2>5
<1>4. ASSUME NEW e \in Nat, e = L + 1, NEW r \in RoleSet(f.kind) PROVE Filled(e, r)'
  <2>1. tree'[n].kids[r] = <<>>
    BY <1>0 DEF Grew
  <2>2. e + 1 \notin DOMAIN stack' /\ stack'[e] = f
    BY <1>1, <1>4
  <2>3. f.ids[r] # 0 => v'.lists[f.ids[r]] = <<>>
    BY <1>0 DEF NewLists
  <2>. QED
    BY <1>0, <2>1, <2>2, <2>3 DEF Filled
<1>5. ASSUME NEW i \in DOMAIN stack', NEW r \in RoleSet(stack'[i].kind) PROVE Filled(i, r)'
  BY <1>1, <1>3, <1>4
<1>6. ASSUME NEW m \in DOMAIN tree', Closed(m)' PROVE Built(m)' /\ ~Unreadable(m)'
  <2>1. Closed(m) /\ m \in DOMAIN tree /\ m # Parent
    BY <1>6, EnterCloses
  <2>2. Built(m) /\ ~Unreadable(m) /\ tree'[m] = tree[m]
    BY <2>1 DEF Mirrors, Grew
  <2>3. ~Unreadable(m)'
    BY <2>1, <2>2, GrowthUnreadable
  <2>. QED
    BY <2>2, <2>3 DEF Built
<1>7. ASSUME NEW id \in DOMAIN v'.lists
      PROVE  \E i \in DOMAIN stack' : \E r \in RoleSet(stack'[i].kind) : stack'[i].ids[r] = id
  <2>1. CASE id \in DOMAIN v.lists
    <3>1. PICK i \in DOMAIN stack : \E r \in RoleSet(stack[i].kind) : stack[i].ids[r] = id
      BY <2>1 DEF Mirrors
    <3>. QED
      BY <1>1, <3>1
  <2>2. CASE id \notin DOMAIN v.lists
    BY <1>0, <1>1, <2>2 DEF NewLists
  <2>. QED
    BY <2>1, <2>2
<1>. QED
  BY <1>0, <1>5, <1>6, <1>7 DEF Mirrors

LEMMA EnterListed ==
  ASSUME StackOK, TreeOK, VisitorOK(v), EntriesListed, NEW f, NEW n, NEW role, NEW kind,
         Grew(n, role, kind), Entered(f, n, role, kind), kind # "literal"
  PROVE  EntriesListed'
<1>0. /\ f \in Frame /\ f.node = n /\ f.kind = kind
      /\ role \in RoleSet(Top.kind) /\ f.sibling = Top.ids[role] /\ f.sibling # 0
      /\ stack' = Append(stack, f) /\ NewLists(f)
  BY DEF Entered
<1>1. PICK L \in Nat \ {0} :
        /\ L = Len(stack) /\ DOMAIN stack' = 1 .. (L + 1) /\ DOMAIN stack = 1 .. L
        /\ \A i \in DOMAIN stack : i \in DOMAIN stack' /\ stack'[i] = stack[i] /\ i # L + 1
        /\ stack'[L + 1] = f /\ L + 1 \in DOMAIN stack'
        /\ \A i \in DOMAIN stack' : i \in DOMAIN stack \/ i = L + 1
  BY <1>0, Pushed
<1>2. Top = stack[L] /\ L \in DOMAIN stack
  BY <1>1, StackFacts
<1>3. ASSUME NEW i \in DOMAIN stack, stack[i].kind = "map_literal", NEW r \in {"keys", "values"},
             Listed(i, r)
      PROVE  Listed(i, r)'
  <2>1. r \in RoleSet(stack[i].kind)
    BY <1>3, RoleSets
  <2>2. PICK id : id = stack[i].ids[r] /\ id \in DOMAIN v.lists /\ id # 0
    BY <1>3, <2>1 DEF StackOK, FrameOK, VisitorOK
  <2>3. v'.lists[id] = v.lists[id]
    BY <1>0, <2>2 DEF NewLists
  <2>4. ASSUME ~(i = L /\ r = role), i + 1 \in DOMAIN stack'
        PROVE  (i + 1 \in DOMAIN stack /\ stack'[i + 1] = stack[i + 1]) \/ stack'[i + 1].sibling # id
    <3>1. CASE i = L
      <4>1. stack'[i + 1] = f
        BY <1>1, <3>1
      <4>2. f.sibling # id
        BY <1>0, <1>2, <2>1, <2>2, <2>4, <3>1 DEF StackOK
      <4>. QED
        BY <4>1, <4>2
    <3>2. CASE i # L
      <4>1. i + 1 \in DOMAIN stack
        BY <1>1, <3>2
      <4>. QED
        BY <1>1, <4>1
    <3>. QED
      BY <3>1, <3>2
  <2>5. i \in DOMAIN stack' /\ stack'[i] = stack[i]
    BY <1>1
  <2>6. ListFollows(i, r, id, n, role, kind)
    <3>1. kind # "literal" /\ L = Len(stack)
      BY <1>1
    <3>. QED
      BY <2>2, <2>3, <2>4, <2>5, <3>1 DEF ListFollows
  <2>. QED
    BY <1>0, <1>3, <2>1, <2>6, ListedGrows
<1>4. ASSUME NEW e \in Nat, e = L + 1, f.kind = "map_literal", NEW r \in {"keys", "values"}
      PROVE  Listed(e, r)'
  <2>1. r \in RoleSet(f.kind) /\ f.kind # "field_patch"
    BY <1>4, RoleSets
  <2>2. tree'[n].kids[r] = <<>>
    BY <1>0, <2>1 DEF Grew
  <2>3. v'.lists[f.ids[r]] = <<>>
    BY <1>0, <2>1 DEF NewLists
  <2>4. e + 1 \notin DOMAIN stack' /\ stack'[e] = f
    BY <1>1, <1>4
  <2>. QED
    BY <1>0, <2>2, <2>3, <2>4 DEF Listed
<1>5. ASSUME NEW i \in DOMAIN stack', stack'[i].kind = "map_literal"
      PROVE  Listed(i, "keys")' /\ Listed(i, "values")'
  <2>1. CASE i \in DOMAIN stack
    <3>1. stack[i].kind = "map_literal"
      BY <1>1, <1>5, <2>1
    <3>. QED
      BY <1>3, <2>1, <3>1 DEF EntriesListed
  <2>2. CASE i = L + 1
    BY <1>1, <1>4, <1>5, <2>2
  <2>. QED
    BY <1>1, <2>1, <2>2
<1>. QED
  BY <1>5 DEF EntriesListed

-----------------------------------------------------------------------------
(* Every step keeps the invariant.                                         *)

LEMMA WalkGoesOn ==
  ASSUME result' = "walking", VisitorOK(v)', v'.error.what # "aborted", TreeOK', StackOK',
         v'.error = NoError => Mirrors',
         v'.error # NoError => v'.error.what # "none" /\ Justified',
         v'.error # NoError /\ visitor' = "schema" => Reports',
         visitor' = "expression" => first' = NoError /\ EntriesListed'
  PROVE  IInv'
<1>1. \A i \in DOMAIN stack' : stack'[i].node \in DOMAIN tree'
  BY DEF StackOK, FrameOK
<1>2. Walk'
  BY DEF Walk
<1>3. /\ ResultMirrorsTree' /\ ThrowsExactlyWhenUnreadable' /\ SchemaReportsFirstProblem'
      /\ AbortsOnlyInMapLiterals'
  BY DEF ResultMirrorsTree, ThrowsExactlyWhenUnreadable, SchemaReportsFirstProblem,
         AbortsOnlyInMapLiterals
<1>. QED
  BY <1>1, <1>2, <1>3 DEF IInv

\* A map literal ends the walk and the process.
LEMMA AbortsHere ==
  ASSUME result' = "aborted", visitor' = "expression", VisitorOK(v)', TreeOK', StackOK',
         \/ first'.what = "rejected_entries"
         \/ \E n \in DOMAIN tree' : tree'[n].kind = "map_literal" /\ Unreadable(n)'
  PROVE  IInv'
<1>1. \A i \in DOMAIN stack' : stack'[i].node \in DOMAIN tree'
  BY DEF StackOK, FrameOK
<1>2. ResultMirrorsTree' /\ ThrowsExactlyWhenUnreadable' /\ SchemaReportsFirstProblem'
  BY DEF ResultMirrorsTree, ThrowsExactlyWhenUnreadable, SchemaReportsFirstProblem
<1>3. AbortsOnlyInMapLiterals'
  BY DEF AbortsOnlyInMapLiterals
<1>. QED
  BY <1>1, <1>2, <1>3 DEF IInv

\* What the walk has reached when a callback runs.
LEMMA Walking ==
  ASSUME IInv, result = "walking"
  PROVE  /\ VisitorOK(v) /\ v.error.what # "aborted" /\ TreeOK /\ StackOK
         /\ v.error = NoError => Mirrors /\ first = NoError /\ v.refused.path = <<>>
         /\ v.error # NoError => v.error.what # "none" /\ Justified
         /\ v.error # NoError /\ visitor = "schema" => Reports /\ first # NoError
         /\ visitor = "expression" => first = NoError /\ EntriesListed
<1>1. Reports => first # NoError
  BY DEF Reports, NoError
<1>. QED
  BY <1>1 DEF IInv, Walk, Mirrors

LEMMA VisitorOKNext ==
  ASSUME UNCHANGED visitor, VisitorOK(v')
  PROVE  VisitorOK(v)'
<1>1. MaxNodes' = MaxNodes
  BY DEF MaxNodes
<1>. QED
  BY <1>1 DEF VisitorOK

\* A step that visits one more node, in a list that is in flight.
LEMMA OneMoreNode ==
  ASSUME IInv, Room, UNCHANGED visitor, NEW role \in RoleSet(Top.kind), NEW kind, NEW label,
         MayHold(role, kind), tree' = Grown(role, kind, label)
  PROVE  /\ TreeOK' /\ kind \in NodeKinds
         /\ Top.ids[role] # 0 /\ Top.ids[role] \in DOMAIN v.lists
         /\ \E n \in 1 .. MaxNodes : n = NewNode /\ Grew(n, role, kind)
<1>1. result = "walking" /\ NewNode <= MaxNodes
  BY DEF Room
<1>2. StackOK /\ TreeOK
  BY <1>1, Walking
<1>3. kind \in NodeKinds /\ Top.ids[role] # 0 /\ (role = "input_path" => Kids("input_path") = <<>>)
  BY <1>2, HeldKinds
<1>4. Growth(role, kind, label)
  BY <1>1, <1>3 DEF Growth
<1>5. TreeOK' /\ Grew(NewNode, role, kind)
  BY <1>2, <1>4, TreeGrows
<1>6. Top.ids[role] \in DOMAIN v.lists
  BY <1>2, <1>3, StackFacts DEF FrameOK
<1>7. NewNode \in 1 .. MaxNodes
  BY <1>5 DEF Grew
<1>. QED
  BY <1>3, <1>5, <1>6, <1>7

LEMMA ExpressionLeafStep ==
  ASSUME IInv, NEW role \in RoleSet(Top.kind), NEW kind, VisitExpressionLeaf(role, kind)
  PROVE  IInv'
<1>. DEFINE sibling == Top.ids[role]
<1>1. /\ visitor = "expression" /\ Room /\ kind \in ExpressionLeaves /\ MayHold(role, kind)
      /\ tree' = Grown(role, kind, "own") /\ UNCHANGED <<visitor, stack, first, result>>
      /\ result = "walking" /\ result' = "walking"
  BY DEF VisitExpressionLeaf, Room
<1>2. TreeOK' /\ sibling # 0 /\ sibling \in DOMAIN v.lists
  BY <1>1, OneMoreNode
<1>3. PICK n \in 1 .. MaxNodes : n = NewNode /\ Grew(n, role, kind)
  BY <1>1, OneMoreNode
<1>4. /\ VisitorOK(v) /\ v.error.what # "aborted" /\ TreeOK /\ StackOK
      /\ v.error = NoError => Mirrors /\ first = NoError
      /\ v.error # NoError => v.error.what # "none" /\ Justified
      /\ first = NoError /\ EntriesListed
  BY <1>1, Walking
<1>. HIDE DEF sibling
<1>5. CASE kind = "refused_literal"
  <2>1. v' = Fail(v, "not_implemented")
    BY <1>5 DEF VisitExpressionLeaf, VisitRefusedLiteral
  <2>2. /\ VisitorOK(v') /\ v'.error = [what |-> "not_implemented", path |-> <<>>]
        /\ v'.lists = v.lists
    BY <1>4, <2>1, FailFields
  <2>3. v'.error # NoError /\ v'.error.what \notin {"none", "aborted"}
    BY <2>2 DEF NoError
  <2>4. StackOK'
    BY <1>1, <1>3, <1>4, <2>2, LeafStack
  <2>5. Justified'
    BY <1>1, <1>3, <1>4, <1>5, LeafJustified
  <2>6. EntriesListed'
    BY <1>1, <1>3, <1>4, <1>5, <2>2, LeafListed
  <2>. QED
    BY <1>1, <1>2, <1>4, <2>2, <2>3, <2>4, <2>5, <2>6, VisitorOKNext, WalkGoesOn
<1>6. CASE kind # "refused_literal"
  <2>1. v' = Emit(v, sibling, n, <<>>)
    BY <1>3, <1>6 DEF VisitExpressionLeaf, VisitLiteral, sibling
  <2>2. Emitted(v, v', sibling, n, <<>>)
    BY <1>2, <1>4, <2>1, EmitFields
  <2>3. VisitorOK(v') /\ v'.error = v.error /\ DOMAIN v'.lists = DOMAIN v.lists
    BY <2>2 DEF Emitted
  <2>4. StackOK'
    BY <1>1, <1>3, <1>4, <2>3, LeafStack
  <2>5. ASSUME v.error = NoError PROVE Mirrors'
    BY <1>1, <1>2, <1>3, <1>4, <1>6, <2>2, <2>5, LeafMirrors DEF sibling, ExpressionLeaves
  <2>6. ASSUME v.error # NoError PROVE Justified'
    BY <1>1, <1>3, <1>4, <2>6, LeafJustified
  <2>7. EntriesListed'
    BY <1>1, <1>3, <1>4, <2>2, LeafListed DEF sibling
  <2>. QED
    BY <1>1, <1>2, <1>4, <2>3, <2>4, <2>5, <2>6, <2>7, VisitorOKNext, WalkGoesOn
<1>. QED
  BY <1>5, <1>6

LEMMA LabelsHeld ==
  ASSUME NEW label \in Labels
  PROVE  label \in Label
  BY DEF Labels, Label

LEMMA AnnotationFields ==
  ASSUME NEW s, NEW name, NEW bad \in BOOLEAN, VisitorOK(s)
  PROVE  LET a == ApplyDeltaColumnMapping(s, name, bad)
         IN  /\ SameLists(s, a) /\ a.refused = s.refused
             /\ a.error = IF bad /\ s.error = NoError
                          THEN [what |-> "bad_annotation", path |-> <<name>>] ELSE s.error
<1>1. CASE bad
  BY <1>1, RecordFields DEF ApplyDeltaColumnMapping
<1>2. CASE ~bad
  BY <1>2 DEF ApplyDeltaColumnMapping, SameLists
<1>. QED
  BY <1>1, <1>2

LEMMA SchemaLeafStep ==
  ASSUME IInv, NEW role \in RoleSet(Top.kind), NEW kind, NEW label, NEW bad \in BOOLEAN,
         VisitSchemaLeaf(role, kind, label, bad)
  PROVE  IInv'
<1>. DEFINE sibling == Top.ids[role]
<1>1. /\ visitor = "schema" /\ Room /\ kind \in SchemaLeaves /\ MayHold(role, kind)
      /\ label \in Labels /\ (bad => kind = "simple")
      /\ tree' = Grown(role, kind, label) /\ UNCHANGED <<visitor, stack, result>>
      /\ result = "walking" /\ result' = "walking"
  BY DEF VisitSchemaLeaf, Room
<1>2. TreeOK' /\ sibling # 0 /\ sibling \in DOMAIN v.lists
  BY <1>1, OneMoreNode
<1>3. PICK n \in 1 .. MaxNodes : n = NewNode /\ Grew(n, role, kind)
  BY <1>1, OneMoreNode
<1>. DEFINE name == [node |-> n, label |-> label]
<1>4. /\ VisitorOK(v) /\ v.error.what # "aborted" /\ TreeOK /\ StackOK
      /\ v.error = NoError => Mirrors /\ first = NoError /\ v.refused.path = <<>>
      /\ v.error # NoError => v.error.what # "none" /\ Justified /\ Reports /\ first # NoError
  BY <1>1, Walking
<1>5. label \in Label /\ n \in Nat
  BY <1>1, LabelsHeld
<1>6. role = "children" /\ Top = stack[Len(stack)]
  BY <1>1, <1>4, StackFacts, SchemaFrames
<1>7. \A i \in DOMAIN stack : i \in DOMAIN stack' /\ stack'[i] = stack[i]
  BY <1>1
<1>. HIDE DEF sibling
<1>8. CASE kind = "refused_type"
  <2>1. v' = RefuseType(v, sibling, name)
    BY <1>3, <1>8 DEF VisitSchemaLeaf, VisitRefusedType, sibling
  <2>2. ~bad /\ first' = IF first = NoError THEN [what |-> "unsupported", path |-> PathOf(stack, n, label)]
                         ELSE first
    BY <1>1, <1>3, <1>8 DEF VisitSchemaLeaf, Problem
  <2>. HIDE DEF name
  <2>3. /\ v.error = NoError => Refusal(v, v', [path |-> <<name>>, list |-> sibling])
        /\ v.error # NoError => v' = v
    BY <1>4, <2>1, RefuseFields
  <2>4. VisitorOK(v') /\ v'.lists = v.lists
    BY <1>4, <2>3 DEF Refusal, SameLists
  <2>5. StackOK'
    BY <1>1, <1>3, <1>4, <2>4, LeafStack
  <2>6. Justified'
    <3>1. first # NoError => first' # NoError
      BY <2>2
    <3>. QED
      BY <1>1, <1>3, <1>4, <1>8, <3>1, LeafJustified
  <2>7. CASE v.error = NoError
    <3>1. v'.refused = [path |-> <<name>>, list |-> sibling]
          /\ v'.error = [what |-> "unsupported", path |-> <<name>>]
      BY <2>3, <2>7 DEF Refusal
    <3>2. v'.error # NoError /\ v'.error.what \notin {"none", "aborted"}
      BY <3>1 DEF NoError
    <3>3. sibling = stack'[Len(stack')].ids["children"]
      BY <1>1, <1>6 DEF sibling
    <3>4. first' = [what |-> "unsupported", path |-> PathOf(stack', n, label)]
      BY <1>1, <1>4, <2>2, <2>7
    <3>5. Reports'
      BY <1>5, <2>5, <3>1, <3>3, <3>4, RefusalReports DEF name
    <3>. QED
      BY <1>1, <1>2, <2>4, <2>5, <2>6, <3>2, <3>5, VisitorOKNext, WalkGoesOn
  <2>8. CASE v.error # NoError
    <3>1. v' = v /\ first' = first
      BY <1>4, <2>2, <2>3, <2>8
    <3>2. Reports'
      BY <1>4, <1>7, <2>8, <3>1, ReportsKept
    <3>3. v'.error # NoError /\ v'.error.what \notin {"none", "aborted"}
      BY <1>4, <2>8, <3>1
    <3>. QED
      BY <1>1, <1>2, <2>4, <2>5, <2>6, <3>2, <3>3, VisitorOKNext, WalkGoesOn
  <2>. QED
    BY <2>7, <2>8
<1>9. CASE kind = "simple"
  <2>. DEFINE a == ApplyDeltaColumnMapping(v, name, bad)
  <2>1. v' = Emit(a, sibling, n, <<>>)
    BY <1>3, <1>9 DEF VisitSchemaLeaf, VisitSimpleType, sibling
  <2>2. first' = IF bad /\ first = NoError THEN [what |-> "bad_annotation", path |-> <<name>>] ELSE first
    BY <1>3, <1>9 DEF VisitSchemaLeaf, Problem
  <2>. HIDE DEF name
  <2>3. /\ SameLists(v, a) /\ a.refused = v.refused
        /\ a.error = IF bad /\ v.error = NoError
                     THEN [what |-> "bad_annotation", path |-> <<name>>] ELSE v.error
    BY <1>4, AnnotationFields
  <2>4. ~bad => a = v
    BY DEF ApplyDeltaColumnMapping
  <2>. HIDE DEF a
  <2>5. Emitted(a, v', sibling, n, <<>>)
    BY <1>2, <2>1, <2>3, EmitFields DEF SameLists
  <2>6. VisitorOK(v') /\ v'.error = a.error /\ v'.refused = v.refused /\ DOMAIN v'.lists = DOMAIN v.lists
    BY <2>3, <2>5 DEF Emitted, SameLists
  <2>7. StackOK'
    BY <1>1, <1>3, <1>4, <2>6, LeafStack
  <2>8. CASE v.error # NoError
    <3>1. first' = first /\ v'.error = v.error
      BY <1>4, <2>2, <2>3, <2>6, <2>8
    <3>2. Reports'
      BY <1>4, <1>7, <2>6, <2>8, <3>1, ReportsKept
    <3>3. Justified'
      BY <1>1, <1>3, <1>4, <2>8, <3>1, LeafJustified
    <3>4. v'.error # NoError /\ v'.error.what \notin {"none", "aborted"}
      BY <1>4, <2>8, <3>1
    <3>. QED
      BY <1>1, <1>2, <2>6, <2>7, <3>2, <3>3, <3>4, VisitorOKNext, WalkGoesOn
  <2>9. CASE v.error = NoError /\ bad
    <3>1. first' = [what |-> "bad_annotation", path |-> <<name>>] /\ v'.error = first'
      BY <1>4, <2>2, <2>3, <2>6, <2>9
    <3>2. first'.what = "bad_annotation" /\ v'.error # NoError /\ first' # NoError
      BY <3>1 DEF NoError
    <3>3. Reports' /\ Justified'
      BY <1>4, <2>6, <2>9, <3>1, <3>2 DEF Reports, Justified
    <3>. QED
      BY <1>1, <1>2, <2>6, <2>7, <3>1, <3>2, <3>3, VisitorOKNext, WalkGoesOn
  <2>10. CASE v.error = NoError /\ ~bad
    <3>1. first' = NoError /\ v'.error = NoError /\ Emitted(v, v', Top.ids[role], n, <<>>)
      BY <1>4, <2>2, <2>3, <2>4, <2>5, <2>6, <2>10 DEF sibling
    <3>2. Top.ids[role] # 0 /\ stack' = stack /\ kind \in {"literal", "column", "simple"}
      BY <1>1, <1>2, <1>9 DEF sibling
    <3>3. Mirrors'
      BY <1>3, <1>4, <2>10, <3>1, <3>2, LeafMirrors
    <3>4. v'.error.what # "aborted"
      BY <3>1 DEF NoError
    <3>. QED
      BY <1>1, <1>2, <2>6, <2>7, <3>1, <3>3, <3>4, VisitorOKNext, WalkGoesOn
  <2>. QED
    BY <2>8, <2>9, <2>10
<1>. QED
  BY <1>1, <1>8, <1>9 DEF SchemaLeaves

LEMMA EnterStep ==
  ASSUME IInv, NEW role \in RoleSet(Top.kind), NEW kind, NEW label, NEW listed \in BOOLEAN,
         Enter(role, kind, label, listed)
  PROVE  IInv'
<1>. DEFINE k == IF listed THEN Len(Roles(kind)) ELSE 0
            ids == [r \in RoleSet(kind) |->
                      IF ~listed THEN 0 ELSE v.next_id - 1 + PlaceOf(kind, r)]
<1>1. /\ Room /\ MayHold(role, kind) /\ label \in Labels /\ result = "walking" /\ result' = "walking"
      /\ kind \notin ExpressionLeaves \cup SchemaLeaves /\ (~listed => kind = "field_patch")
      /\ tree' = Grown(role, kind, label) /\ UNCHANGED <<visitor, first>>
      /\ v' = MakeFieldLists(v, k)
  BY DEF Enter, Room
<1>2. TreeOK' /\ Top.ids[role] # 0 /\ Top.ids[role] \in DOMAIN v.lists /\ kind \in NodeKinds
  BY <1>1, OneMoreNode
<1>3. PICK n \in 1 .. MaxNodes : n = NewNode /\ Grew(n, role, kind)
  BY <1>1, OneMoreNode
<1>. DEFINE f == [node |-> n, kind |-> kind, label |-> label, sibling |-> Top.ids[role],
                  ids |-> ids]
<1>4. stack' = Append(stack, f)
  BY <1>3 DEF Enter, PlaceOf
<1>5. /\ VisitorOK(v) /\ v.error.what # "aborted" /\ TreeOK /\ StackOK
      /\ v.error = NoError => Mirrors
      /\ v.error # NoError => v.error.what # "none" /\ Justified
      /\ v.error # NoError /\ visitor = "schema" => Reports
      /\ visitor = "expression" => first = NoError /\ EntriesListed
  BY <1>1, Walking
<1>6. k \in Nat
  BY RoleCount
<1>7. kind \in OpenKinds \ {"root"} /\ kind \in Kind
  BY <1>1, <1>2 DEF NodeKinds, Leaves, OpenKinds, Kind
<1>. HIDE DEF k, ids
<1>8. /\ VisitorOK(v') /\ v'.error = v.error /\ v'.refused = v.refused /\ v'.built = v.built
  BY <1>1, <1>5, <1>6, MakeFields
<1>9. NewLists(f)
  <2>1. f.kind = kind /\ f.ids = ids
    OBVIOUS
  <2>. HIDE DEF f
  <2>. QED
    BY <1>1, <1>5, <2>1, Allocation DEF k, ids
<1>10. f \in Frame
  <2>1. ids \in [RoleSet(kind) -> Nat]
    BY <1>9 DEF NewLists
  <2>2. ids \in UNION {[RoleSet(c) -> Nat] : c \in Kind}
    BY <1>7, <2>1
  <2>3. n \in Nat /\ label \in Label /\ Top.ids[role] \in Nat
    BY <1>1, <1>2, <1>5, LabelsHeld DEF VisitorOK
  <2>. QED
    BY <1>7, <2>2, <2>3 DEF Frame
<1>11. /\ f.node = n /\ f.kind = kind /\ f.sibling = Top.ids[role]
  OBVIOUS
<1>12. \E g \in Frame : Entered(g, n, role, kind)
  <2>. HIDE DEF f
  <2>. QED
    BY <1>1, <1>2, <1>4, <1>7, <1>9, <1>10, <1>11 DEF Entered
<1>. HIDE DEF f
<1>13. PICK g \in Frame : Entered(g, n, role, kind)
  BY <1>12
<1>14. StackOK'
  BY <1>3, <1>5, <1>13, EnterStack
<1>15. v.error = NoError => Mirrors'
  BY <1>3, <1>5, <1>8, <1>13, EnterMirrors
<1>16. v.error # NoError => Justified'
  BY <1>3, <1>5, <1>13, EnterJustified
<1>17. v.error # NoError /\ visitor = "schema" => Reports'
  <2>1. \A i \in DOMAIN stack : i \in DOMAIN stack' /\ stack'[i] = stack[i]
    BY <1>4, <1>5, <1>10, Pushed
  <2>. QED
    BY <1>1, <1>5, <1>8, <2>1, ReportsKept
<1>18. visitor = "expression" => EntriesListed'
  <2>1. kind # "literal"
    BY <1>1 DEF ExpressionLeaves
  <2>. QED
    BY <1>3, <1>5, <1>13, <2>1, EnterListed
<1>. QED
  BY <1>1, <1>2, <1>5, <1>8, <1>14, <1>15, <1>16, <1>17, <1>18, VisitorOKNext, WalkGoesOn

LEMMA LeaveExpressionStep ==
  ASSUME IInv, NEW rejects \in BOOLEAN, LeaveExpression(rejects)
  PROVE  IInv'
<1>1. /\ visitor = "expression" /\ Len(stack) > 1 /\ Complete /\ Pop
      /\ result = "walking" /\ UNCHANGED <<visitor, tree>>
      /\ rejects => Top.kind = "map_literal" /\ AllLiteral(v, Top.ids)
      /\ v' = VisitExpressionNode(v, Top.kind, Top.sibling, Top.node, Top.ids, rejects)
      /\ result' = IF v'.error.what = "aborted" THEN "aborted" ELSE result
  BY DEF LeaveExpression, Pop
<1>2. /\ VisitorOK(v) /\ v.error.what # "aborted" /\ TreeOK /\ StackOK
      /\ v.error = NoError => Mirrors /\ v.refused.path = <<>>
      /\ v.error # NoError => v.error.what # "none" /\ Justified
      /\ first = NoError /\ EntriesListed
  BY <1>1, Walking
<1>3. Ready(Top) /\ Top.kind \in ExpressionNodes \cup {"field_patch"} /\ Top.node \in DOMAIN tree
  BY <1>1, <1>2, TopReady DEF OpenKinds
<1>4. OutcomeOrAbort(Top, v', rejects)
  BY <1>1, <1>3, ExpressionCallback
<1>5. Kept(v', OwnIds(Top), Top.sibling)
  BY <1>4 DEF OutcomeOrAbort, Outcome
<1>6. VisitorOK(v') /\ VisitorOK(v)'
  BY <1>1, <1>5, VisitorOKNext DEF Kept
<1>7. StackOK' /\ TreeOK'
  <2>1. MaxNodes' = MaxNodes /\ OpenKinds' = OpenKinds /\ Leaves' = Leaves /\ NewNode' = NewNode
    BY <1>1 DEF MaxNodes, OpenKinds, Leaves, NewNode
  <2>2. TreeOK'
    BY <1>1, <1>2, <2>1 DEF TreeOK
  <2>. QED
    BY <1>1, <1>2, <1>5, <2>2, LeaveStack
<1>8. EntriesListed'
  BY <1>1, <1>2, <1>5, LeaveListed
<1>9. CASE Aborts(Top, rejects)
  <2>1. v'.error.what = "aborted" /\ result' = "aborted" /\ Top.kind = "map_literal"
    BY <1>1, <1>4, <1>9 DEF OutcomeOrAbort, Aborts
  <2>2. CASE Len(v.lists[Top.ids["keys"]]) # Len(v.lists[Top.ids["values"]])
    <3>1. tree[Top.node].kind = "map_literal" /\ Unreadable(Top.node)
      BY <1>1, <1>2, <2>1, <2>2, ShortEntries
    <3>2. Top.node \in DOMAIN tree' /\ tree'[Top.node].kind = "map_literal"
      BY <1>1, <1>3, <3>1
    <3>3. PICK n : n = Top.node
      OBVIOUS
    <3>4. Unreadable(n)'
      BY <1>1, <3>1, <3>3, UnreadableSame
    <3>. QED
      BY <1>1, <3>2, <3>3, <3>4, <1>6, <1>7, <2>1, AbortsHere
  <2>3. CASE Len(v.lists[Top.ids["keys"]]) = Len(v.lists[Top.ids["values"]])
    <3>1. rejects
      <4>1. \A q \in Seq(1 .. MaxNodes) : ~(Len(q) < Len(q))
        OBVIOUS
      <4>2. RoleSet(Top.kind) = {"keys", "values"}
        BY <2>1, RoleSets
      <4>3. v.lists[Top.ids["keys"]] \in Seq(1 .. MaxNodes)
        BY <1>3, <2>1, <4>2, ReadyLists DEF Ready, VisitorOK
      <4>. QED
        BY <1>9, <2>3, <4>1, <4>3 DEF Aborts
    <3>2. first'.what = "rejected_entries"
      BY <1>2, <2>3, <3>1 DEF LeaveExpression, Problem
    <3>. QED
      BY <1>1, <1>6, <1>7, <2>1, <3>2, AbortsHere
  <2>. QED
    BY <2>2, <2>3
<1>10. CASE ~Aborts(Top, rejects)
  <2>1. ~rejects
    BY <1>1, <1>10 DEF Aborts, Refuses, AllLiteral
  <2>2. first' = NoError
    BY <1>2, <2>1 DEF LeaveExpression
  <2>3. /\ v'.refused = v.refused
        /\ Refuses(Top) => v'.error.what \notin {"none", "aborted"}
        /\ ~Refuses(Top) => /\ v'.error = v.error
                            /\ Visited(v', OwnIds(Top), Top.sibling, Top.node, Children(Top))
    BY <1>4, <1>10 DEF OutcomeOrAbort, Outcome
  <2>4. v'.error.what # "aborted" /\ result' = "walking"
    BY <1>1, <1>2, <2>3
  <2>5. CASE v.error # NoError
    <3>1. v'.error # NoError /\ v'.error.what # "none"
      BY <1>2, <2>3, <2>5 DEF NoError
    <3>2. Justified'
      BY <1>1, <1>2, <2>5, LeaveJustified
    <3>. QED
      BY <1>1, <1>6, <1>7, <1>8, <2>2, <2>4, <3>1, <3>2, WalkGoesOn
  <2>6. CASE v.error = NoError /\ Refuses(Top)
    <3>1. Unreadable(Top.node)
      BY <1>1, <1>2, <2>6, TopReadable
    <3>2. v'.error # NoError /\ v'.error.what # "none"
      BY <2>3, <2>6 DEF NoError
    <3>3. Justified'
      BY <1>1, <1>2, <3>1, LeaveJustified
    <3>. QED
      BY <1>1, <1>6, <1>7, <1>8, <2>2, <2>4, <3>2, <3>3, WalkGoesOn
  <2>7. CASE v.error = NoError /\ ~Refuses(Top)
    <3>1. ~Unreadable(Top.node)
      BY <1>1, <1>2, <2>7, TopReadable
    <3>2. v'.error = NoError /\ v'.refused.path = <<>>
      BY <1>2, <2>3, <2>7
    <3>3. Mirrors'
      BY <1>1, <1>2, <2>2, <2>3, <2>7, <3>1, <3>2, LeaveMirrors
    <3>. QED
      BY <1>1, <1>6, <1>7, <1>8, <2>2, <2>4, <3>2, <3>3, WalkGoesOn
  <2>. QED
    BY <2>5, <2>6, <2>7
<1>. QED
  BY <1>9, <1>10

LEMMA LeaveFieldStep ==
  ASSUME IInv, NEW bad \in BOOLEAN, LeaveField(bad)
  PROVE  IInv'
<1>. DEFINE name == FrameName(Top)
            outer == SubSeq(stack, 1, Len(stack) - 1)
<1>1. /\ visitor = "schema" /\ Len(stack) > 1 /\ Complete /\ Pop
      /\ bad => Top.kind # "user_defined"
      /\ result = "walking" /\ UNCHANGED <<visitor, tree>> /\ stack' = outer
      /\ v' = VisitSchemaNode(v, Top.kind, Top.sibling, Top.node, name, Top.ids, bad)
      /\ result' = IF v'.error.what = "aborted" THEN "aborted" ELSE result
  BY DEF LeaveField, Pop, FrameName
<1>2. /\ VisitorOK(v) /\ v.error.what # "aborted" /\ TreeOK /\ StackOK
      /\ v.error = NoError => Mirrors /\ first = NoError /\ v.refused.path = <<>>
      /\ v.error # NoError => v.error.what # "none" /\ Justified /\ Reports /\ first # NoError
  BY <1>1, Walking
<1>3. /\ Ready(Top) /\ Top.kind \in SchemaNodes
      /\ Top.node \in DOMAIN tree /\ tree[Top.node].kind = Top.kind
  BY <1>1, <1>2, TopReady DEF OpenKinds
<1>. HIDE DEF outer, name
<1>4. /\ Kept(v', OwnIds(Top), Top.sibling)
      /\ v.error # NoError => Extension(Top, v', name)
      /\ v.error = NoError /\ v.refused.path = <<>> /\ Full(Top) => SchemaOutcome(Top, v', name, bad)
  BY <1>1, <1>3, SchemaCallback
<1>5. VisitorOK(v')
  BY <1>4 DEF Kept
<1>6. StackOK' /\ TreeOK'
  <2>1. MaxNodes' = MaxNodes /\ OpenKinds' = OpenKinds /\ Leaves' = Leaves /\ NewNode' = NewNode
    BY <1>1 DEF MaxNodes, OpenKinds, Leaves, NewNode
  <2>2. TreeOK'
    BY <1>1, <1>2, <2>1 DEF TreeOK
  <2>. QED
    BY <1>1, <1>2, <1>4, <2>2, LeaveStack
<1>7. CASE v.error # NoError
  <2>1. first' = first
    BY <1>2, <1>7 DEF LeaveField, Problem
  <2>2. Reports'
    BY <1>1, <1>2, <1>4, <1>7, <2>1, LeaveReports DEF name
  <2>3. Justified'
    BY <1>1, <1>2, <1>7, <2>1, LeaveJustified
  <2>4. v'.error # NoError /\ v'.error.what \notin {"none", "aborted"}
    BY <1>2, <1>4, <1>7 DEF Extension, NoError
  <2>. QED
    BY <1>1, <1>5, <1>6, <2>2, <2>3, <2>4, VisitorOKNext, WalkGoesOn
<1>8. ASSUME v.error = NoError PROVE SchemaOutcome(Top, v', name, bad)
  <2>1. Full(Top)
    BY <1>1, <1>2, <1>8, TopFull
  <2>. QED
    BY <1>2, <1>4, <1>8, <2>1
<1>9. CASE v.error = NoError /\ Top.kind = "user_defined"
  <2>1. /\ v'.refused = [path |-> <<name>>, list |-> Top.sibling]
        /\ v'.error = [what |-> "unsupported", path |-> <<name>>]
    BY <1>8, <1>9 DEF SchemaOutcome
  <2>2. first' = [what |-> "unsupported", path |-> PathOf(stack', Top.node, Top.label)]
    BY <1>1, <1>2, <1>9 DEF LeaveField, Problem, outer
  <2>3. PICK node \in Nat, label \in Label : node = Top.node /\ label = Top.label
    BY <1>2, StackFacts DEF Frame
  <2>4. Top.sibling = stack'[Len(stack')].ids["children"]
    <3>1. PICK L \in Nat : /\ L = Len(stack) /\ L > 1 /\ Len(stack') = L - 1 /\ DOMAIN stack = 1 .. L
                           /\ DOMAIN stack' = 1 .. (L - 1)
                           /\ \A i \in DOMAIN stack' : i \in DOMAIN stack /\ stack'[i] = stack[i]
      BY <1>1, <1>2, Popped
    <3>2. L - 1 \in DOMAIN stack' /\ L - 1 \in DOMAIN stack /\ (L - 1) + 1 = L /\ L \in DOMAIN stack
      BY <3>1
    <3>3. \E r \in RoleSet(stack[L - 1].kind) : stack[L].sibling = stack[L - 1].ids[r]
      <4>1. \A i \in DOMAIN stack : i + 1 \in DOMAIN stack =>
              \E r \in RoleSet(stack[i].kind) : stack[i + 1].sibling = stack[i].ids[r]
        BY <1>2 DEF StackOK
      <4>. QED
        BY <3>2, <4>1
    <3>4. RoleSet(stack[L - 1].kind) = {"children"}
      BY <1>1, <1>2, <3>2, SchemaFrames
    <3>. QED
      BY <3>1, <3>2, <3>3, <3>4 DEF Top
  <2>5. name = [node |-> node, label |-> label]
    BY <2>3 DEF name, FrameName
  <2>6. Reports'
    BY <1>6, <2>1, <2>2, <2>3, <2>4, <2>5, RefusalReports
  <2>7. v'.error # NoError /\ v'.error.what \notin {"none", "aborted"} /\ first' # NoError
    BY <2>1, <2>2 DEF NoError
  <2>8. Justified'
    BY <2>7 DEF Justified
  <2>. QED
    BY <1>1, <1>5, <1>6, <2>6, <2>7, <2>8, VisitorOKNext, WalkGoesOn
<1>10. CASE v.error = NoError /\ Top.kind # "user_defined" /\ bad
  <2>1. v'.refused = v.refused /\ v'.error = [what |-> "bad_annotation", path |-> <<name>>]
    BY <1>8, <1>10 DEF SchemaOutcome
  <2>2. first' = [what |-> "bad_annotation", path |-> <<name>>]
    BY <1>2, <1>10 DEF LeaveField, Problem, name, FrameName
  <2>3. v'.error # NoError /\ first' # NoError /\ first'.what = "bad_annotation"
        /\ v'.error.what \notin {"none", "aborted"}
    BY <2>1, <2>2 DEF NoError
  <2>4. Reports' /\ Justified'
    BY <1>2, <1>10, <2>1, <2>2, <2>3 DEF Reports, Justified
  <2>. QED
    BY <1>1, <1>5, <1>6, <2>3, <2>4, VisitorOKNext, WalkGoesOn
<1>11. CASE v.error = NoError /\ Top.kind # "user_defined" /\ ~bad
  <2>1. /\ v'.refused = v.refused /\ v'.error = NoError
        /\ Visited(v', OwnIds(Top), Top.sibling, Top.node, Children(Top))
    BY <1>8, <1>11 DEF SchemaOutcome
  <2>2. first' = NoError
    BY <1>2, <1>11 DEF LeaveField
  <2>3. ~Unreadable(Top.node)
    BY <1>3, <1>11 DEF Unreadable, SchemaNodes
  <2>4. Mirrors'
    BY <1>1, <1>2, <1>11, <2>1, <2>2, <2>3, LeaveMirrors
  <2>5. v'.error.what # "aborted"
    BY <2>1 DEF NoError
  <2>. QED
    BY <1>1, <1>5, <1>6, <2>1, <2>4, <2>5, VisitorOKNext, WalkGoesOn
<1>. QED
  BY <1>7, <1>9, <1>10, <1>11

\* The path that was refused is the whole path once only the table itself is open.
LEMMA WholePath ==
  ASSUME StackOK, TreeOK, Len(stack) = 1, Reports
  PROVE  v.error = first
<1>1. CASE /\ first.what = "unsupported" /\ first = [what |-> "unsupported", path |-> first.path]
           /\ v.error = [what |-> "unsupported", path |-> v.refused.path]
           /\ \E d \in DOMAIN stack : ReachesUpTo(d)
  <2>. DEFINE p == first.path
              q == v.refused.path
  <2>1. DOMAIN stack = {1}
    BY StackFacts
  <2>2. ReachesUpTo(1)
    BY <1>1, <2>1
  <2>3. stack[1].kind = "root"
    BY <2>1 DEF StackOK, FrameOK, TreeOK
  <2>4. p \in Seq(Name) /\ q \in Seq(Name) /\ Len(p) = 1 - 1 + Len(q)
        /\ p[1] = q[1] /\ \A j \in 2 .. Len(q) : p[1 - 1 + j] = q[j]
    BY <2>2, <2>3 DEF ReachesUpTo, NameIn
  <2>5. Len(p) \in Nat /\ Len(q) \in Nat /\ Len(p) = Len(q)
    BY <2>4
  <2>6. \A j \in 1 .. Len(q) : p[j] = q[j]
    <3>1. \A j \in 1 .. Len(q) : j = 1 \/ (j \in 2 .. Len(q) /\ 1 - 1 + j = j)
      BY <2>5
    <3>. QED
      BY <2>4, <3>1
  <2>7. p = q
    BY <2>4, <2>5, <2>6, SeqEqual
  <2>. QED
    BY <1>1, <2>7
<1>. QED
  BY <1>1 DEF Reports

LEMMA FinishStep ==
  ASSUME IInv, Finish
  PROVE  IInv'
<1>1. /\ result = "walking" /\ Len(stack) = 1 /\ UNCHANGED <<visitor, stack, tree, first>>
  BY DEF Finish
<1>2. /\ VisitorOK(v) /\ v.error.what # "aborted" /\ TreeOK /\ StackOK
      /\ v.error = NoError => Mirrors /\ first = NoError
      /\ v.error # NoError => v.error.what # "none" /\ Justified
      /\ v.error # NoError /\ visitor = "schema" => Reports
  BY <1>1, Walking
<1>3. MaxNodes' = MaxNodes /\ OpenKinds' = OpenKinds /\ Leaves' = Leaves /\ NewNode' = NewNode
  BY <1>1 DEF MaxNodes, OpenKinds, Leaves, NewNode
<1>4. TreeOK' /\ \A i \in DOMAIN stack' : stack'[i].node \in DOMAIN tree'
  <2>1. TreeOK'
    BY <1>1, <1>2, <1>3 DEF TreeOK
  <2>. QED
    BY <1>1, <1>2, <2>1 DEF StackOK, FrameOK
<1>5. \A n : Unreadable(n)' <=> Unreadable(n)
  BY <1>1, UnreadableSame
<1>6. CASE v.error # NoError
  <2>1. v' = v /\ result' = "threw"
    BY <1>6 DEF Finish
  <2>2. VisitorOK(v)'
    BY <1>1, <1>2, <2>1, VisitorOKNext
  <2>3. ThrowsExactlyWhenUnreadable'
    BY <1>1, <1>2, <1>5, <1>6, <2>1 DEF ThrowsExactlyWhenUnreadable, Justified
  <2>4. SchemaReportsFirstProblem'
    BY <1>1, <1>2, <1>6, <2>1, WholePath DEF SchemaReportsFirstProblem
  <2>. QED
    BY <1>2, <1>4, <2>1, <2>2, <2>3, <2>4 DEF IInv, ResultMirrorsTree, AbortsOnlyInMapLiterals
<1>7. CASE v.error = NoError
  <2>. DEFINE id == Top.ids["children"]
              t == TakeFieldLists(v, <<id>>)
              root == [children |-> v.lists[id]]
              built == [t.built EXCEPT ![0] = root]
  <2>1. v' = [t EXCEPT !.built[0] = root] /\ result' = "returned"
    BY <1>7 DEF Finish
  <2>2. DOMAIN stack = {1} /\ Top = stack[1] /\ FrameOK(Top) /\ Top.node = 0
    BY <1>1, <1>2, StackFacts DEF StackOK
  <2>3. 0 \in DOMAIN tree /\ tree[0].kind = "root" /\ Top.kind = "root"
    BY <1>2, <2>2 DEF FrameOK, TreeOK
  <2>4. RoleSet(Top.kind) = {"children"} /\ id \in DOMAIN v.lists /\ id \in Nat /\ id # 0
    <3>1. RoleSet(Top.kind) = {"children"}
      BY <2>3, RoleSets
    <3>2. id \in DOMAIN v.lists
      BY <2>2, <2>3, <3>1 DEF FrameOK
    <3>. QED
      BY <1>2, <3>1, <3>2 DEF VisitorOK
  <2>5. root = tree[0].kids
    <3>1. Children(Top) = root
      BY <2>3, <2>4 DEF Children
    <3>2. Complete
      BY <2>3 DEF Complete
    <3>. QED
      BY <1>2, <1>7, <2>2, <3>1, <3>2, TopChildren
  <2>6. Taken(v, t, {id})
    <3>1. <<id>> \in Seq(Nat) /\ DOMAIN <<id>> = {1} /\ <<id>>[1] = id
      BY <2>4
    <3>2. HasLists(v, <<id>>) /\ {<<id>>[j] : j \in DOMAIN <<id>>} = {id}
      <4>. HIDE DEF id
      <4>. QED
        BY <2>4, <3>1 DEF HasLists
    <3>3. Taken(v, t, {<<id>>[j] : j \in DOMAIN <<id>>})
      BY <1>2, <3>1, <3>2, TakeFields
    <3>. QED
      BY <3>2, <3>3
  <2>. HIDE DEF t, root, id
  <2>7. VisitorOK(t) /\ t.error = NoError /\ t.built = v.built /\ DOMAIN t.lists = DOMAIN v.lists \ {id}
    BY <1>7, <2>6 DEF Taken
  <2>8. /\ v'.lists = t.lists /\ v'.error = NoError /\ v'.built = built
        /\ v'.next_id = t.next_id
        /\ v' = [lists |-> v'.lists, next_id |-> v'.next_id, error |-> v'.error,
                 refused |-> v'.refused, built |-> v'.built]
    <3>1. v' = [t EXCEPT !.built = built]
      BY <2>1, <2>7 DEF VisitorOK
    <3>. HIDE DEF built
    <3>. QED
      BY <2>7, <3>1 DEF VisitorOK
  <2>9. /\ DOMAIN v.built = 0 .. MaxNodes /\ 0 \in 0 .. MaxNodes
        /\ v'.built[0] = root /\ \A n \in 0 .. MaxNodes : n # 0 => v'.built[n] = v.built[n]
        /\ v'.built = [n \in 0 .. MaxNodes |-> v'.built[n]]
    <3>1. MaxNodes \in Nat
      BY <1>2, NodeBound DEF TreeOK
    <3>2. DOMAIN v.built = 0 .. MaxNodes /\ v.built = [n \in 0 .. MaxNodes |-> v.built[n]]
      BY <1>2 DEF VisitorOK
    <3>3. 0 \in 0 .. MaxNodes /\ v'.built = [v.built EXCEPT ![0] = root]
      BY <2>7, <2>8, <3>1
    <3>. QED
      BY <3>2, <3>3
  <2>10. VisitorOK(v') /\ VisitorOK(v)'
    <3>1. VisitorOK(v')
      BY <2>7, <2>8, <2>9 DEF VisitorOK
    <3>. QED
      BY <1>1, <3>1, VisitorOKNext
  <2>11. \A n \in DOMAIN tree : n # 0 => Closed(n)
    BY <2>2 DEF Closed
  <2>12. DOMAIN v'.lists = {}
    <3>1. \A i \in DOMAIN v.lists : i = id
      BY <1>2, <1>7, <2>2, <2>4 DEF Mirrors, id
    <3>. QED
      BY <2>7, <2>8, <3>1
  <2>13. ASSUME NEW n \in DOMAIN tree
         PROVE  /\ ~Unreadable(n)
                /\ v'.built[n] = IF tree[n].kind \in ExpressionLeaves \cup SchemaLeaves
                                 THEN <<>> ELSE tree[n].kids
    <3>1. CASE n = 0
      <4>1. tree[0].kind \notin ExpressionLeaves \cup SchemaLeaves
        BY <2>3 DEF ExpressionLeaves, SchemaLeaves
      <4>2. ~Unreadable(0)
        BY <2>3 DEF Unreadable
      <4>. QED
        BY <2>5, <2>9, <3>1, <4>1, <4>2
    <3>2. CASE n # 0
      <4>1. Built(n) /\ ~Unreadable(n)
        BY <1>2, <1>7, <2>11, <3>2 DEF Mirrors
      <4>2. n \in 0 .. MaxNodes
        <5>1. n \in 0 .. (NewNode - 1) /\ NewNode \in 1 .. (MaxNodes + 1) /\ MaxNodes \in Nat
          BY <1>2, NodeBound DEF TreeOK
        <5>. QED
          BY <5>1
      <4>. QED
        BY <2>9, <3>2, <4>1, <4>2 DEF Built
    <3>. QED
      BY <3>1, <3>2
  <2>14. ResultMirrorsTree'
    BY <1>1, <2>12, <2>13 DEF ResultMirrorsTree
  <2>15. ThrowsExactlyWhenUnreadable' /\ SchemaReportsFirstProblem'
    BY <1>1, <1>2, <1>5, <1>7, <2>1, <2>13 DEF ThrowsExactlyWhenUnreadable, SchemaReportsFirstProblem
  <2>16. v'.error.what # "aborted"
    BY <2>8 DEF NoError
  <2>. QED
    BY <1>4, <2>1, <2>10, <2>14, <2>15, <2>16 DEF IInv, AbortsOnlyInMapLiterals
<1>. QED
  BY <1>6, <1>7

LEMMA InitInvariant ==
  ASSUME Init
  PROVE  IInv
<1>. DEFINE s == [lists |-> <<>>, next_id |-> 1, error |-> NoError, refused |-> NothingRefused,
                  built |-> [n \in 0 .. MaxNodes |-> <<>>]]
            f == [node |-> 0, kind |-> "root", label |-> "own", sibling |-> 0,
                  ids |-> [children |-> 1]]
<1>1. /\ visitor \in {"expression", "schema"} /\ v = MakeFieldLists(s, 1) /\ stack = <<f>>
      /\ tree = [n \in {0} |-> [kind |-> "root", label |-> "own", kids |-> [children |-> <<>>]]]
      /\ first = NoError /\ result = "walking"
  BY Zenon DEF Init
<1>2. MaxNodes \in Nat
  BY <1>1, NodeBound
<1>3. VisitorOK(s)
  <2>1. DOMAIN <<>> = {} /\ <<>> = [i \in {} |-> <<>>[i]]
    OBVIOUS
  <2>2. /\ s.lists = <<>> /\ s.next_id = 1 /\ s.built = [n \in 0 .. MaxNodes |-> <<>>]
        /\ s = [lists |-> s.lists, next_id |-> s.next_id, error |-> s.error,
                refused |-> s.refused, built |-> s.built]
    OBVIOUS
  <2>. HIDE DEF s
  <2>3. DOMAIN s.lists = {} /\ s.lists = [i \in DOMAIN s.lists |-> s.lists[i]]
    BY <2>1, <2>2
  <2>4. s.built = [n \in 0 .. MaxNodes |-> s.built[n]]
    BY <2>2
  <2>. QED
    BY <2>2, <2>3, <2>4 DEF VisitorOK
<1>4. s.next_id = 1 /\ DOMAIN s.lists = {} /\ s.error = NoError /\ s.refused = NothingRefused
  OBVIOUS
<1>. HIDE DEF s
<1>5. /\ VisitorOK(v) /\ v.error = NoError /\ v.refused = NothingRefused
      /\ DOMAIN v.lists = {1} /\ v.lists[1] = <<>>
  <2>1. /\ VisitorOK(v) /\ v.error = s.error /\ v.refused = s.refused
        /\ DOMAIN v.lists = DOMAIN s.lists \cup (s.next_id .. (s.next_id + 1 - 1))
        /\ \A id \in s.next_id .. (s.next_id + 1 - 1) : v.lists[id] = <<>>
    BY <1>1, <1>3, MakeFields
  <2>2. s.next_id .. (s.next_id + 1 - 1) = {1}
    BY <1>4
  <2>. QED
    BY <1>4, <2>1, <2>2
<1>6. /\ DOMAIN tree = {0} /\ tree[0].kind = "root" /\ tree[0].kids = [children |-> <<>>]
      /\ tree[0] = [kind |-> tree[0].kind, label |-> tree[0].label, kids |-> tree[0].kids]
      /\ tree = [n \in {0} |-> tree[n]]
  BY <1>1
<1>7. RoleSet("root") = {"children"}
  BY RoleSets
<1>8. NewNode = 1 /\ 0 .. (NewNode - 1) = {0}
  <2>1. Cardinality({0}) = 1
    BY FS_Singleton
  <2>2. NewNode = 1
    BY <1>6, <2>1 DEF NewNode
  <2>. QED
    BY <2>2
<1>9. TreeOK
  <2>1. tree[0].kids \in [{"children"} -> Seq(1 .. (NewNode - 1))]
    BY <1>6
  <2>2. NewNode \in 1 .. (MaxNodes + 1)
    BY <1>2, <1>8
  <2>. QED
    BY <1>1, <1>6, <1>7, <1>8, <2>1, <2>2 DEF TreeOK, OpenKinds
<1>10. /\ f.node = 0 /\ f.kind = "root" /\ f.ids = [children |-> 1] /\ f.ids["children"] = 1
       /\ f.label = "own" /\ f.sibling = 0
  OBVIOUS
<1>11. f \in Frame
  <2>1. [children |-> 1] \in [RoleSet("root") -> Nat]
    BY <1>7
  <2>2. [children |-> 1] \in UNION {[RoleSet(k) -> Nat] : k \in Kind}
    BY <2>1 DEF Kind
  <2>. QED
    BY <2>2 DEF Frame, Kind, Label
<1>. HIDE DEF f
<1>12. stack \in Seq(Frame) /\ Len(stack) = 1 /\ DOMAIN stack = {1} /\ stack[1] = f
  BY <1>1, <1>11
<1>13. FrameOK(f)
  <2>1. f.ids \in [RoleSet(f.kind) -> Nat]
    BY <1>7, <1>10
  <2>. QED
    BY <1>5, <1>6, <1>7, <1>10, <2>1 DEF FrameOK, OpenKinds
<1>14. StackOK
  <2>1. \A i \in DOMAIN stack : i = 1 /\ stack[i] = f /\ i + 1 \notin DOMAIN stack
    BY <1>12
  <2>2. \A r \in RoleSet(f.kind) : r = "children"
    BY <1>7, <1>10
  <2>. QED
    BY <1>10, <1>12, <1>13, <2>1, <2>2 DEF StackOK
<1>15. Mirrors
  <2>1. \A i \in DOMAIN stack : i = 1 /\ stack[i] = f /\ i + 1 \notin DOMAIN stack
    BY <1>12
  <2>2. Filled(1, "children")
    BY <1>5, <1>6, <1>10, <1>12, <2>1 DEF Filled
  <2>3. \A i \in DOMAIN stack : \A r \in RoleSet(stack[i].kind) : Filled(i, r)
    BY <1>7, <1>10, <2>1, <2>2
  <2>4. \A n \in DOMAIN tree : ~Closed(n)
    BY <1>6, <1>10, <1>12 DEF Closed
  <2>5. \A id \in DOMAIN v.lists : \E i \in DOMAIN stack :
          \E r \in RoleSet(stack[i].kind) : stack[i].ids[r] = id
    BY <1>5, <1>7, <1>10, <1>12
  <2>6. first = NoError /\ v.refused.path = <<>>
    BY <1>1, <1>5 DEF NothingRefused
  <2>. QED
    BY <2>3, <2>4, <2>5, <2>6 DEF Mirrors
<1>16. Walk /\ v.error.what # "aborted"
  <2>1. EntriesListed
    BY <1>10, <1>12 DEF EntriesListed
  <2>. QED
    BY <1>1, <1>5, <1>14, <1>15, <2>1 DEF Walk, NoError
<1>17. \A i \in DOMAIN stack : stack[i].node \in DOMAIN tree
  BY <1>6, <1>10, <1>12
<1>18. /\ ResultMirrorsTree /\ ThrowsExactlyWhenUnreadable /\ SchemaReportsFirstProblem
       /\ AbortsOnlyInMapLiterals
  BY <1>1 DEF ResultMirrorsTree, ThrowsExactlyWhenUnreadable, SchemaReportsFirstProblem,
              AbortsOnlyInMapLiterals
<1>. QED
  BY <1>1, <1>5, <1>9, <1>16, <1>17, <1>18 DEF IInv

LEMMA NextInvariant ==
  ASSUME IInv, [Next]_vars
  PROVE  IInv'
<1>1. ASSUME NEW role \in RoleSet(Top.kind), NEW kind, VisitExpressionLeaf(role, kind) PROVE IInv'
  BY <1>1, ExpressionLeafStep
<1>2. ASSUME NEW role \in RoleSet(Top.kind), NEW kind, NEW label, NEW bad \in BOOLEAN,
             VisitSchemaLeaf(role, kind, label, bad)
      PROVE  IInv'
  BY <1>2, SchemaLeafStep
<1>3. ASSUME NEW role \in RoleSet(Top.kind), NEW kind, NEW label, NEW listed \in BOOLEAN,
             Enter(role, kind, label, listed)
      PROVE  IInv'
  BY <1>3, EnterStep
<1>4. ASSUME NEW rejects \in BOOLEAN, LeaveExpression(rejects) PROVE IInv'
  BY <1>4, LeaveExpressionStep
<1>5. ASSUME NEW bad \in BOOLEAN, LeaveField(bad) PROVE IInv'
  BY <1>5, LeaveFieldStep
<1>6. CASE Finish
  BY <1>6, FinishStep
<1>7. CASE UNCHANGED vars
  <2>1. /\ visitor' = visitor /\ v' = v /\ stack' = stack /\ tree' = tree /\ first' = first
        /\ result' = result
    BY <1>7 DEF vars
  <2>2. TreeOK' <=> TreeOK
    BY <2>1 DEF TreeOK, MaxNodes, OpenKinds, Leaves, NewNode
  <2>3. VisitorOK(v)' <=> VisitorOK(v)
    BY <2>1 DEF VisitorOK, MaxNodes
  <2>4. StackOK' <=> StackOK
    BY <2>1 DEF StackOK, FrameOK, OpenKinds
  <2>5. Mirrors' <=> Mirrors
    BY <2>1 DEF Mirrors, Filled, Built, Closed, Unreadable, IsLiteral
  <2>6. Justified' <=> Justified
    BY <2>1 DEF Justified, Closed, Unreadable, IsLiteral
  <2>7. Reports' <=> Reports
    BY <2>1 DEF Reports, ReachesUpTo
  <2>8. Walk' <=> Walk
    <3>1. EntriesListed' <=> EntriesListed
      BY <2>1 DEF EntriesListed, Listed, IsLiteral
    <3>. QED
      BY <2>1, <2>4, <2>5, <2>6, <2>7, <3>1 DEF Walk
  <2>9. ResultMirrorsTree' <=> ResultMirrorsTree
    BY <2>1 DEF ResultMirrorsTree
  <2>10. ThrowsExactlyWhenUnreadable' <=> ThrowsExactlyWhenUnreadable
    BY <2>1 DEF ThrowsExactlyWhenUnreadable, Unreadable, IsLiteral
  <2>11. SchemaReportsFirstProblem' <=> SchemaReportsFirstProblem
    BY <2>1 DEF SchemaReportsFirstProblem
  <2>12. AbortsOnlyInMapLiterals' <=> AbortsOnlyInMapLiterals
    BY <2>1 DEF AbortsOnlyInMapLiterals, Unreadable, IsLiteral
  <2>. QED
    BY <2>1, <2>2, <2>3, <2>8, <2>9, <2>10, <2>11, <2>12 DEF IInv
<1>8. CASE Next
  BY <1>1, <1>2, <1>3, <1>4, <1>5, <1>6, <1>8 DEF Next
<1>. QED
  BY <1>7, <1>8

-----------------------------------------------------------------------------
(* Theorems.                                                               *)

(* The invariant of a walk, over trees of any size: the lists in flight     *)
(* belong to the open nodes (StackOK); before an error what was built is     *)
(* the kernel's tree (Mirrors); after one there is a reason (Justified), and *)
(* the schema's error is the path that is to be reported as far up as the   *)
(* walk has come (Reports).                                                 *)
THEOREM Inductive == Spec => []IInv
<1>1. Init => IInv
  BY InitInvariant
<1>2. IInv /\ [Next]_vars => IInv'
  BY NextInvariant
<1>. QED
  BY <1>1, <1>2, PTL DEF Spec

(* Type correctness of the visitor and of the kernel's walk: list ids are    *)
(* handed out once, and the lists hold nodes of the tree.                   *)
THEOREM TypeCorrect == Spec => []TypeOK
<1>1. IInv => TypeOK
  <2>. SUFFICES ASSUME IInv PROVE TypeOK
    OBVIOUS
  <2>1. VisitorOK(v) /\ TreeOK
    BY DEF IInv
  <2>2. NewNode <= MaxNodes + 1 /\ DOMAIN tree = 0 .. (NewNode - 1)
    <3>1. MaxNodes \in Nat /\ NewNode \in 1 .. (MaxNodes + 1)
      BY <2>1, NodeBound DEF TreeOK
    <3>. QED
      BY <2>1, <3>1 DEF TreeOK
  <2>3. v.next_id \in Nat /\ DOMAIN v.built = 0 .. MaxNodes
    BY <2>1 DEF VisitorOK
  <2>. QED
    BY <2>1, <2>2, <2>3 DEF IInv, TypeOK, VisitorOK, TreeOK
<1>. QED
  BY <1>1, Inductive, PTL

(* A walk that returns has built the kernel's tree: every node with its own  *)
(* children, in order and in their roles, and no list left in flight         *)
(* (inflight_lists), for a tree of any shape and size.                      *)
THEOREM MirrorsTheTree == Spec => []ResultMirrorsTree
<1>1. IInv => ResultMirrorsTree
  BY DEF IInv
<1>. QED
  BY <1>1, Inductive, PTL

(* A walk that comes to its end throws exactly when some node at some depth   *)
(* cannot be read or is badly annotated: no error is lost on the way up and   *)
(* none is invented by a list that a refused node left short.               *)
THEOREM ThrowsForAReason == Spec => []ThrowsExactlyWhenUnreadable
<1>1. IInv => ThrowsExactlyWhenUnreadable
  BY DEF IInv
<1>. QED
  BY <1>1, Inductive, PTL

(* A walk ends the process in the callback of a map literal only, and then    *)
(* there is a reason in the tree: an entry that Value::MAP rejects, or one    *)
(* that is no literal or was refused (VisitLiteralMap).  The children of a    *)
(* list or a map of a schema are counted before they are read (HasChildren).  *)
THEOREM AbortsForAReason == Spec => []AbortsOnlyInMapLiterals
<1>1. IInv => AbortsOnlyInMapLiterals
  BY DEF IInv
<1>. QED
  BY <1>1, Inductive, PTL

(* The schema visitor reports the first problem of the walk, an unsupported  *)
(* type by its full path, at any depth of nesting (ExtendRefusedPath).      *)
THEOREM ReportsTheFirst == Spec => []SchemaReportsFirstProblem
<1>1. IInv => SchemaReportsFirstProblem
  BY DEF IInv
<1>. QED
  BY <1>1, Inductive, PTL

(* No callback misses a list: as long as the kernel walks, every list of an   *)
(* open node is in flight (TakeFieldLists, AppendToList), and no other node  *)
(* and no other role has the same one.                                      *)
ListsInFlight ==
  result = "walking" =>
    /\ \A i \in DOMAIN stack : \A r \in RoleSet(stack[i].kind) :
         stack[i].ids[r] \in DOMAIN v.lists
           \/ (stack[i].ids[r] = 0 /\ stack[i].kind = "field_patch")
    /\ \A i, j \in DOMAIN stack :
         \A r \in RoleSet(stack[i].kind), q \in RoleSet(stack[j].kind) :
           stack[i].ids[r] = stack[j].ids[q] /\ stack[i].ids[r] # 0 => i = j /\ r = q

(* Every callback finds its lists (ListsInFlight), also after an error has   *)
(* left children in flight or lists short.  That a list it finds is as long  *)
(* as the callback takes it to be is another matter (AbortsForAReason).      *)
THEOREM CallbacksFindTheirLists == Spec => []ListsInFlight
<1>1. IInv => ListsInFlight
  BY DEF IInv, Walk, ListsInFlight, StackOK, FrameOK
<1>. QED
  BY <1>1, Inductive, PTL

=============================================================================
