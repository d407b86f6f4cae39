---------------------------- MODULE NodeChildren ----------------------------
(***************************************************************************)
(* The children of a Node (src/tree_sitter/binding/node.c): the cached list*)
(* that Node.children hands to the program, the methods that read it again,*)
(* and those that walk the tree with the module's one default_cursor.      *)
(***************************************************************************)
EXTENDS Integers, Sequences, FiniteSets, SequencesExt

CONSTANTS
  Nodes,         \* the nodes of a tree
  Trees,         \* what trees may look like: for each node its children in order
  NamedNodes,    \* the nodes that are named
  FieldOf,       \* the field of each node in its parent; 0 is none
  Fields,        \* the field ids the program asks for besides 0
  Other,         \* an object that is not a Node
  MaxList,       \* bound: how long the program makes a list
  MaxEdited,     \* bound: how many lists it changes, once each
  IndexModulus,  \* 2^32: a long index is converted to uint32_t
  LongMax        \* the largest index the program gives

ASSUME ChildrenAssumption ==
  /\ Trees \subseteq [Nodes -> Seq(Nodes)]
  /\ \A t \in Trees : \A n \in Nodes : IsInjective(t[n])
  /\ NamedNodes \subseteq Nodes /\ Other \notin Nodes
  /\ FieldOf \in [Nodes -> Nat] /\ Fields \subseteq Nat \ {0}
  /\ MaxList \in Nat /\ MaxEdited \in Nat /\ IndexModulus \in Nat \ {0} /\ LongMax \in Nat

VARIABLES
  tree,     \* the native tree
  cursor,   \* default_cursor: the nodes from where it was reset to where it is
  list,     \* Node.children of each node, None as long as it is NULL
  edited,   \* the nodes whose list the program has changed
  pc,       \* idle, or the loop that runs: fill, field, named
  self,     \* the node whose method runs
  method,   \* which of them: "children", "named_children", "children_by_field_id"
  field,    \* field_id
  items,    \* the result so far
  i,        \* the loop's index into the list
  answer    \* what the last method returned or raised

vars == <<tree, cursor, list, edited, pc, self, method, field, items, i, answer>>

None == <<"None">>
NULL == <<"NULL">>
NoAnswer == [method |-> "none", node |-> None, arg |-> 0, kind |-> "none", value |-> <<>>]

(* What a sequence holds of the set A, up to each of its places; and in all.*)
Selected(s, A) ==
  LET upTo[k \in 0..Len(s)] ==
        IF k = 0 THEN <<>>
        ELSE IF s[k] \in A THEN Append(upTo[k - 1], s[k])
        ELSE upTo[k - 1]
  IN  upTo
Only(s, A) == Selected(s, A)[Len(s)]

(* The native tree.                                                         *)
ChildCount(n) == Len(tree[n])
NamedChildren(n) == Only(tree[n], NamedNodes)
NamedChildCount(n) == Len(NamedChildren(n))

(* The native cursor: ts_tree_cursor_goto_first_child() and                 *)
(* ts_tree_cursor_goto_next_sibling(); the node it was reset to has no      *)
(* siblings for it.                                                         *)
CurrentNode == Last(cursor)
HasFirstChild(c) == tree[Last(c)] # <<>>
FirstChild(c) == Append(c, Head(tree[Last(c)]))

SiblingsOf(c) == tree[c[Len(c) - 1]]
Position(c) == CHOOSE n \in DOMAIN SiblingsOf(c) : SiblingsOf(c)[n] = Last(c)
HasNextSibling(c) == Len(c) > 1 /\ Position(c) < Len(SiblingsOf(c))
NextSibling(c) == Append(Front(c), SiblingsOf(c)[Position(c) + 1])

Init ==
  /\ tree \in Trees
  /\ cursor \in {<<n>> : n \in Nodes}
  /\ list = [n \in Nodes |-> None] /\ edited = {}
  /\ pc = "idle" /\ self = None /\ method = "none" /\ field = 0
  /\ items = <<>> /\ i = 0 /\ answer = NoAnswer

-----------------------------------------------------------------------------
(* A method returns; what it used is gone.                                  *)
AnswerWith(m, n, arg, kind, value) ==
  /\ answer' = [method |-> m, node |-> n, arg |-> arg, kind |-> kind, value |-> value]
  /\ pc' = "idle" /\ self' = None /\ method' = "none" /\ field' = 0 /\ items' = <<>> /\ i' = 0
  /\ UNCHANGED <<tree, edited>>

Begin(n, m, id, where) ==
  /\ pc' = where /\ self' = n /\ method' = m /\ field' = id /\ answer' = NoAnswer
  /\ UNCHANGED <<tree, edited, items, i>>

(* node_get_children() with a list: named_children goes on to filter it.    *)
CachedChildren(n, m) ==
  /\ pc = "idle" /\ list[n] # None
  /\ IF m = "children"
     THEN AnswerWith(m, n, 0, "list", list[n])
     ELSE Begin(n, m, 0, "named")
  /\ UNCHANGED <<cursor, list>>

(* ... without one, of a node that has no children,                         *)
NoChildren(n, m) ==
  /\ pc = "idle" /\ list[n] = None /\ ChildCount(n) = 0
  /\ list' = [list EXCEPT ![n] = <<>>]
  /\ AnswerWith(m, n, 0, "list", <<>>)
  /\ UNCHANGED cursor

(* ... and of one that has: the shared cursor is reset to the node.         *)
WalkChildren_NoReset(n, m) ==
  /\ pc = "idle" /\ list[n] = None /\ ChildCount(n) > 0
  /\ cursor' = IF HasFirstChild(cursor) THEN FirstChild(cursor) ELSE cursor
  /\ Begin(n, m, 0, "fill")
  /\ UNCHANGED list

WalkChildren(n, m) ==
  /\ pc = "idle" /\ list[n] = None /\ ChildCount(n) > 0
  /\ cursor' = FirstChild(<<n>>)
  /\ Begin(n, m, 0, "fill")
  /\ UNCHANGED list

FillNext ==
  /\ pc = "fill" /\ HasNextSibling(cursor)
  /\ items' = Append(items, CurrentNode) /\ cursor' = NextSibling(cursor)
  /\ UNCHANGED <<tree, list, edited, pc, self, method, field, i, answer>>

(* The last child is in: self->children is set.                             *)
FillLast ==
  /\ pc = "fill" /\ ~HasNextSibling(cursor)
  /\ list' = [list EXCEPT ![self] = Append(items, CurrentNode)]
  /\ IF method = "children"
     THEN AnswerWith(method, self, 0, "list", Append(items, CurrentNode))
     ELSE /\ pc' = "named" /\ items' = <<>>
          /\ UNCHANGED <<tree, edited, self, method, field, i, answer>>
  /\ UNCHANGED cursor

-----------------------------------------------------------------------------
(* node_get_named_children(): the list is read again, by index, up to the   *)
(* native child count.                                                      *)
InLoop_OnePastEnd == pc = "named" /\ i <= ChildCount(self)

InLoop == pc = "named" /\ i < ChildCount(self)

ListItem == IF i < Len(list[self]) THEN list[self][i + 1] ELSE NULL

(* PyList_SetItem() has no room for more than the named children counted.   *)
KeepNamed ==
  /\ InLoop
  /\ ListItem \in NamedNodes /\ Len(items) < NamedChildCount(self)
  /\ items' = Append(items, ListItem) /\ i' = i + 1
  /\ UNCHANGED <<tree, cursor, list, edited, pc, self, method, field, answer>>

SkipUnnamed ==
  /\ InLoop /\ ListItem \in Nodes \ NamedNodes
  /\ i' = i + 1
  /\ UNCHANGED <<tree, cursor, list, edited, pc, self, method, field, items, answer>>

TooManyNamed ==
  /\ InLoop
  /\ ListItem \in NamedNodes /\ Len(items) = NamedChildCount(self)
  /\ AnswerWith(method, self, 0, "IndexError", <<>>)
  /\ UNCHANGED <<cursor, list>>

(* No item, or an object that is no Node, is read as one.                   *)
ReadNoNode ==
  /\ InLoop /\ ListItem \notin Nodes
  /\ pc' = "faulted"
  /\ UNCHANGED <<tree, cursor, list, edited, self, method, field, items, i, answer>>

(* Slots nothing was put into are still NULL.                               *)
ReturnNamed ==
  /\ pc = "named" /\ i = ChildCount(self)
  /\ AnswerWith(method, self, 0, "list",
                items \o [n \in 1..NamedChildCount(self) - Len(items) |-> NULL])
  /\ UNCHANGED <<cursor, list>>

-----------------------------------------------------------------------------
(* node_children_by_field_id_internal(); a name the language does not have  *)
(* gives the field 0.                                                       *)
NoField(n) ==
  /\ pc = "idle"
  /\ AnswerWith("children_by_field_id", n, 0, "list", <<>>)
  /\ UNCHANGED <<cursor, list>>

ByField(n, id) ==
  /\ pc = "idle" /\ id # 0
  /\ LET reset == <<n>>
     IN  IF HasFirstChild(reset)
         THEN cursor' = FirstChild(reset) /\ Begin(n, "children_by_field_id", id, "field")
         ELSE cursor' = reset /\ AnswerWith("children_by_field_id", n, id, "list", <<>>)
  /\ UNCHANGED list

WithField == IF FieldOf[CurrentNode] = field THEN Append(items, CurrentNode) ELSE items

FieldNext ==
  /\ pc = "field" /\ HasNextSibling(cursor)
  /\ items' = WithField /\ cursor' = NextSibling(cursor)
  /\ UNCHANGED <<tree, list, edited, pc, self, method, field, i, answer>>

FieldLast_Dropped ==
  /\ pc = "field" /\ ~HasNextSibling(cursor)
  /\ AnswerWith(method, self, field, "list", items)
  /\ UNCHANGED <<cursor, list>>

FieldLast ==
  /\ pc = "field" /\ ~HasNextSibling(cursor)
  /\ AnswerWith(method, self, field, "list", WithField)
  /\ UNCHANGED <<cursor, list>>

-----------------------------------------------------------------------------
(* The methods that take an index: a negative one is a ValueError, one that *)
(* is not below the count, after its conversion, an IndexError.             *)
Index(l) == l % IndexModulus

Indexed(n, m, index, count, kind, value) ==
  /\ pc = "idle"
  /\ IF index < 0 THEN AnswerWith(m, n, index, "ValueError", <<>>)
     ELSE IF Index(index) >= count THEN AnswerWith(m, n, index, "IndexError", <<>>)
     ELSE AnswerWith(m, n, index, kind, value)
  /\ UNCHANGED <<cursor, list>>

NthOf(children, index) ==
  IF Index(index) < Len(children) THEN children[Index(index) + 1] ELSE NULL

FieldOfNth(children, index) ==
  IF Index(index) < Len(children) THEN FieldOf[children[Index(index) + 1]] ELSE 0

Child(n, index) ==
  Indexed(n, "child", index, ChildCount(n), "node", NthOf(tree[n], index))

NamedChild_ByChildCount(n, index) ==
  Indexed(n, "named_child", index, ChildCount(n), "node", NthOf(NamedChildren(n), index))

NamedChild(n, index) ==
  Indexed(n, "named_child", index, NamedChildCount(n), "node", NthOf(NamedChildren(n), index))

FieldNameForChild(n, index) ==
  Indexed(n, "field_name_for_child", index, ChildCount(n), "name",
          FieldOfNth(tree[n], index))

(* The bound is the count of all children; beyond the named ones the native *)
(* library finds no name.                                                   *)
FieldNameForNamedChild(n, index) ==
  Indexed(n, "field_name_for_named_child", index, ChildCount(n), "name",
          FieldOfNth(NamedChildren(n), index))

-----------------------------------------------------------------------------
(* The list is the program's as much as the node's.                         *)
EditList(n) ==
  /\ pc = "idle" /\ list[n] # None /\ n \notin edited /\ Cardinality(edited) < MaxEdited
  /\ \/ \E k \in DOMAIN list[n] : list' = [list EXCEPT ![n] = RemoveAt(@, k)]
     \/ \E k \in DOMAIN list[n], x \in Nodes \cup {Other} : list' = [list EXCEPT ![n][k] = x]
     \/ /\ Len(list[n]) < MaxList
        /\ \E x \in Nodes \cup {Other} : list' = [list EXCEPT ![n] = Append(@, x)]
  /\ edited' = edited \cup {n}
  /\ answer' = NoAnswer
  /\ UNCHANGED <<tree, cursor, pc, self, method, field, items, i>>

Children(n) ==
  \E m \in {"children", "named_children"} :
    CachedChildren(n, m) \/ NoChildren(n, m) \/ WalkChildren(n, m)

Call(n) ==
  \/ Children(n)
  \/ NoField(n) \/ \E id \in Fields : ByField(n, id)
  \/ \E index \in -1..LongMax :
       \/ Child(n, index) \/ NamedChild(n, index)
       \/ FieldNameForChild(n, index) \/ FieldNameForNamedChild(n, index)

Loop ==
  \/ FillNext \/ FillLast
  \/ KeepNamed \/ SkipUnnamed \/ TooManyNamed \/ ReadNoNode \/ ReturnNamed
  \/ FieldNext \/ FieldLast

Next == Loop \/ \E n \in Nodes : Call(n) \/ EditList(n)

Spec == Init /\ [][Next]_vars

-----------------------------------------------------------------------------
Answered(m, kind) == answer.method = m /\ answer.kind = kind

(* Every variable keeps its type, and the cursor stands on a node of the    *)
(* tree: each node of its path is a child of the one before it.             *)
TypeOK ==
  /\ tree \in Trees
  /\ cursor \in Seq(Nodes) \ {<<>>}
  /\ \A n \in 2..Len(cursor) : cursor[n] \in ToSet(tree[cursor[n - 1]])
  /\ \A n \in Nodes : list[n] = None \/ list[n] \in Seq(Nodes \cup {Other})
  /\ edited \subseteq Nodes
  /\ pc \in {"idle", "fill", "named", "field", "faulted"}
  /\ field \in Fields \cup {0} /\ items \in Seq(Nodes)
  /\ IF pc = "idle" THEN self = None /\ i = 0 ELSE self \in Nodes /\ i \in 0..ChildCount(self)
  /\ answer.kind \in {"none", "list", "node", "name", "ValueError", "IndexError"}

(* "This node's children", "This node's named children": unless the program *)
(* has changed the node's list itself, both are complete and in order,      *)
(* whatever was done with other nodes and with the cursor before.           *)
ChildrenComplete ==
  /\ Answered("children", "list") /\ answer.node \notin edited =>
       answer.value = tree[answer.node]
  /\ answer.method = "named_children" /\ answer.node \notin edited =>
       answer.kind = "list" /\ answer.value = NamedChildren(answer.node)

(* "Get a list of children with the given field id": all of them, in order, *)
(* also after the program has changed the lists.                            *)
FieldComplete ==
  Answered("children_by_field_id", "list") =>
    answer.value =
      IF answer.arg = 0 THEN <<>>
      ELSE Only(tree[answer.node], {n \in Nodes : FieldOf[n] = answer.arg})

IndexedMethods ==
  {"child", "named_child", "field_name_for_child", "field_name_for_named_child"}

(* child(i) and named_child(i) return the node that children and            *)
(* named_children have at i, field_name_for_child(i) and                    *)
(* field_name_for_named_child(i) name its field. Without such a node there  *)
(* is an IndexError; only the last one has no name for each i that is at    *)
(* least below the number of all children. An i that needs more bits than a *)
(* uint32_t has means the child that its low bits name, as if it were that. *)
IndexedChildren ==
  LET all == tree[answer.node]
      children == IF answer.method \in {"child", "field_name_for_child"}
                  THEN all ELSE NamedChildren(answer.node)
      bound == IF answer.method = "field_name_for_named_child" THEN Len(all) ELSE Len(children)
      place == IF answer.arg < IndexModulus THEN answer.arg ELSE answer.arg % IndexModulus
      nth == children[place + 1]
  IN  answer.method \in IndexedMethods =>
        /\ answer.arg < 0 => answer.kind = "ValueError"
        /\ answer.arg >= 0 /\ place < Len(children) =>
             IF answer.method \in {"child", "named_child"}
             THEN answer.kind = "node" /\ answer.value = nth
             ELSE answer.kind = "name" /\ answer.value = FieldOf[nth]
        /\ answer.arg >= 0 /\ place >= Len(children) =>
             IF place < bound
             THEN answer.kind = "name" /\ answer.value = 0
             ELSE answer.kind = "IndexError"

(* The module reads something that is no Node only from a list that the     *)
(* program has changed.                                                     *)
FaultNeedsEdit == pc = "faulted" => self \in edited
=============================================================================
