----------------------------- MODULE Ownership ------------------------------
(***************************************************************************)
(* Who keeps whom alive: the Tree, Node and TreeCursor objects of tree.c,  *)
(* node.c and tree_cursor.c (src/tree_sitter/binding) and the children     *)
(* lists that nodes cache, with their reference counts.                    *)
(*                                                                         *)
(* A Node embeds a TSNode and a TreeCursor a TSTreeCursor; both point into *)
(* the native tree of some Tree object, which tree_dealloc() deletes. They *)
(* are valid only because the object also holds a reference to that Tree.  *)
(* Python frees an object as soon as its count is zero, before it does     *)
(* anything else.                                                          *)
(*                                                                         *)
(* Two methods break that rule.  reset() and reset_to() may lead a cursor  *)
(* into another tree than the one it holds, and with it the nodes, copies  *)
(* and further cursors made from it; copy() never sets the copy's cache.   *)
(* Both can end in undefined behaviour, which the action Fault stands for. *)
(*                                                                         *)
(* An identifier names one allocation.  ts_tree_edit() is taken to keep the*)
(* nodes of the edited tree readable.                                      *)
(***************************************************************************)
EXTENDS Integers, FiniteSets

CONSTANTS
  TreeIds, NodeIds, CursorIds, ListIds,   \* the objects that can be allocated
  SourceIds,     \* the bytestrings and readers that are parsed
  Positions,     \* the nodes of one syntax tree
  RootPosition,
  Kids,          \* Kids[p]: the children of position p
  Under,         \* Under[p]: the positions of the subtree at p
  NULL, Garbage, \* C's NULL, and a field nobody initialised: NULL or anything
  MaxHeld        \* bound: references the program keeps to one object

Objects == TreeIds \cup NodeIds \cup CursorIds \cup ListIds \cup SourceIds

ASSUME OwnershipAssumption ==
  /\ MaxHeld \in Nat \ {0}
  /\ NULL \notin Objects /\ Garbage \notin Objects \cup {NULL}
  /\ RootPosition \in Positions /\ IsFiniteSet(Positions)
  /\ Kids \in [Positions -> SUBSET Positions]
  /\ Under \in [Positions -> SUBSET Positions]
  /\ TreeIds \cap (NodeIds \cup CursorIds \cup ListIds) = {}
  /\ NodeIds \cap (CursorIds \cup ListIds) = {} /\ CursorIds \cap ListIds = {}
  /\ SourceIds \cap (TreeIds \cup NodeIds \cup CursorIds \cup ListIds) = {}

VARIABLES
  live,    \* the allocated objects
  rc,      \* their ob_refcnt
  held,    \* how many of these references are the program's own
  source,  \* source[t]: what tree t was parsed from; NULL stands for None
  node,    \* node[n]: owner tree, TSNode, children list
  cursor,  \* cursor[c]: owner tree, where the TSTreeCursor is and where it
           \* started, cached Node
  items,   \* items[l]: the nodes in children list l
  astray,  \* history: the cursors that were reset into another tree than
           \* their own, and the nodes and cursors made from those
  faulted  \* has undefined behaviour happened?

vars == <<live, rc, held, source, node, cursor, items, astray, faulted>>

(* A TSNode, and the place of a TSTreeCursor: the Tree whose native tree it *)
(* points into, and the position there.                                     *)
NoPlace == [native |-> NULL, pos |-> NULL]

NoNode == [tree |-> NULL, at |-> NoPlace, kids |-> NULL]
NoCursor == [tree |-> NULL, at |-> NoPlace, top |-> NULL, node |-> NULL]

Init ==
  /\ live = {}
  /\ rc = [x \in Objects |-> 0] /\ held = [x \in Objects |-> 0]
  /\ source = [t \in TreeIds |-> NULL]
  /\ node = [n \in NodeIds |-> NoNode]
  /\ cursor = [c \in CursorIds |-> NoCursor]
  /\ items = [l \in ListIds |-> {}]
  /\ astray = {} /\ faulted = FALSE

-----------------------------------------------------------------------------
(* Reference counts.  Refs(f) adds f[x] to the count of each x in f's domain*)
(* and 0 to the others; New(x) allocates x.                                 *)
Refs(f) == rc' = [x \in Objects |-> rc[x] + IF x \in DOMAIN f THEN f[x] ELSE 0]

One(S) == [x \in S |-> 1]
Minus(S) == [x \in S |-> -1]

New(S) == S \cap live = {} /\ live' = live \cup S

(* The program gets a reference to x, as the result of a method.            *)
Give(x) == held[x] < MaxHeld /\ held' = [held EXCEPT ![x] = @ + 1]

(* No object is waiting for its deallocator.                                *)
Settled == \A x \in live : rc[x] > 0

(* The program can call a method of x.                                      *)
Reachable(x) == Settled /\ ~faulted /\ x \in live /\ held[x] > 0

(* The native tree of a place has not been deleted.                         *)
Usable(place) == place.native \in live

(* The native library can be called with the TSNode of n or the             *)
(* TSTreeCursor of c.                                                       *)
NodeReady(n) == Reachable(n) /\ Usable(node[n].at)
CursorReady(c) == Reachable(c) /\ Usable(cursor[c].at)

(* No TSNode and no TSTreeCursor points into the native tree of t.          *)
Unseen(t) ==
  /\ \A n \in NodeIds : node[n].at.native # t
  /\ \A c \in CursorIds : cursor[c].at.native # t

(* What is made from x is astray with it.                                   *)
Inherit(x, made) == astray' = IF x \in astray THEN astray \cup made ELSE astray

Objs(S) == S \cap Objects       \* Py_XDECREF skips NULL

Root(t) == [native |-> t, pos |-> RootPosition]

(* node_new_internal()                                                      *)
NodeNew_Borrows(n, t, place) ==
  /\ New({n}) /\ Refs(One({n}))
  /\ node' = [node EXCEPT ![n] = [tree |-> t, at |-> place, kids |-> NULL]]

NodeNew(n, t, place) ==
  /\ New({n}) /\ Refs(One({n, t}))
  /\ node' = [node EXCEPT ![n] = [tree |-> t, at |-> place, kids |-> NULL]]

-----------------------------------------------------------------------------
(* Tree                                                                     *)

(* The Tree that parse() returns keeps the source, which the program may    *)
(* have given away.                                                         *)
NewTree ==
  \E t \in TreeIds, s \in SourceIds :
    /\ Settled /\ ~faulted /\ Unseen(t)
    /\ New({t, s}) /\ Refs(One({t, s})) /\ Give(t)
    /\ source' = [source EXCEPT ![t] = s]
    /\ UNCHANGED <<node, cursor, items, astray, faulted>>

(* A Tree with a native tree of its own and the same source.                *)
CopyTree ==
  \E t, u \in TreeIds :
    /\ Reachable(t) /\ Unseen(u)
    /\ New({u}) /\ Refs(One(Objs({u, source[t]}))) /\ Give(u)
    /\ source' = [source EXCEPT ![u] = source[t]]
    /\ UNCHANGED <<node, cursor, items, astray, faulted>>

(* After tree_edit() the source is no longer the tree's text.               *)
EditTree ==
  \E t \in TreeIds :
    /\ Reachable(t)
    /\ Refs(Minus(Objs({source[t]})))
    /\ source' = [source EXCEPT ![t] = NULL]
    /\ UNCHANGED <<live, held, node, cursor, items, astray, faulted>>

RootNode ==
  \E t \in TreeIds, n \in NodeIds :
    /\ Reachable(t)
    /\ NodeNew(n, t, Root(t)) /\ Give(n)
    /\ UNCHANGED <<source, cursor, items, astray, faulted>>

(* tree_walk() and node_walk(): a cursor starting at a place, made from x.  *)
NewCursor(x, t, place) ==
  \E c \in CursorIds :
    /\ New({c}) /\ Refs(One({c, t})) /\ Give(c)
    /\ cursor' = [cursor EXCEPT ![c] = [tree |-> t, at |-> place, top |-> place.pos,
                                        node |-> NULL]]
    /\ Inherit(x, {c})
    /\ UNCHANGED <<source, node, items, faulted>>

TreeWalk == \E t \in TreeIds : Reachable(t) /\ NewCursor(t, t, Root(t))

-----------------------------------------------------------------------------
(* Node                                                                     *)

NodeWalk == \E n \in NodeIds : NodeReady(n) /\ NewCursor(n, node[n].tree, node[n].at)

(* Another node of the same tree; where there is none the method returns    *)
(* None and nothing changes.                                                *)
Relative(n, p) ==
  \E m \in NodeIds :
    /\ NodeNew(m, node[n].tree, [node[n].at EXCEPT !.pos = p]) /\ Give(m)
    /\ Inherit(n, {m})
    /\ UNCHANGED <<source, cursor, items, faulted>>

(* child_by_field_id() and the like.                                        *)
Child == \E n \in NodeIds : NodeReady(n) /\ \E p \in Kids[node[n].at.pos] : Relative(n, p)

(* descendant_for_byte_range() and the like, which may find the node itself.*)
Descendant ==
  \E n \in NodeIds : NodeReady(n) /\ \E p \in Under[node[n].at.pos] : Relative(n, p)

(* parent, next_sibling and the like.                                       *)
Parents(p) == {q \in Positions : p \in Kids[q]}

Family ==
  \E n \in NodeIds :
    /\ NodeReady(n)
    /\ LET above == Parents(node[n].at.pos)
       IN  \E p \in above \cup UNION {Kids[q] : q \in above} : p # node[n].at.pos /\ Relative(n, p)

(* children: the list is made once, with a new node per child, and kept.    *)
Children ==
  \E n \in NodeIds :
    /\ Reachable(n)
    /\ \/ /\ node[n].kids # NULL
          /\ Refs(One({node[n].kids})) /\ Give(node[n].kids)
          /\ UNCHANGED <<live, node, items, astray>>
       \/ /\ node[n].kids = NULL /\ Usable(node[n].at)
          /\ \E l \in ListIds, child \in [Kids[node[n].at.pos] -> NodeIds] :
               LET made == {child[p] : p \in DOMAIN child}
               IN  /\ \A p, q \in DOMAIN child : child[p] = child[q] => p = q
                   /\ New(made \cup {l}) /\ Give(l)
                   /\ Refs([x \in made \cup {l, node[n].tree} |->
                              IF x = l THEN 2
                              ELSE IF x \in made THEN 1 ELSE Cardinality(made)])
                   /\ node' = [m \in NodeIds |->
                        IF m = n THEN [node[n] EXCEPT !.kids = l]
                        ELSE IF m \in made
                          THEN LET p == CHOOSE q \in DOMAIN child : child[q] = m
                               IN  [tree |-> node[n].tree, kids |-> NULL,
                                    at |-> [node[n].at EXCEPT !.pos = p]]
                          ELSE node[m]]
                   /\ items' = [items EXCEPT ![l] = made]
                   /\ Inherit(n, made)
    /\ UNCHANGED <<source, cursor, faulted>>

(* The program takes an element out of a children list it holds.            *)
TakeItem ==
  \E l \in ListIds :
    /\ Reachable(l)
    /\ \E n \in items[l] : Refs(One({n})) /\ Give(n)
    /\ UNCHANGED <<live, source, node, cursor, items, astray, faulted>>

-----------------------------------------------------------------------------
(* TreeCursor                                                               *)

(* tree_cursor_get_node(): made on first use, kept until the cursor moves.  *)
(* A cache that was never set may be read as NULL; see Fault.               *)
GetNode ==
  \E c \in CursorIds :
    /\ Reachable(c)
    /\ \/ /\ cursor[c].node \in NodeIds
          /\ Refs(One({cursor[c].node})) /\ Give(cursor[c].node)
          /\ UNCHANGED <<live, node, cursor, astray>>
       \/ \E n \in NodeIds :
            /\ cursor[c].node \in {NULL, Garbage} /\ Usable(cursor[c].at)
            /\ New({n}) /\ Refs([x \in {n, cursor[c].tree} |-> IF x = n THEN 2 ELSE 1]) /\ Give(n)
            /\ node' = [node EXCEPT ![n] = [tree |-> cursor[c].tree, at |-> cursor[c].at,
                                            kids |-> NULL]]
            /\ cursor' = [cursor EXCEPT ![c].node = n]
            /\ Inherit(c, {n})
    /\ UNCHANGED <<source, items, faulted>>

(* The native cursor is now at place, and started at top; the cached node is*)
(* dropped.                                                                 *)
SetPosition_KeepsCache(c, place, top) ==
  /\ cursor' = [cursor EXCEPT ![c].at = place, ![c].top = top]
  /\ UNCHANGED <<live, rc, held, source, node, items, faulted>>

SetPosition_KeepsPointer(c, place, top) ==
  /\ Refs(Minus(Objs({cursor[c].node})))
  /\ cursor' = [cursor EXCEPT ![c].at = place, ![c].top = top]
  /\ UNCHANGED <<live, held, source, node, items, faulted>>

SetPosition(c, place, top) ==
  /\ Refs(Minus(Objs({cursor[c].node})))
  /\ cursor' = [cursor EXCEPT ![c].at = place, ![c].top = top, ![c].node = NULL]
  /\ UNCHANGED <<live, held, source, node, items, faulted>>

(* goto_first_child() and the other moves clear the cache when they move;   *)
(* goto_descendant() always does.                                           *)
Move ==
  \E c \in CursorIds :
    /\ CursorReady(c)
    /\ \E p \in Under[cursor[c].top] :
         SetPosition(c, [cursor[c].at EXCEPT !.pos = p], cursor[c].top)
    /\ UNCHANGED astray

(* reset() starts again at a node, reset_to() takes over another cursor's   *)
(* position; neither replaces the owner tree.                               *)
Strays(c, place) ==
  astray' = IF place.native = cursor[c].tree THEN astray \ {c} ELSE astray \cup {c}

Reset ==
  \E c \in CursorIds, n \in NodeIds :
    /\ Reachable(c) /\ NodeReady(n)
    /\ SetPosition(c, node[n].at, node[n].at.pos) /\ Strays(c, node[n].at)

ResetTo ==
  \E c, d \in CursorIds :
    /\ Reachable(c) /\ CursorReady(d)
    /\ SetPosition(c, cursor[d].at, cursor[d].top) /\ Strays(c, cursor[d].at)

(* tree_cursor_copy() leaves the cache field as PyObject_New returned it.   *)
CopyCursor ==
  \E c, d \in CursorIds :
    /\ CursorReady(c)
    /\ New({d}) /\ Refs(One({d, cursor[c].tree})) /\ Give(d)
    /\ cursor' = [cursor EXCEPT ![d] = [cursor[c] EXCEPT !.node = Garbage]]
    /\ Inherit(c, {d})
    /\ UNCHANGED <<source, node, items, faulted>>

-----------------------------------------------------------------------------
(* The end of objects                                                       *)

(* The program gives up one of its references.                              *)
Drop ==
  \E x \in Objects :
    /\ Reachable(x)
    /\ held' = [held EXCEPT ![x] = @ - 1] /\ Refs(Minus({x}))
    /\ UNCHANGED <<live, source, node, cursor, items, astray, faulted>>

(* node_dealloc(), tree_cursor_dealloc(), tree_dealloc() and list_dealloc():*)
(* what x refers to is released with it.                                    *)
Referents_CursorForgetsNode(x) ==
  CASE x \in TreeIds   -> Objs({source[x]})
    [] x \in NodeIds   -> Objs({node[x].kids, node[x].tree})
    [] x \in CursorIds -> {cursor[x].tree}
    [] x \in ListIds   -> items[x]
    [] OTHER           -> {}

Referents(x) ==
  CASE x \in TreeIds   -> Objs({source[x]})
    [] x \in NodeIds   -> Objs({node[x].kids, node[x].tree})
    [] x \in CursorIds -> Objs({cursor[x].node, cursor[x].tree})
    [] x \in ListIds   -> items[x]
    [] OTHER           -> {}

Dealloc ==
  \E x \in live :
    /\ ~faulted /\ rc[x] = 0
    /\ live' = live \ {x}
    /\ Refs(Minus(Referents(x)))
    /\ source' = IF x \in TreeIds THEN [source EXCEPT ![x] = NULL] ELSE source
    /\ node' = IF x \in NodeIds THEN [node EXCEPT ![x] = NoNode] ELSE node
    /\ cursor' = IF x \in CursorIds THEN [cursor EXCEPT ![x] = NoCursor] ELSE cursor
    /\ items' = IF x \in ListIds THEN [items EXCEPT ![x] = {}] ELSE items
    /\ astray' = astray \ {x}
    /\ UNCHANGED <<held, faulted>>

(* Undefined behaviour: a deleted native tree is used, or a cache that      *)
(* copy() never set is not NULL by chance and is taken for a node, by a     *)
(* method or by the deallocator.  Nothing else happens in the model then.   *)
Misuses(c) == ~Usable(cursor[c].at) \/ cursor[c].node = Garbage

Fault ==
  /\ \/ faulted
     \/ \E n \in NodeIds : Reachable(n) /\ ~Usable(node[n].at)
     \/ \E c \in CursorIds : Reachable(c) /\ Misuses(c)
     \/ \E c \in CursorIds \cap live : rc[c] = 0 /\ cursor[c].node = Garbage
  /\ faulted' = TRUE
  /\ UNCHANGED <<live, rc, held, source, node, cursor, items, astray>>

Next ==
  \/ NewTree \/ CopyTree \/ EditTree \/ RootNode \/ TreeWalk
  \/ NodeWalk \/ Child \/ Descendant \/ Family \/ Children \/ TakeItem
  \/ GetNode \/ Move \/ Reset \/ ResetTo \/ CopyCursor
  \/ Drop \/ Dealloc \/ Fault

Spec == Init /\ [][Next]_vars

-----------------------------------------------------------------------------
Places == [native : TreeIds \cup {NULL}, pos : Positions \cup {NULL}]

(* Every variable keeps its type; no reference is released twice, which     *)
(* would take a count below zero.                                           *)
TypeOK ==
  /\ live \subseteq Objects
  /\ rc \in [Objects -> Nat] /\ held \in [Objects -> 0..MaxHeld]
  /\ source \in [TreeIds -> SourceIds \cup {NULL}]
  /\ node \in [NodeIds -> [tree : TreeIds \cup {NULL}, at : Places, kids : ListIds \cup {NULL}]]
  /\ cursor \in [CursorIds -> [tree : TreeIds \cup {NULL}, at : Places,
                               top : Positions \cup {NULL}, node : NodeIds \cup {NULL, Garbage}]]
  /\ items \in [ListIds -> SUBSET NodeIds]
  /\ astray \subseteq live /\ faulted \in BOOLEAN

Holders(x) ==
  {y \in live : (y \in TreeIds /\ x = source[y])
             \/ (y \in NodeIds /\ x \in {node[y].tree, node[y].kids})
             \/ (y \in CursorIds /\ x \in {cursor[y].tree, cursor[y].node})
             \/ (y \in ListIds /\ x \in items[y])}

(* The reference count of every live object is the number of references     *)
(* that really exist: the program's, the owner-tree fields, the caches and  *)
(* the children lists.                                                      *)
RefcountExact ==
  \A x \in live : rc[x] = held[x] + Cardinality(Holders(x))

(* A live tree, node, cursor or list refers only to live objects, and the   *)
(* native tree that a TSNode or TSTreeCursor points into has not been       *)
(* deleted, in whatever order objects are edited, reset and dropped: unless *)
(* the object descends from a cursor that was reset into another tree.      *)
NoDangling ==
  /\ \A t \in TreeIds \cap live : source[t] \in live \cup {NULL}
  /\ \A n \in NodeIds \cap live : /\ node[n].tree \in live
                                  /\ node[n].kids \in live \cup {NULL}
                                  /\ n \notin astray => Usable(node[n].at)
  /\ \A c \in CursorIds \cap live : /\ cursor[c].tree \in live
                                    /\ cursor[c].node \in live \cup {NULL, Garbage}
                                    /\ c \notin astray => Usable(cursor[c].at)
  /\ \A l \in ListIds \cap live : items[l] \subseteq live

(* A node's TSNode lies in the tree that the node keeps alive and whose     *)
(* source and language it reports, however it was reached: "the same        *)
(* position as another cursor" must also mean the same tree.                *)
NodeInItsTree ==
  \A n \in NodeIds \cap live : node[n].at.native = node[n].tree

(* The node a cursor caches is a live node at the cursor's position, in the *)
(* cursor's tree: every move and reset drops an outdated one, whatever the  *)
(* tree, and no copy takes it over.  (A copy's cache that was never set is  *)
(* no node at all.)                                                         *)
CacheCurrent ==
  \A c \in CursorIds \cap live : cursor[c].node \notin {NULL, Garbage} =>
    /\ cursor[c].node \in live
    /\ node[cursor[c].node].at = cursor[c].at
    /\ node[cursor[c].node].tree = cursor[c].tree

(* A program that has dropped all its references leaves nothing behind: no  *)
(* cycle and no forgotten reference keeps an object alive.                  *)
NothingLeft ==
  (Settled /\ \A x \in Objects : held[x] = 0) => live = {}
=============================================================================
