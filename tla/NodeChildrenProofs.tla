------------------------- MODULE NodeChildrenProofs -------------------------
(***************************************************************************)
(* Proofs about NodeChildren, for every set of trees and every list the    *)
(* program makes of a node's children.                                     *)
(***************************************************************************)
EXTENDS NodeChildren, WellFoundedInduction, TLAPS

-----------------------------------------------------------------------------
(* The inductive invariant.                                                 *)

HavingField(id) == {n \in Nodes : FieldOf[n] = id}

(* The shared cursor was reset to a node and has gone down at most once.    *)
CursorInv ==
  \E n \in Nodes :
    \/ cursor = <<n>>
    \/ \E k \in 1..ChildCount(n) : cursor = <<n, tree[n][k]>>

(* A list the program has left alone is the children of its node.           *)
ListsWhole == \A n \in Nodes \ edited : list[n] = None \/ list[n] = tree[n]

(* The loops over the cursor hold what the children before it give.         *)
FillInv ==
  pc = "fill" =>
    /\ method \in {"children", "named_children"}
    /\ \E k \in 1..ChildCount(self) :
         cursor = <<self, tree[self][k]>> /\ items = SubSeq(tree[self], 1, k - 1)

FieldInv ==
  pc = "field" =>
    /\ method = "children_by_field_id" /\ field # 0
    /\ \E k \in 1..ChildCount(self) :
         /\ cursor = <<self, tree[self][k]>>
         /\ items = Selected(tree[self], HavingField(field))[k - 1]

(* The loop over the list holds the named ones of those it has passed.      *)
NamedInv ==
  pc = "named" =>
    /\ method = "named_children"
    /\ self \notin edited =>
         list[self] = tree[self] /\ items = Selected(tree[self], NamedNodes)[i]

AtRest == (pc = "idle" => items = <<>>) /\ (pc \in {"fill", "field"} => i = 0)

Kinds == {"none", "list", "node", "name", "ValueError", "IndexError"}

TypesInv ==
  /\ tree \in Trees /\ list \in [Nodes -> {None} \cup Seq(Nodes \cup {Other})]
  /\ edited \subseteq Nodes
  /\ pc \in {"idle", "fill", "named", "field", "faulted"}
  /\ field \in Fields \cup {0} /\ items \in Seq(Nodes) /\ answer.kind \in Kinds
  /\ IF pc = "idle" THEN self = None /\ i = 0 ELSE self \in Nodes /\ i \in 0..ChildCount(self)

WalkInv ==
  /\ TypesInv /\ CursorInv /\ ListsWhole
  /\ FillInv /\ FieldInv /\ NamedInv /\ AtRest /\ FaultNeedsEdit

-----------------------------------------------------------------------------
(* What a sequence holds of a set.                                          *)

LEMMA LeastNumber ==
  ASSUME NEW T, T \subseteq Nat, T # {}
  PROVE  \E x \in T : \A y \in T : x <= y
<1>1. PICK x \in T : \A y \in T : ~(<<y, x>> \in OpToRel(<, Nat))
  BY NatLessThanWellFounded, WFMin
<1>2. ASSUME NEW y \in T, y < x  PROVE  FALSE
  <2>1. <<y, x>> \in Nat \X Nat /\ <<y, x>>[1] < <<y, x>>[2]
    BY <1>2
  <2>. QED  BY <1>1, <2>1 DEF OpToRel
<1>. QED  BY <1>2

(* The recursion has a solution on every prefix: else on a shortest one it  *)
(* has none, and the solution on the one before can be extended.            *)
LEMMA SelectedRecursion ==
  ASSUME NEW S, NEW s \in Seq(S), NEW A
  PROVE  Selected(s, A) =
           [k \in 0..Len(s) |->
              IF k = 0 THEN <<>>
              ELSE IF s[k] \in A THEN Append(Selected(s, A)[k - 1], s[k])
              ELSE Selected(s, A)[k - 1]]
<1>. DEFINE Step(f, k) == IF k = 0 THEN <<>>
                          ELSE IF s[k] \in A THEN Append(f[k - 1], s[k])
                          ELSE f[k - 1]
            Solves(f, n) == f = [k \in 0..n |-> Step(f, k)]
            Bad == {n \in Nat : ~\E f : Solves(f, n)}
<1>1. 0 \notin Bad
  <2>. DEFINE f == [k \in 0..0 |-> <<>>]
  <2>1. \A k \in 0..0 : Step(f, k) = <<>>
    OBVIOUS
  <2>2. Solves(f, 0)
    BY <2>1
  <2>. QED  BY <2>2
<1>2. ASSUME NEW n \in Nat, n + 1 \in Bad  PROVE  n \in Bad
  <2>1. SUFFICES ASSUME NEW f, Solves(f, n)  PROVE  FALSE
    OBVIOUS
  <2>. DEFINE g == [k \in 0..(n + 1) |-> IF k = n + 1 THEN Step(f, n + 1) ELSE f[k]]
  <2>2. \A k \in 0..n : g[k] = f[k]
    OBVIOUS
  <2>3. \A k \in 0..(n + 1) : k # 0 => g[k - 1] = f[k - 1]
    <3>1. \A k \in 0..(n + 1) : k # 0 => k - 1 \in 0..n
      OBVIOUS
    <3>. HIDE DEF g
    <3>. QED  BY <3>1, <2>2
  <2>4. \A k \in 0..(n + 1) : Step(g, k) = Step(f, k)
    <3>. HIDE DEF g
    <3>. QED  BY <2>3
  <2>5. \A k \in 0..n : f[k] = Step(f, k)
    <3>. HIDE DEF Step
    <3>. QED  BY <2>1
  <2>6. \A k \in 0..(n + 1) : g[k] = Step(f, k)
    <3>. HIDE DEF Step
    <3>1. \A k \in 0..(n + 1) : k = n + 1 \/ k \in 0..n
      OBVIOUS
    <3>. QED  BY <2>2, <2>5, <3>1
  <2>7. Solves(g, n + 1)
    <3>1. g = [k \in 0..(n + 1) |-> g[k]]
      OBVIOUS
    <3>. HIDE DEF Step, g
    <3>. QED  BY <3>1, <2>4, <2>6
  <2>. HIDE DEF Solves, g
  <2>. QED  BY <2>7, <1>2
<1>3. Bad = {}
  <2>1. SUFFICES ASSUME Bad # {}  PROVE  FALSE
    OBVIOUS
  <2>2. Bad \subseteq Nat
    OBVIOUS
  <2>. HIDE DEF Bad
  <2>3. PICK x \in Bad : \A y \in Bad : x <= y
    BY <2>1, <2>2, LeastNumber
  <2>4. x \in Nat /\ x # 0 /\ x - 1 \in Nat /\ (x - 1) + 1 = x
    BY <2>2, <2>3, <1>1
  <2>5. x - 1 \in Bad
    BY <2>3, <2>4, <1>2
  <2>. QED  BY <2>3, <2>4, <2>5
<1>4. \E f : Solves(f, Len(s))
  <2>1. \A n \in Nat : n \notin Bad => \E f : Solves(f, n)
    OBVIOUS
  <2>2. Len(s) \in Nat
    OBVIOUS
  <2>. HIDE DEF Solves, Bad
  <2>. QED  BY <1>3, <2>1, <2>2
<1>5. Selected(s, A) = CHOOSE f : Solves(f, Len(s))
  BY DEF Selected
<1>6. Solves(Selected(s, A), Len(s))
  <2>. HIDE DEF Solves
  <2>. QED  BY <1>4, <1>5
<1>. QED  BY <1>6

LEMMA SelectedStep ==
  ASSUME NEW S, NEW s \in Seq(S), NEW A
  PROVE  /\ Selected(s, A)[0] = <<>>
         /\ \A k \in 1..Len(s) :
              Selected(s, A)[k] = IF s[k] \in A THEN Append(Selected(s, A)[k - 1], s[k])
                                  ELSE Selected(s, A)[k - 1]
<1>. DEFINE f == Selected(s, A)
<1>1. f = [k \in 0..Len(s) |-> IF k = 0 THEN <<>>
                              ELSE IF s[k] \in A THEN Append(f[k - 1], s[k])
                              ELSE f[k - 1]]
  BY SelectedRecursion
<1>. HIDE DEF f
<1>2. 0 \in 0..Len(s) /\ \A k \in 1..Len(s) : k \in 0..Len(s) /\ k # 0
  OBVIOUS
<1>3. f[0] = <<>>
  BY <1>1, <1>2, Zenon
<1>4. \A k \in 1..Len(s) : f[k] = IF s[k] \in A THEN Append(f[k - 1], s[k]) ELSE f[k - 1]
  BY <1>1, <1>2, Zenon
<1>. QED  BY <1>3, <1>4 DEF f

(* It is a sequence of members of the set, no longer than what it is of.    *)
LEMMA SelectedType ==
  ASSUME NEW S, NEW s \in Seq(S), NEW A, NEW k \in 0..Len(s)
  PROVE  Selected(s, A)[k] \in Seq(S \cap A) /\ Len(Selected(s, A)[k]) <= k
<1>. DEFINE f == Selected(s, A)
            Fine(n) == f[n] \in Seq(S \cap A) /\ Len(f[n]) <= n
            Bad == {n \in 0..Len(s) : ~Fine(n)}
<1>1. 0 \notin Bad
  <2>1. f[0] = <<>>
    BY SelectedStep
  <2>2. <<>> \in Seq(S \cap A) /\ Len(<<>>) <= 0
    OBVIOUS
  <2>3. Fine(0)
    BY <2>1, <2>2, Zenon
  <2>. HIDE DEF Fine
  <2>. QED  BY <2>3
<1>2. ASSUME NEW n \in 1..Len(s), Fine(n - 1)  PROVE  Fine(n)
  <2>1. f[n] = IF s[n] \in A THEN Append(f[n - 1], s[n]) ELSE f[n - 1]
    BY SelectedStep
  <2>2. s[n] \in S
    OBVIOUS
  <2>. HIDE DEF f
  <2>. QED  BY <1>2, <2>1, <2>2
<1>3. Bad = {}
  <2>1. SUFFICES ASSUME Bad # {}  PROVE  FALSE
    OBVIOUS
  <2>. DEFINE inside == 0..Len(s)
  <2>2. Bad \subseteq Nat
    OBVIOUS
  <2>3. \A x : x \in Bad <=> x \in 0..Len(s) /\ ~Fine(x)
    OBVIOUS
  <2>. HIDE DEF Bad, Fine
  <2>4. PICK x \in Bad : \A y \in Bad : x <= y
    BY <2>1, <2>2, LeastNumber
  <2>5. x \in 1..Len(s) /\ x - 1 \in 0..Len(s)
    BY <2>3, <2>4, <1>1
  <2>6. x - 1 \notin Bad
    BY <2>4, <2>5
  <2>. QED  BY <1>2, <2>3, <2>4, <2>5, <2>6
<1>4. Fine(k)
  <2>. HIDE DEF Fine
  <2>. QED  BY <1>3
<1>. QED  BY <1>4

(* It only grows.                                                           *)
LEMMA SelectedGrows ==
  ASSUME NEW S, NEW s \in Seq(S), NEW A, NEW j \in 0..Len(s)
  PROVE  Len(Selected(s, A)[j]) <= Len(Only(s, A))
<1>. DEFINE f == Selected(s, A)
            Bad == {d \in 0..Len(s) : d >= j /\ ~(Len(f[j]) <= Len(f[d]))}
<1>1. \A d \in 0..Len(s) : Len(f[d]) \in Nat
  BY SelectedType
<1>2. \A d \in 1..Len(s) : Len(f[d - 1]) <= Len(f[d])
  <2>1. SUFFICES ASSUME NEW d \in 1..Len(s)  PROVE  Len(f[d - 1]) <= Len(f[d])
    OBVIOUS
  <2>2. f[d] = IF s[d] \in A THEN Append(f[d - 1], s[d]) ELSE f[d - 1]
    BY SelectedStep
  <2>3. f[d - 1] \in Seq(S \cap A)
    <3>1. d - 1 \in 0..Len(s)
      OBVIOUS
    <3>. QED  BY <3>1, SelectedType
  <2>. HIDE DEF f
  <2>. QED  BY <2>2, <2>3
<1>3. \A x : x \in Bad <=> x \in 0..Len(s) /\ x >= j /\ ~(Len(f[j]) <= Len(f[x]))
  OBVIOUS
<1>4. Bad \subseteq Nat
  OBVIOUS
<1>. HIDE DEF Bad, f
<1>5. Bad = {}
  <2>1. SUFFICES ASSUME Bad # {}  PROVE  FALSE
    OBVIOUS
  <2>2. PICK x \in Bad : \A y \in Bad : x <= y
    BY <2>1, <1>4, LeastNumber
  <2>3. x # j
    BY <2>2, <1>1, <1>3
  <2>4. x \in 1..Len(s) /\ x - 1 \in 0..Len(s) /\ x - 1 >= j
    BY <2>2, <2>3, <1>3
  <2>5. x - 1 \notin Bad
    BY <2>2, <2>4
  <2>6. Len(f[j]) <= Len(f[x - 1])
    BY <2>4, <2>5, <1>3
  <2>. QED  BY <2>2, <2>4, <2>6, <1>1, <1>2, <1>3
<1>6. Len(s) \in 0..Len(s) /\ Len(s) >= j
  OBVIOUS
<1>7. Len(f[j]) <= Len(f[Len(s)])
  BY <1>3, <1>5, <1>6
<1>. QED  BY <1>7 DEF f, Only

-----------------------------------------------------------------------------
(* The tree, the cursor and the lists.                                      *)

LEMMA TreeType ==
  ASSUME tree \in Trees, NEW n \in Nodes
  PROVE  tree[n] \in Seq(Nodes) /\ IsInjective(tree[n]) /\ ChildCount(n) \in Nat
<1>1. tree \in [Nodes -> Seq(Nodes)] /\ IsInjective(tree[n])
  BY ChildrenAssumption
<1>2. tree[n] \in Seq(Nodes)
  BY <1>1
<1>. QED  BY <1>1, <1>2 DEF ChildCount

(* The cursor below a node stands at one place and goes on to the next.     *)
LEMMA CursorAt ==
  ASSUME tree \in Trees, NEW n \in Nodes, NEW k \in 1..ChildCount(n),
         cursor = <<n, tree[n][k]>>
  PROVE  /\ CurrentNode = tree[n][k] /\ CurrentNode \in Nodes
         /\ HasNextSibling(cursor) <=> k < ChildCount(n)
         /\ HasNextSibling(cursor) => NextSibling(cursor) = <<n, tree[n][k + 1]>>
<1>1. Len(cursor) = 2 /\ cursor[1] = n /\ cursor[2] = tree[n][k]
  OBVIOUS
<1>2. tree[n] \in Seq(Nodes) /\ IsInjective(tree[n])
  BY TreeType
<1>3. CurrentNode = tree[n][k] /\ CurrentNode \in Nodes
  BY <1>1, <1>2 DEF CurrentNode, Last, ChildCount
<1>4. SiblingsOf(cursor) = tree[n]
  BY <1>1 DEF SiblingsOf
<1>5. Position(cursor) = k
  <2>1. k \in DOMAIN tree[n]
    BY <1>2 DEF ChildCount
  <2>2. \A m \in DOMAIN tree[n] : tree[n][m] = tree[n][k] => m = k
    BY <1>2, <2>1 DEF IsInjective
  <2>3. Position(cursor) = CHOOSE m \in DOMAIN tree[n] : tree[n][m] = tree[n][k]
    BY <1>3, <1>4 DEF Position, CurrentNode
  <2>. QED  BY <2>1, <2>2, <2>3
<1>6. HasNextSibling(cursor) <=> k < ChildCount(n)
  BY <1>1, <1>4, <1>5 DEF HasNextSibling, ChildCount
<1>7. Front(cursor) = <<n>>
  <2>1. Front(cursor) = SubSeq(<<n, tree[n][k]>>, 1, 1)
    BY <1>1 DEF Front
  <2>. QED  BY <2>1
<1>8. NextSibling(cursor) = <<n, tree[n][k + 1]>>
  <2>1. NextSibling(cursor) = Append(<<n>>, tree[n][k + 1])
    BY <1>4, <1>5, <1>7 DEF NextSibling
  <2>. QED  BY <2>1
<1>. QED  BY <1>3, <1>6, <1>8

CursorTyped ==
  /\ cursor \in Seq(Nodes) \ {<<>>}
  /\ \A n \in 2..Len(cursor) : cursor[n] \in ToSet(tree[cursor[n - 1]])

LEMMA CursorType == tree \in Trees /\ CursorInv => CursorTyped
<1>. SUFFICES ASSUME tree \in Trees, CursorInv  PROVE  CursorTyped
  OBVIOUS
<1>1. PICK n \in Nodes : \/ cursor = <<n>>
                         \/ \E k \in 1..ChildCount(n) : cursor = <<n, tree[n][k]>>
  BY DEF CursorInv
<1>2. CASE cursor = <<n>>
  BY <1>2 DEF CursorTyped
<1>3. ASSUME NEW k \in 1..ChildCount(n), cursor = <<n, tree[n][k]>>
      PROVE  CursorTyped
  <2>1. tree[n] \in Seq(Nodes) /\ k \in DOMAIN tree[n] /\ tree[n][k] \in Nodes
    BY TreeType DEF ChildCount
  <2>2. cursor \in Seq(Nodes) \ {<<>>}
    BY <2>1, <1>3
  <2>3. tree[n][k] \in ToSet(tree[n])
    BY <2>1 DEF ToSet
  <2>4. ASSUME NEW m \in 2..Len(cursor)  PROVE  m = 2 /\ cursor[m] = tree[n][k] /\ cursor[m - 1] = n
    BY <1>3
  <2>. QED  BY <2>2, <2>3, <2>4 DEF CursorTyped
<1>. QED  BY <1>1, <1>2, <1>3

(* The first child is where a walk begins.                                  *)
LEMMA FirstChildAt ==
  ASSUME tree \in Trees, NEW n \in Nodes, ChildCount(n) > 0
  PROVE  /\ 1 \in 1..ChildCount(n)
         /\ FirstChild(<<n>>) = <<n, tree[n][1]>>
         /\ SubSeq(tree[n], 1, 1 - 1) = <<>>
<1>1. tree[n] \in Seq(Nodes) /\ Len(tree[n]) > 0
  BY TreeType DEF ChildCount
<1>2. Last(<<n>>) = n
  BY DEF Last
<1>3. FirstChild(<<n>>) = Append(<<n>>, tree[n][1])
  BY <1>1, <1>2 DEF FirstChild
<1>. QED  BY <1>1, <1>3 DEF ChildCount

LEMMA HasFirstChildOf ==
  ASSUME tree \in Trees, NEW n \in Nodes
  PROVE  HasFirstChild(<<n>>) <=> ChildCount(n) > 0
<1>1. tree[n] \in Seq(Nodes)
  BY TreeType
<1>2. Last(<<n>>) = n
  BY DEF Last
<1>. QED  BY <1>1, <1>2 DEF HasFirstChild, ChildCount

(* What a prefix gives with the next child, and what all of them give.      *)
LEMMA PrefixStep ==
  ASSUME NEW S, NEW s \in Seq(S), NEW k \in 1..Len(s)
  PROVE  /\ Append(SubSeq(s, 1, k - 1), s[k]) = SubSeq(s, 1, k)
         /\ SubSeq(s, 1, k) \in Seq(S)
         /\ k = Len(s) => SubSeq(s, 1, k) = s
OBVIOUS

-----------------------------------------------------------------------------
(* The invariant is inductive.                                              *)

LEMMA WalkTypes == WalkInv => TypeOK
<1>. SUFFICES ASSUME WalkInv  PROVE  TypeOK
  OBVIOUS
<1>1. CursorTyped
  BY CursorType DEF WalkInv, TypesInv
<1>2. \A n \in Nodes : list[n] = None \/ list[n] \in Seq(Nodes \cup {Other})
  BY DEF WalkInv, TypesInv
<1>. QED  BY <1>1, <1>2 DEF WalkInv, TypesInv, TypeOK, CursorTyped, Kinds

LEMMA WalkInit == Init => WalkInv
<1>. SUFFICES ASSUME Init  PROVE  WalkInv
  OBVIOUS
<1>1. TypesInv
  BY DEF Init, TypesInv, NoAnswer, Kinds
<1>2. CursorInv
  BY DEF Init, CursorInv
<1>3. ListsWhole
  BY DEF Init, ListsWhole
<1>. QED  BY <1>1, <1>2, <1>3 DEF Init, WalkInv, FillInv, FieldInv, NamedInv, AtRest, FaultNeedsEdit

(* A method that returns leaves what it used as it was before any began.    *)
LEMMA AnswerStep ==
  ASSUME TypesInv, NEW m, NEW n, NEW arg, NEW kind \in Kinds, NEW value,
         AnswerWith(m, n, arg, kind, value),
         CursorInv', list' \in [Nodes -> {None} \cup Seq(Nodes \cup {Other})], ListsWhole'
  PROVE  WalkInv'
<1>1. /\ pc' = "idle" /\ self' = None /\ i' = 0 /\ items' = <<>> /\ field' = 0
      /\ tree' = tree /\ edited' = edited
      /\ answer' = [method |-> m, node |-> n, arg |-> arg, kind |-> kind, value |-> value]
  BY DEF AnswerWith
<1>2. answer'.kind \in Kinds
  BY <1>1
<1>3. TypesInv'
  BY <1>1, <1>2 DEF TypesInv
<1>4. FillInv' /\ FieldInv' /\ NamedInv' /\ AtRest' /\ FaultNeedsEdit'
  BY <1>1 DEF FillInv, FieldInv, NamedInv, AtRest, FaultNeedsEdit
<1>. QED  BY <1>3, <1>4 DEF WalkInv

(* The lists and the cursor stay.                                           *)
LEMMA ReturnStep ==
  ASSUME WalkInv, NEW m, NEW n, NEW arg, NEW kind \in Kinds, NEW value,
         AnswerWith(m, n, arg, kind, value), UNCHANGED <<cursor, list>>
  PROVE  WalkInv'
<1>1. tree' = tree /\ edited' = edited
  BY DEF AnswerWith
<1>2. CursorInv' /\ ListsWhole' /\ list' \in [Nodes -> {None} \cup Seq(Nodes \cup {Other})]
  BY <1>1 DEF WalkInv, TypesInv, CursorInv, ListsWhole, ChildCount
<1>. QED  BY <1>2, AnswerStep DEF WalkInv

LEMMA CachedChildrenStep ==
  ASSUME WalkInv, NEW n \in Nodes, NEW m \in {"children", "named_children"},
         CachedChildren(n, m)
  PROVE  WalkInv'
<1>1. CASE m = "children"
  <2>1. AnswerWith(m, n, 0, "list", list[n]) /\ UNCHANGED <<cursor, list>>
    BY <1>1 DEF CachedChildren
  <2>. QED  BY <2>1, ReturnStep DEF Kinds
<1>2. CASE m = "named_children"
  <2>1. /\ pc = "idle" /\ list[n] # None /\ UNCHANGED <<cursor, list, tree, edited, items, i>>
        /\ pc' = "named" /\ self' = n /\ method' = m /\ field' = 0 /\ answer' = NoAnswer
    BY <1>2 DEF CachedChildren, Begin
  <2>2. i = 0 /\ items = <<>> /\ ChildCount(n) \in Nat /\ tree[n] \in Seq(Nodes)
    BY <2>1, TreeType DEF WalkInv, TypesInv, AtRest
  <2>3. TypesInv'
    BY <2>1, <2>2 DEF WalkInv, TypesInv, NoAnswer, Kinds, ChildCount
  <2>4. NamedInv'
    BY <2>1, <2>2, <1>2, SelectedStep DEF WalkInv, ListsWhole, NamedInv
  <2>5. CursorInv' /\ ListsWhole'
    BY <2>1 DEF WalkInv, CursorInv, ListsWhole, ChildCount
  <2>. QED  BY <2>1, <2>3, <2>4, <2>5 DEF WalkInv, FillInv, FieldInv, AtRest, FaultNeedsEdit
<1>. QED  BY <1>1, <1>2

LEMMA NoChildrenStep ==
  ASSUME WalkInv, NEW n \in Nodes, NEW m, NoChildren(n, m)
  PROVE  WalkInv'
<1>1. /\ ChildCount(n) = 0 /\ list' = [list EXCEPT ![n] = <<>>] /\ cursor' = cursor
      /\ AnswerWith(m, n, 0, "list", <<>>) /\ tree' = tree /\ edited' = edited
  BY DEF NoChildren, AnswerWith
<1>2. tree[n] = <<>>
  BY <1>1, TreeType DEF WalkInv, TypesInv, ChildCount
<1>3. list' \in [Nodes -> {None} \cup Seq(Nodes \cup {Other})]
  BY <1>1 DEF WalkInv, TypesInv
<1>4. ListsWhole'
  BY <1>1, <1>2 DEF WalkInv, TypesInv, ListsWhole
<1>5. CursorInv'
  BY <1>1 DEF WalkInv, CursorInv, ChildCount
<1>. QED  BY <1>1, <1>3, <1>4, <1>5, AnswerStep DEF WalkInv, Kinds

LEMMA WalkChildrenStep ==
  ASSUME WalkInv, NEW n \in Nodes, NEW m \in {"children", "named_children"},
         WalkChildren(n, m)
  PROVE  WalkInv'
<1>1. /\ pc = "idle" /\ ChildCount(n) > 0 /\ cursor' = FirstChild(<<n>>)
      /\ UNCHANGED <<list, tree, edited, items, i>>
      /\ pc' = "fill" /\ self' = n /\ method' = m /\ field' = 0 /\ answer' = NoAnswer
  BY DEF WalkChildren, Begin
<1>2. i = 0 /\ items = <<>> /\ ChildCount(n) \in Nat
  BY <1>1, TreeType DEF WalkInv, TypesInv, AtRest
<1>3. /\ 1 \in 1..ChildCount(n) /\ cursor' = <<n, tree[n][1]>>
      /\ items = SubSeq(tree[n], 1, 1 - 1)
  BY <1>1, <1>2, FirstChildAt DEF WalkInv, TypesInv
<1>4. TypesInv'
  BY <1>1, <1>2 DEF WalkInv, TypesInv, NoAnswer, Kinds, ChildCount
<1>5. FillInv'
  BY <1>1, <1>3 DEF FillInv, ChildCount
<1>6. CursorInv'
  BY <1>1, <1>3 DEF CursorInv, ChildCount
<1>7. ListsWhole'
  BY <1>1 DEF WalkInv, ListsWhole
<1>. QED  BY <1>1, <1>2, <1>4, <1>5, <1>6, <1>7
          DEF WalkInv, FieldInv, NamedInv, AtRest, FaultNeedsEdit

LEMMA FillNextStep ==
  ASSUME WalkInv, FillNext
  PROVE  WalkInv'
<1>1. /\ pc = "fill" /\ HasNextSibling(cursor) /\ items' = Append(items, CurrentNode)
      /\ cursor' = NextSibling(cursor)
      /\ UNCHANGED <<tree, list, edited, pc, self, method, field, i, answer>>
  BY DEF FillNext
<1>2. tree \in Trees /\ self \in Nodes /\ tree[self] \in Seq(Nodes)
  BY <1>1, TreeType DEF WalkInv, TypesInv
<1>3. PICK k \in 1..ChildCount(self) :
        cursor = <<self, tree[self][k]>> /\ items = SubSeq(tree[self], 1, k - 1)
  BY <1>1 DEF WalkInv, FillInv
<1>4. k < ChildCount(self) /\ CurrentNode = tree[self][k] /\ cursor' = <<self, tree[self][k + 1]>>
  BY <1>1, <1>2, <1>3, CursorAt
<1>5. k + 1 \in 1..ChildCount(self) /\ k = (k + 1) - 1
  BY <1>2, <1>4 DEF ChildCount
<1>6. items' = SubSeq(tree[self], 1, (k + 1) - 1) /\ items' \in Seq(Nodes)
  BY <1>1, <1>2, <1>3, <1>4, PrefixStep DEF ChildCount
<1>7. FillInv'
  BY <1>1, <1>4, <1>5, <1>6 DEF WalkInv, FillInv, ChildCount
<1>8. CursorInv'
  BY <1>1, <1>2, <1>4, <1>5 DEF CursorInv, ChildCount
<1>9. TypesInv'
  BY <1>1, <1>6 DEF WalkInv, TypesInv, ChildCount
<1>. QED  BY <1>1, <1>7, <1>8, <1>9
          DEF WalkInv, FieldInv, NamedInv, AtRest, FaultNeedsEdit, ListsWhole

(* When the last child is in, the result is all of them.                    *)
LEMMA Filled ==
  ASSUME WalkInv, pc = "fill", ~HasNextSibling(cursor)
  PROVE  Append(items, CurrentNode) = tree[self] /\ tree[self] \in Seq(Nodes) /\ self \in Nodes
<1>1. tree \in Trees /\ self \in Nodes /\ tree[self] \in Seq(Nodes)
  BY TreeType DEF WalkInv, TypesInv
<1>2. PICK k \in 1..ChildCount(self) :
        cursor = <<self, tree[self][k]>> /\ items = SubSeq(tree[self], 1, k - 1)
  BY DEF WalkInv, FillInv
<1>3. ~(k < ChildCount(self)) /\ CurrentNode = tree[self][k]
  BY <1>1, <1>2, CursorAt
<1>. QED  BY <1>1, <1>2, <1>3, PrefixStep DEF ChildCount

LEMMA FillLastStep ==
  ASSUME WalkInv, FillLast
  PROVE  WalkInv'
<1>1. /\ pc = "fill" /\ ~HasNextSibling(cursor) /\ cursor' = cursor
      /\ list' = [list EXCEPT ![self] = Append(items, CurrentNode)]
      /\ tree' = tree /\ edited' = edited
  BY DEF FillLast, AnswerWith
<1>2. /\ self \in Nodes /\ tree[self] \in Seq(Nodes) /\ i = 0
      /\ list' = [list EXCEPT ![self] = tree[self]]
  BY <1>1, Filled DEF WalkInv, AtRest
<1>3. list' \in [Nodes -> {None} \cup Seq(Nodes \cup {Other})]
  BY <1>2 DEF WalkInv, TypesInv
<1>4. ListsWhole'
  BY <1>1, <1>2 DEF WalkInv, TypesInv, ListsWhole
<1>5. CursorInv'
  BY <1>1 DEF WalkInv, CursorInv, ChildCount
<1>6. CASE method = "children"
  <2>1. AnswerWith(method, self, 0, "list", Append(items, CurrentNode))
    BY <1>6 DEF FillLast
  <2>. QED  BY <2>1, <1>3, <1>4, <1>5, AnswerStep DEF WalkInv, Kinds
<1>7. CASE method # "children"
  <2>1. /\ pc' = "named" /\ items' = <<>>
        /\ UNCHANGED <<self, method, field, i, answer>>
    BY <1>7 DEF FillLast
  <2>2. method = "named_children"
    BY <1>1, <1>7 DEF WalkInv, FillInv
  <2>3. list'[self] = tree[self]
    BY <1>2 DEF WalkInv, TypesInv
  <2>4. NamedInv'
    <3>1. items' = Selected(tree[self], NamedNodes)[i]
      BY <2>1, <1>2, SelectedStep
    <3>. QED  BY <3>1, <2>1, <2>2, <2>3, <1>1 DEF NamedInv
  <2>5. TypesInv'
    BY <2>1, <1>1, <1>3 DEF WalkInv, TypesInv, ChildCount
  <2>. QED  BY <2>1, <2>4, <2>5, <1>4, <1>5
            DEF WalkInv, FillInv, FieldInv, AtRest, FaultNeedsEdit
<1>. QED  BY <1>6, <1>7

(* Where the loop over the list stands; and that it reads the children as   *)
(* long as the program has left the list alone.                             *)
LEMMA InLoopFacts ==
  ASSUME WalkInv, InLoop
  PROVE  /\ pc = "named" /\ method = "named_children"
         /\ self \in Nodes /\ tree[self] \in Seq(Nodes)
         /\ i \in 0..ChildCount(self) /\ i + 1 \in 1..ChildCount(self)
         /\ (i + 1) - 1 = i /\ i \in 0..Len(tree[self])
         /\ self \notin edited =>
              /\ ListItem = tree[self][i + 1] /\ ListItem \in Nodes
              /\ items = Selected(tree[self], NamedNodes)[i]
              /\ Selected(tree[self], NamedNodes)[i + 1] =
                   IF ListItem \in NamedNodes THEN Append(items, ListItem) ELSE items
<1>1. pc = "named" /\ i < ChildCount(self)
  BY DEF InLoop
<1>2. self \in Nodes /\ i \in 0..ChildCount(self) /\ tree \in Trees
  BY <1>1 DEF WalkInv, TypesInv
<1>3. tree[self] \in Seq(Nodes) /\ ChildCount(self) \in Nat
  BY <1>2, TreeType
<1>4. i + 1 \in 1..ChildCount(self) /\ (i + 1) - 1 = i /\ i \in 0..Len(tree[self])
  BY <1>1, <1>2, <1>3 DEF ChildCount
<1>5. ASSUME self \notin edited
      PROVE  /\ ListItem = tree[self][i + 1] /\ ListItem \in Nodes
             /\ items = Selected(tree[self], NamedNodes)[i]
  <2>1. list[self] = tree[self] /\ items = Selected(tree[self], NamedNodes)[i]
    BY <1>1, <1>5 DEF WalkInv, NamedInv
  <2>. QED  BY <2>1, <1>1, <1>3, <1>4 DEF ListItem, ChildCount
<1>6. ASSUME self \notin edited
      PROVE  Selected(tree[self], NamedNodes)[i + 1] =
               IF ListItem \in NamedNodes THEN Append(items, ListItem) ELSE items
  <2>1. i + 1 \in 1..Len(tree[self])
    BY <1>4 DEF ChildCount
  <2>2. Selected(tree[self], NamedNodes)[i + 1] =
          IF tree[self][i + 1] \in NamedNodes
          THEN Append(Selected(tree[self], NamedNodes)[(i + 1) - 1], tree[self][i + 1])
          ELSE Selected(tree[self], NamedNodes)[(i + 1) - 1]
    BY <2>1, <1>3, SelectedStep
  <2>. QED  BY <2>2, <1>4, <1>5, <1>6
<1>7. method = "named_children"
  BY <1>1 DEF WalkInv, NamedInv
<1>. QED  BY <1>1, <1>2, <1>3, <1>4, <1>5, <1>6, <1>7

LEMMA KeepNamedStep ==
  ASSUME WalkInv, KeepNamed
  PROVE  WalkInv'
<1>1. /\ InLoop /\ ListItem \in NamedNodes /\ items' = Append(items, ListItem) /\ i' = i + 1
      /\ UNCHANGED <<tree, cursor, list, edited, pc, self, method, field, answer>>
  BY DEF KeepNamed
<1>2. NamedInv'
  BY <1>1, InLoopFacts DEF WalkInv, NamedInv
<1>3. TypesInv'
  <2>1. items' \in Seq(Nodes)
    BY <1>1, ChildrenAssumption DEF WalkInv, TypesInv
  <2>2. pc # "idle" /\ i' \in 0..ChildCount(self)
    BY <1>1, InLoopFacts DEF ChildCount
  <2>. QED  BY <1>1, <2>1, <2>2 DEF WalkInv, TypesInv, ChildCount
<1>4. CursorInv'
  BY <1>1 DEF WalkInv, CursorInv, ChildCount
<1>5. ListsWhole'
  BY <1>1 DEF WalkInv, ListsWhole
<1>. QED  BY <1>1, <1>2, <1>3, <1>4, <1>5, InLoopFacts
          DEF WalkInv, FillInv, FieldInv, AtRest, FaultNeedsEdit

LEMMA SkipUnnamedStep ==
  ASSUME WalkInv, SkipUnnamed
  PROVE  WalkInv'
<1>1. /\ InLoop /\ ListItem \notin NamedNodes /\ i' = i + 1
      /\ UNCHANGED <<tree, cursor, list, edited, pc, self, method, field, items, answer>>
  BY DEF SkipUnnamed
<1>2. NamedInv'
  BY <1>1, InLoopFacts DEF WalkInv, NamedInv
<1>3. TypesInv'
  <2>1. pc # "idle" /\ i' \in 0..ChildCount(self)
    BY <1>1, InLoopFacts DEF ChildCount
  <2>. QED  BY <1>1, <2>1 DEF WalkInv, TypesInv, ChildCount
<1>4. CursorInv'
  BY <1>1 DEF WalkInv, CursorInv, ChildCount
<1>5. ListsWhole'
  BY <1>1 DEF WalkInv, ListsWhole
<1>. QED  BY <1>1, <1>2, <1>3, <1>4, <1>5, InLoopFacts
          DEF WalkInv, FillInv, FieldInv, AtRest, FaultNeedsEdit

LEMMA TooManyNamedStep ==
  ASSUME WalkInv, TooManyNamed
  PROVE  WalkInv'
<1>1. AnswerWith(method, self, 0, "IndexError", <<>>) /\ UNCHANGED <<cursor, list>>
  BY DEF TooManyNamed
<1>. QED  BY <1>1, ReturnStep DEF Kinds

LEMMA ReadNoNodeStep ==
  ASSUME WalkInv, ReadNoNode
  PROVE  WalkInv'
<1>1. /\ InLoop /\ ListItem \notin Nodes /\ pc' = "faulted"
      /\ UNCHANGED <<tree, cursor, list, edited, self, method, field, items, i, answer>>
  BY DEF ReadNoNode
<1>2. self \in edited
  BY <1>1, InLoopFacts
<1>3. TypesInv'
  BY <1>1, InLoopFacts DEF WalkInv, TypesInv, ChildCount
<1>4. CursorInv'
  BY <1>1 DEF WalkInv, CursorInv, ChildCount
<1>5. ListsWhole'
  BY <1>1 DEF WalkInv, ListsWhole
<1>. QED  BY <1>1, <1>2, <1>3, <1>4, <1>5
          DEF WalkInv, FillInv, FieldInv, NamedInv, AtRest, FaultNeedsEdit

LEMMA ReturnNamedStep ==
  ASSUME WalkInv, ReturnNamed
  PROVE  WalkInv'
<1>. DEFINE rest == [n \in 1..NamedChildCount(self) - Len(items) |-> NULL]
<1>1. AnswerWith(method, self, 0, "list", items \o rest) /\ UNCHANGED <<cursor, list>>
  BY DEF ReturnNamed
<1>. HIDE DEF rest
<1>. QED  BY <1>1, ReturnStep DEF Kinds

LEMMA NoFieldStep ==
  ASSUME WalkInv, NEW n, NoField(n)
  PROVE  WalkInv'
BY ReturnStep DEF NoField, Kinds

LEMMA ByFieldStep ==
  ASSUME WalkInv, NEW n \in Nodes, NEW id \in Fields, ByField(n, id)
  PROVE  WalkInv'
<1>1. pc = "idle" /\ id # 0 /\ list' = list
  BY DEF ByField
<1>2. tree \in Trees /\ ChildCount(n) \in Nat /\ i = 0 /\ items = <<>>
  BY <1>1, TreeType DEF WalkInv, TypesInv, AtRest
<1>3. CASE HasFirstChild(<<n>>)
  <2>1. cursor' = FirstChild(<<n>>) /\ Begin(n, "children_by_field_id", id, "field")
    BY <1>3 DEF ByField
  <2>2. ChildCount(n) > 0
    BY <1>2, <1>3, HasFirstChildOf
  <2>3. 1 \in 1..ChildCount(n) /\ cursor' = <<n, tree[n][1]>>
    BY <1>2, <2>1, <2>2, FirstChildAt
  <2>4. /\ pc' = "field" /\ self' = n /\ method' = "children_by_field_id" /\ field' = id
        /\ answer' = NoAnswer /\ UNCHANGED <<tree, edited, items, i>>
    BY <2>1 DEF Begin
  <2>5. Selected(tree[n], HavingField(id))[1 - 1] = <<>>
    <3>1. Selected(tree[n], HavingField(id))[0] = <<>>
      BY <1>2, TreeType, SelectedStep
    <3>. QED  BY <3>1
  <2>6. FieldInv'
    <3>1. /\ cursor' = <<self', tree'[self'][1]>> /\ 1 \in 1..ChildCount(self')
          /\ items' = Selected(tree'[self'], HavingField(field'))[1 - 1]
      BY <1>2, <2>3, <2>4, <2>5
    <3>. QED  BY <1>1, <2>4, <3>1 DEF FieldInv, ChildCount, HavingField
  <2>7. CursorInv'
    BY <2>3, <2>4 DEF CursorInv, ChildCount
  <2>8. TypesInv'
    BY <1>1, <1>2, <2>4 DEF WalkInv, TypesInv, NoAnswer, Kinds, ChildCount
  <2>9. ListsWhole'
    BY <1>1, <2>4 DEF WalkInv, ListsWhole
  <2>. QED  BY <1>2, <2>4, <2>6, <2>7, <2>8, <2>9
            DEF WalkInv, FillInv, NamedInv, AtRest, FaultNeedsEdit
<1>4. CASE ~HasFirstChild(<<n>>)
  <2>1. cursor' = <<n>> /\ AnswerWith("children_by_field_id", n, id, "list", <<>>)
    BY <1>4 DEF ByField
  <2>2. tree' = tree /\ edited' = edited
    BY <2>1 DEF AnswerWith
  <2>3. CursorInv'
    BY <2>1 DEF CursorInv
  <2>4. ListsWhole' /\ list' \in [Nodes -> {None} \cup Seq(Nodes \cup {Other})]
    BY <1>1, <2>2 DEF WalkInv, TypesInv, ListsWhole
  <2>. QED  BY <2>1, <2>3, <2>4, AnswerStep DEF WalkInv, Kinds
<1>. QED  BY <1>3, <1>4

(* The child the cursor is on, added to what the children before it gave.   *)
LEMMA FieldFacts ==
  ASSUME WalkInv, pc = "field"
  PROVE  /\ tree \in Trees /\ self \in Nodes /\ tree[self] \in Seq(Nodes) /\ field # 0
         /\ method = "children_by_field_id"
         /\ \E k \in 1..ChildCount(self) :
              /\ cursor = <<self, tree[self][k]>>
              /\ WithField = Selected(tree[self], HavingField(field))[k]
              /\ WithField \in Seq(Nodes)
<1>1. tree \in Trees /\ self \in Nodes /\ tree[self] \in Seq(Nodes)
  BY TreeType DEF WalkInv, TypesInv
<1>2. PICK k \in 1..ChildCount(self) :
        /\ cursor = <<self, tree[self][k]>>
        /\ items = Selected(tree[self], HavingField(field))[k - 1]
  BY DEF WalkInv, FieldInv
<1>3. CurrentNode = tree[self][k] /\ CurrentNode \in Nodes
  BY <1>1, <1>2, CursorAt
<1>4. k \in 1..Len(tree[self])
  BY <1>2 DEF ChildCount
<1>5. Selected(tree[self], HavingField(field))[k] =
        IF tree[self][k] \in HavingField(field) THEN Append(items, tree[self][k]) ELSE items
  BY <1>1, <1>2, <1>4, SelectedStep
<1>6. tree[self][k] \in HavingField(field) <=> FieldOf[CurrentNode] = field
  BY <1>3 DEF HavingField
<1>7. WithField = Selected(tree[self], HavingField(field))[k]
  BY <1>3, <1>5, <1>6 DEF WithField
<1>8. WithField \in Seq(Nodes)
  BY <1>3 DEF WalkInv, TypesInv, WithField
<1>9. field # 0 /\ method = "children_by_field_id"
  BY DEF WalkInv, FieldInv
<1>. QED  BY <1>1, <1>2, <1>7, <1>8, <1>9

LEMMA FieldNextStep ==
  ASSUME WalkInv, FieldNext
  PROVE  WalkInv'
<1>1. /\ pc = "field" /\ HasNextSibling(cursor) /\ items' = WithField
      /\ cursor' = NextSibling(cursor)
      /\ UNCHANGED <<tree, list, edited, pc, self, method, field, i, answer>>
  BY DEF FieldNext
<1>2. tree \in Trees /\ self \in Nodes /\ tree[self] \in Seq(Nodes)
  BY <1>1, FieldFacts
<1>3. PICK k \in 1..ChildCount(self) :
        /\ cursor = <<self, tree[self][k]>>
        /\ WithField = Selected(tree[self], HavingField(field))[k]
        /\ WithField \in Seq(Nodes)
  BY <1>1, FieldFacts
<1>4. k < ChildCount(self) /\ cursor' = <<self, tree[self][k + 1]>>
  BY <1>1, <1>2, <1>3, CursorAt
<1>5. k + 1 \in 1..ChildCount(self) /\ k = (k + 1) - 1
  BY <1>2, <1>4 DEF ChildCount
<1>6. FieldInv'
  <2>1. items' = Selected(tree'[self'], HavingField(field'))[(k + 1) - 1]
    BY <1>1, <1>3, <1>5
  <2>. QED  BY <1>1, <1>4, <1>5, <2>1 DEF WalkInv, FieldInv, ChildCount, HavingField
<1>7. CursorInv'
  BY <1>1, <1>2, <1>4, <1>5 DEF CursorInv, ChildCount
<1>8. TypesInv'
  BY <1>1, <1>3 DEF WalkInv, TypesInv, ChildCount
<1>9. ListsWhole'
  BY <1>1 DEF WalkInv, ListsWhole
<1>. QED  BY <1>1, <1>6, <1>7, <1>8, <1>9
          DEF WalkInv, FillInv, NamedInv, AtRest, FaultNeedsEdit

LEMMA FieldLastStep ==
  ASSUME WalkInv, FieldLast
  PROVE  WalkInv'
BY ReturnStep DEF FieldLast, Kinds

LEMMA IndexedStep ==
  ASSUME WalkInv, NEW n, NEW m, NEW index, NEW count, NEW kind \in Kinds, NEW value,
         Indexed(n, m, index, count, kind, value)
  PROVE  WalkInv'
<1>1. UNCHANGED <<cursor, list>>
  BY DEF Indexed
<1>2. \E k \in Kinds : \E v : AnswerWith(m, n, index, k, v)
  <2>1. CASE index < 0
    BY <2>1 DEF Indexed, Kinds
  <2>2. CASE ~(index < 0) /\ Index(index) >= count
    BY <2>2 DEF Indexed, Kinds
  <2>3. CASE ~(index < 0) /\ ~(Index(index) >= count)
    BY <2>3 DEF Indexed
  <2>. QED  BY <2>1, <2>2, <2>3
<1>. QED  BY <1>1, <1>2, ReturnStep

LEMMA EditListStep ==
  ASSUME WalkInv, NEW n \in Nodes, EditList(n)
  PROVE  WalkInv'
<1>. DEFINE Lists == {None} \cup Seq(Nodes \cup {Other})
<1>1. /\ pc = "idle" /\ list[n] # None /\ edited' = edited \cup {n} /\ answer' = NoAnswer
      /\ UNCHANGED <<tree, cursor, pc, self, method, field, items, i>>
  BY DEF EditList
<1>2. list \in [Nodes -> Lists] /\ list[n] \in Seq(Nodes \cup {Other})
  BY <1>1 DEF WalkInv, TypesInv
<1>3. \E s \in Seq(Nodes \cup {Other}) : list' = [list EXCEPT ![n] = s]
  <2>1. ASSUME NEW k \in DOMAIN list[n], list' = [list EXCEPT ![n] = RemoveAt(@, k)]
        PROVE  \E s \in Seq(Nodes \cup {Other}) : list' = [list EXCEPT ![n] = s]
    <3>1. k \in 1..Len(list[n])
      BY <1>2
    <3>2. /\ SubSeq(list[n], 1, k - 1) \in Seq(Nodes \cup {Other})
          /\ SubSeq(list[n], k + 1, Len(list[n])) \in Seq(Nodes \cup {Other})
      BY <1>2, <3>1
    <3>3. RemoveAt(list[n], k) \in Seq(Nodes \cup {Other})
      BY <3>2 DEF RemoveAt
    <3>. QED  BY <2>1, <3>3
  <2>2. ASSUME NEW k \in DOMAIN list[n], NEW x \in Nodes \cup {Other},
               list' = [list EXCEPT ![n][k] = x]
        PROVE  \E s \in Seq(Nodes \cup {Other}) : list' = [list EXCEPT ![n] = s]
    <3>1. [list[n] EXCEPT ![k] = x] \in Seq(Nodes \cup {Other})
      BY <1>2
    <3>2. list' = [list EXCEPT ![n] = [list[n] EXCEPT ![k] = x]]
      BY <1>2, <2>2
    <3>. QED  BY <3>1, <3>2
  <2>3. ASSUME NEW x \in Nodes \cup {Other}, list' = [list EXCEPT ![n] = Append(@, x)]
        PROVE  \E s \in Seq(Nodes \cup {Other}) : list' = [list EXCEPT ![n] = s]
    <3>1. Append(list[n], x) \in Seq(Nodes \cup {Other})
      BY <1>2
    <3>. QED  BY <2>3, <3>1
  <2>. QED  BY <2>1, <2>2, <2>3 DEF EditList
<1>4. TypesInv'
  <2>1. list' \in [Nodes -> Lists]
    BY <1>2, <1>3
  <2>. QED  BY <1>1, <2>1 DEF WalkInv, TypesInv, NoAnswer, Kinds, ChildCount
<1>5. ListsWhole'
  BY <1>1, <1>2, <1>3 DEF WalkInv, ListsWhole
<1>6. CursorInv'
  BY <1>1 DEF WalkInv, CursorInv, ChildCount
<1>. QED  BY <1>1, <1>4, <1>5, <1>6
          DEF WalkInv, FillInv, FieldInv, NamedInv, AtRest, FaultNeedsEdit

LEMMA CallStep ==
  ASSUME WalkInv, NEW n \in Nodes, Call(n)
  PROVE  WalkInv'
<1>1. CASE Children(n)
  <2>1. PICK m \in {"children", "named_children"} :
          CachedChildren(n, m) \/ NoChildren(n, m) \/ WalkChildren(n, m)
    BY <1>1 DEF Children
  <2>. QED  BY <2>1, CachedChildrenStep, NoChildrenStep, WalkChildrenStep
<1>2. CASE NoField(n)
  BY <1>2, NoFieldStep
<1>3. ASSUME NEW id \in Fields, ByField(n, id)  PROVE  WalkInv'
  BY <1>3, ByFieldStep
<1>4. ASSUME NEW index \in -1..LongMax, Child(n, index)  PROVE  WalkInv'
  BY <1>4, IndexedStep DEF Child, Kinds
<1>5. ASSUME NEW index \in -1..LongMax, NamedChild(n, index)  PROVE  WalkInv'
  BY <1>5, IndexedStep DEF NamedChild, Kinds
<1>6. ASSUME NEW index \in -1..LongMax, FieldNameForChild(n, index)  PROVE  WalkInv'
  BY <1>6, IndexedStep DEF FieldNameForChild, Kinds
<1>7. ASSUME NEW index \in -1..LongMax, FieldNameForNamedChild(n, index)  PROVE  WalkInv'
  BY <1>7, IndexedStep DEF FieldNameForNamedChild, Kinds
<1>. QED  BY <1>1, <1>2, <1>3, <1>4, <1>5, <1>6, <1>7 DEF Call

LEMMA StutterStep ==
  ASSUME WalkInv, UNCHANGED vars
  PROVE  WalkInv'
<1>1. UNCHANGED <<tree, cursor, list, edited, pc, self, method, field, items, i, answer>>
  BY DEF vars
<1>2. TypesInv'
  BY <1>1 DEF WalkInv, TypesInv, ChildCount
<1>3. CursorInv'
  BY <1>1 DEF WalkInv, CursorInv, ChildCount
<1>4. FillInv' /\ FieldInv' /\ NamedInv'
  BY <1>1 DEF WalkInv, FillInv, FieldInv, NamedInv, ChildCount, HavingField
<1>. QED  BY <1>1, <1>2, <1>3, <1>4 DEF WalkInv, ListsWhole, AtRest, FaultNeedsEdit

LEMMA WalkStep == WalkInv /\ [Next]_vars => WalkInv'
<1>. SUFFICES ASSUME WalkInv, [Next]_vars  PROVE  WalkInv'
  OBVIOUS
<1>1. CASE Loop
  BY <1>1, FillNextStep, FillLastStep, KeepNamedStep, SkipUnnamedStep, TooManyNamedStep,
     ReadNoNodeStep, ReturnNamedStep, FieldNextStep, FieldLastStep DEF Loop
<1>2. ASSUME NEW n \in Nodes, Call(n)  PROVE  WalkInv'
  BY <1>2, CallStep
<1>3. ASSUME NEW n \in Nodes, EditList(n)  PROVE  WalkInv'
  BY <1>3, EditListStep
<1>4. CASE UNCHANGED vars
  BY <1>4, StutterStep
<1>. QED  BY <1>1, <1>2, <1>3, <1>4 DEF Next

THEOREM WalkInvariant == Spec => []WalkInv
BY WalkInit, WalkStep, PTL DEF Spec

(* Every variable keeps its type, and the cursor stands on a node of the    *)
(* tree (node_get_children, node_children_by_field_id_internal).            *)
THEOREM TypeCorrect == Spec => []TypeOK
BY WalkInvariant, WalkTypes, PTL

(* A list read in place of the children makes the module read what is no    *)
(* Node only after the program has changed that list                        *)
(* (node_get_named_children).                                               *)
THEOREM FaultsNeedEdits == Spec => []FaultNeedsEdit
<1>1. WalkInv => FaultNeedsEdit
  BY DEF WalkInv
<1>. QED  BY <1>1, WalkInvariant, PTL

-----------------------------------------------------------------------------
(* The answers: what each kind of method owes, and that it is given.        *)

ChildrenAnswer ==
  /\ answer.method = "children" /\ answer.kind = "list"
  /\ answer.node \notin edited => answer.value = tree[answer.node]

NamedAnswer ==
  /\ answer.method = "named_children"
  /\ answer.node \notin edited =>
       answer.kind = "list" /\ answer.value = NamedChildren(answer.node)

FieldAnswer == answer.method = "children_by_field_id" /\ FieldComplete

IndexedAnswer == answer.method \in IndexedMethods /\ IndexedChildren

AnswerInv ==
  answer = NoAnswer \/ ChildrenAnswer \/ NamedAnswer \/ FieldAnswer \/ IndexedAnswer

LEMMA AnswerRecord ==
  ASSUME NEW m, NEW n, NEW arg, NEW kind, NEW value, AnswerWith(m, n, arg, kind, value)
  PROVE  /\ answer'.method = m /\ answer'.node = n /\ answer'.arg = arg
         /\ answer'.kind = kind /\ answer'.value = value
         /\ tree' = tree /\ edited' = edited
BY DEF AnswerWith

LEMMA SameAnswer ==
  ASSUME AnswerInv, UNCHANGED <<answer, tree, edited>>
  PROVE  AnswerInv'
BY DEF AnswerInv, ChildrenAnswer, NamedAnswer, FieldAnswer, IndexedAnswer, NamedChildren,
       FieldComplete, IndexedChildren, Answered

(* Nothing is selected of no children.                                      *)
LEMMA OnlyOfNothing ==
  ASSUME tree \in Trees, NEW n \in Nodes, ChildCount(n) = 0, NEW A
  PROVE  tree[n] = <<>> /\ Only(tree[n], A) = <<>>
<1>1. tree[n] \in Seq(Nodes) /\ Len(tree[n]) = 0
  BY TreeType DEF ChildCount
<1>2. Selected(tree[n], A)[0] = <<>>
  BY <1>1, SelectedStep
<1>. QED  BY <1>1, <1>2 DEF Only

LEMMA CachedChildrenAnswer ==
  ASSUME WalkInv, NEW n \in Nodes, NEW m \in {"children", "named_children"},
         CachedChildren(n, m)
  PROVE  AnswerInv'
<1>1. CASE m = "children"
  <2>1. AnswerWith(m, n, 0, "list", list[n]) /\ list[n] # None
    BY <1>1 DEF CachedChildren
  <2>2. n \notin edited => list[n] = tree[n]
    BY <2>1 DEF WalkInv, ListsWhole
  <2>3. ChildrenAnswer'
    BY <1>1, <2>1, <2>2, AnswerRecord DEF ChildrenAnswer
  <2>. QED  BY <2>3 DEF AnswerInv
<1>2. CASE m # "children"
  BY <1>2 DEF CachedChildren, Begin, AnswerInv
<1>. QED  BY <1>1, <1>2

LEMMA NoChildrenAnswer ==
  ASSUME WalkInv, NEW n \in Nodes, NEW m \in {"children", "named_children"},
         NoChildren(n, m)
  PROVE  AnswerInv'
<1>1. AnswerWith(m, n, 0, "list", <<>>) /\ ChildCount(n) = 0
  BY DEF NoChildren
<1>2. tree[n] = <<>> /\ NamedChildren(n) = <<>>
  BY <1>1, OnlyOfNothing DEF WalkInv, TypesInv, NamedChildren
<1>3. tree' = tree /\ edited' = edited
  BY <1>1, AnswerRecord
<1>4. CASE m = "children"
  <2>1. ChildrenAnswer'
    BY <1>1, <1>2, <1>4, AnswerRecord DEF ChildrenAnswer
  <2>. QED  BY <2>1 DEF AnswerInv
<1>5. CASE m = "named_children"
  <2>1. NamedAnswer'
    BY <1>1, <1>2, <1>5, AnswerRecord DEF NamedAnswer, NamedChildren
  <2>. QED  BY <2>1 DEF AnswerInv
<1>. QED  BY <1>4, <1>5

LEMMA FillLastAnswer ==
  ASSUME WalkInv, AnswerInv, FillLast
  PROVE  AnswerInv'
<1>1. CASE method = "children"
  <2>1. AnswerWith(method, self, 0, "list", Append(items, CurrentNode))
    BY <1>1 DEF FillLast
  <2>2. Append(items, CurrentNode) = tree[self]
    BY Filled DEF FillLast
  <2>3. ChildrenAnswer'
    BY <1>1, <2>1, <2>2, AnswerRecord DEF ChildrenAnswer
  <2>. QED  BY <2>3 DEF AnswerInv
<1>2. CASE method # "children"
  <2>1. UNCHANGED <<answer, tree, edited>>
    BY <1>2 DEF FillLast
  <2>. QED  BY <2>1, SameAnswer
<1>. QED  BY <1>1, <1>2

(* There is room for each named child of a list the program has left alone. *)
LEMMA TooManyNamedAnswer ==
  ASSUME WalkInv, TooManyNamed
  PROVE  AnswerInv'
<1>1. /\ InLoop /\ ListItem \in NamedNodes /\ Len(items) = NamedChildCount(self)
      /\ AnswerWith(method, self, 0, "IndexError", <<>>)
  BY DEF TooManyNamed
<1>2. items \in Seq(Nodes) /\ tree[self] \in Seq(Nodes) /\ method = "named_children"
  BY <1>1, InLoopFacts DEF WalkInv, TypesInv
<1>3. ASSUME self \notin edited  PROVE  FALSE
  <2>1. Selected(tree[self], NamedNodes)[i + 1] = Append(items, ListItem)
    BY <1>1, <1>3, InLoopFacts
  <2>2. i + 1 \in 0..Len(tree[self])
    BY <1>1, InLoopFacts DEF ChildCount
  <2>3. Len(Selected(tree[self], NamedNodes)[i + 1]) <= Len(Only(tree[self], NamedNodes))
    BY <1>2, <2>2, SelectedGrows
  <2>4. Len(Append(items, ListItem)) = Len(items) + 1 /\ Len(items) \in Nat
    <3>1. ListItem \in Nodes
      BY <1>1, ChildrenAssumption
    <3>. QED  BY <1>2, <3>1
  <2>. QED  BY <1>1, <2>1, <2>3, <2>4 DEF NamedChildCount, NamedChildren
<1>4. NamedAnswer'
  BY <1>1, <1>2, <1>3, AnswerRecord DEF NamedAnswer
<1>. QED  BY <1>4 DEF AnswerInv

LEMMA ReturnNamedAnswer ==
  ASSUME WalkInv, ReturnNamed
  PROVE  AnswerInv'
<1>. DEFINE rest == [n \in 1..NamedChildCount(self) - Len(items) |-> NULL]
<1>1. /\ pc = "named" /\ i = ChildCount(self)
      /\ AnswerWith(method, self, 0, "list", items \o rest)
  BY DEF ReturnNamed
<1>2. self \in Nodes /\ method = "named_children" /\ items \in Seq(Nodes)
  BY <1>1 DEF WalkInv, TypesInv, NamedInv
<1>3. ASSUME self \notin edited  PROVE  items \o rest = NamedChildren(self)
  <2>1. items = NamedChildren(self)
    BY <1>1, <1>3 DEF WalkInv, NamedInv, NamedChildren, Only, ChildCount
  <2>2. NamedChildCount(self) - Len(items) = 0
    BY <1>2, <2>1 DEF NamedChildCount
  <2>3. rest = <<>>
    BY <2>2
  <2>. HIDE DEF rest
  <2>. QED  BY <1>2, <2>1, <2>3
<1>. HIDE DEF rest
<1>4. /\ answer'.method = method /\ answer'.node = self /\ answer'.kind = "list"
      /\ answer'.value = items \o rest /\ tree' = tree /\ edited' = edited
  BY <1>1, AnswerRecord
<1>5. NamedAnswer'
  BY <1>2, <1>3, <1>4 DEF NamedAnswer, NamedChildren
<1>. QED  BY <1>5 DEF AnswerInv

LEMMA ByFieldAnswer ==
  ASSUME WalkInv, NEW n \in Nodes, NEW id \in Fields, ByField(n, id)
  PROVE  AnswerInv'
<1>1. CASE HasFirstChild(<<n>>)
  BY <1>1 DEF ByField, Begin, AnswerInv
<1>2. CASE ~HasFirstChild(<<n>>)
  <2>1. AnswerWith("children_by_field_id", n, id, "list", <<>>)
    BY <1>2 DEF ByField
  <2>2. tree \in Trees /\ ChildCount(n) = 0
    BY <1>2, HasFirstChildOf, TreeType DEF WalkInv, TypesInv
  <2>3. Only(tree[n], {x \in Nodes : FieldOf[x] = id}) = <<>>
    BY <2>2, OnlyOfNothing
  <2>4. FieldAnswer'
    BY <2>1, <2>3, AnswerRecord DEF FieldAnswer, FieldComplete
  <2>. QED  BY <2>4 DEF AnswerInv
<1>. QED  BY <1>1, <1>2

LEMMA NoFieldAnswer ==
  ASSUME NEW n, NoField(n)
  PROVE  AnswerInv'
<1>1. AnswerWith("children_by_field_id", n, 0, "list", <<>>)
  BY DEF NoField
<1>2. FieldAnswer'
  BY <1>1, AnswerRecord DEF FieldAnswer, FieldComplete
<1>. QED  BY <1>2 DEF AnswerInv

LEMMA FieldLastAnswer ==
  ASSUME WalkInv, FieldLast
  PROVE  AnswerInv'
<1>1. /\ pc = "field" /\ ~HasNextSibling(cursor)
      /\ AnswerWith(method, self, field, "list", WithField)
  BY DEF FieldLast
<1>2. /\ tree \in Trees /\ self \in Nodes /\ tree[self] \in Seq(Nodes)
      /\ method = "children_by_field_id" /\ field # 0
  BY <1>1, FieldFacts
<1>3. PICK k \in 1..ChildCount(self) :
        /\ cursor = <<self, tree[self][k]>>
        /\ WithField = Selected(tree[self], HavingField(field))[k]
  BY <1>1, FieldFacts
<1>4. ~(k < ChildCount(self))
  BY <1>1, <1>2, <1>3, CursorAt
<1>5. k = Len(tree[self])
  BY <1>2, <1>3, <1>4 DEF ChildCount
<1>6. WithField = Only(tree[self], {x \in Nodes : FieldOf[x] = field})
  BY <1>3, <1>5 DEF Only, HavingField
<1>7. /\ answer'.method = method /\ answer'.node = self /\ answer'.arg = field
      /\ answer'.value = WithField /\ tree' = tree
  BY <1>1, AnswerRecord
<1>8. FieldAnswer'
  BY <1>2, <1>6, <1>7 DEF FieldAnswer, FieldComplete
<1>. QED  BY <1>8 DEF AnswerInv

(* An index that uint32_t can hold survives its conversion.                 *)
Place(index) == IF index < IndexModulus THEN index ELSE index % IndexModulus

LEMMA IndexPlace ==
  ASSUME NEW index \in -1..LongMax, index >= 0
  PROVE  Index(index) = Place(index) /\ Index(index) \in Nat
<1>1. IndexModulus \in Nat \ {0} /\ LongMax \in Nat
  BY ChildrenAssumption
<1>2. index \in Nat
  BY <1>1
<1>3. \A m \in Nat \ {0}, x \in Nat : x % m \in Nat /\ (x < m => x % m = x)
  OBVIOUS
<1>. QED  BY <1>1, <1>2, <1>3 DEF Index, Place

LEMMA IndexedMethod ==
  ASSUME NEW n, NEW m, NEW index, NEW count, NEW kind, NEW value,
         Indexed(n, m, index, count, kind, value)
  PROVE  /\ answer'.method = m /\ answer'.node = n /\ answer'.arg = index
         /\ tree' = tree
<1>1. \E k, v : AnswerWith(m, n, index, k, v)
  BY DEF Indexed
<1>. QED  BY <1>1, AnswerRecord

LEMMA IndexedResult ==
  ASSUME NEW n, NEW m, NEW index \in -1..LongMax, NEW count \in Nat,
         NEW kind, NEW value, Indexed(n, m, index, count, kind, value)
  PROVE  /\ index < 0 => answer'.kind = "ValueError"
         /\ index >= 0 /\ Place(index) >= count => answer'.kind = "IndexError"
         /\ index >= 0 /\ Place(index) < count => answer'.kind = kind /\ answer'.value = value
<1>1. LongMax \in Nat /\ index \in Int
  BY ChildrenAssumption
<1>2. CASE index < 0
  <2>1. AnswerWith(m, n, index, "ValueError", <<>>)
    BY <1>2 DEF Indexed
  <2>. QED  BY <1>1, <1>2, <2>1, AnswerRecord
<1>3. CASE index >= 0
  <2>1. Index(index) = Place(index) /\ Index(index) \in Nat /\ ~(index < 0)
    BY <1>1, <1>3, IndexPlace
  <2>2. CASE Place(index) >= count
    <3>1. AnswerWith(m, n, index, "IndexError", <<>>)
      BY <2>1, <2>2 DEF Indexed
    <3>. QED  BY <1>1, <1>3, <2>1, <2>2, <3>1, AnswerRecord
  <2>3. CASE Place(index) < count
    <3>1. AnswerWith(m, n, index, kind, value)
      BY <2>1, <2>3 DEF Indexed
    <3>. QED  BY <1>1, <1>3, <2>1, <2>3, <3>1, AnswerRecord
  <2>. QED  BY <2>1, <2>2, <2>3
<1>. QED  BY <1>1, <1>2, <1>3

(* Of the named children there are no more than of the children.            *)
LEMMA NamedChildrenType ==
  ASSUME tree \in Trees, NEW n \in Nodes
  PROVE  /\ tree[n] \in Seq(Nodes) /\ NamedChildren(n) \in Seq(Nodes)
         /\ NamedChildCount(n) \in Nat /\ NamedChildCount(n) <= ChildCount(n)
<1>1. tree[n] \in Seq(Nodes)
  BY TreeType
<1>2. Len(tree[n]) \in 0..Len(tree[n])
  BY <1>1
<1>3. NamedChildren(n) \in Seq(Nodes \cap NamedNodes) /\ Len(NamedChildren(n)) <= Len(tree[n])
  BY <1>1, <1>2, SelectedType DEF NamedChildren, Only
<1>. QED  BY <1>1, <1>3 DEF NamedChildCount, ChildCount

LEMMA ChildAnswer ==
  ASSUME WalkInv, NEW n \in Nodes, NEW index \in -1..LongMax,
         Child(n, index) \/ NamedChild(n, index)
  PROVE  AnswerInv'
<1>. DEFINE Answers(m, children) ==
              Indexed(n, m, index, Len(children), "node", NthOf(children, index))
<1>1. tree[n] \in Seq(Nodes) /\ NamedChildren(n) \in Seq(Nodes)
  BY NamedChildrenType DEF WalkInv, TypesInv
<1>2. ASSUME NEW m \in {"child", "named_child"}, NEW children \in Seq(Nodes),
             children = (IF m = "child" THEN tree[n] ELSE NamedChildren(n)),
             Answers(m, children)
      PROVE  IndexedAnswer'
  <2>1. answer'.method = m /\ answer'.node = n /\ answer'.arg = index /\ tree' = tree
    BY <1>2, IndexedMethod
  <2>2. Len(children) \in Nat
    OBVIOUS
  <2>3. /\ index < 0 => answer'.kind = "ValueError"
        /\ index >= 0 /\ Place(index) >= Len(children) => answer'.kind = "IndexError"
        /\ index >= 0 /\ Place(index) < Len(children) =>
             answer'.kind = "node" /\ answer'.value = NthOf(children, index)
    BY <1>2, <2>2, IndexedResult
  <2>4. index >= 0 /\ Place(index) < Len(children) => NthOf(children, index) = children[Place(index) + 1]
    BY IndexPlace DEF NthOf
  <2>5. index >= 0 /\ Place(index) >= Len(children) => ~(Place(index) < Len(children))
    BY <2>2, IndexPlace
  <2>6. IndexedChildren'
    BY <1>2, <2>1, <2>3, <2>4, <2>5 DEF IndexedChildren, NamedChildren, Place
  <2>. QED  BY <2>1, <2>6 DEF IndexedAnswer, IndexedMethods
<1>3. CASE Child(n, index)
  <2>1. Answers("child", tree[n])
    BY <1>3 DEF Child, ChildCount
  <2>. QED  BY <1>1, <1>2, <2>1 DEF AnswerInv
<1>4. CASE NamedChild(n, index)
  <2>1. Answers("named_child", NamedChildren(n))
    BY <1>4 DEF NamedChild, NamedChildCount
  <2>. QED  BY <1>1, <1>2, <2>1 DEF AnswerInv
<1>. QED  BY <1>3, <1>4

LEMMA FieldNameAnswer ==
  ASSUME WalkInv, NEW n \in Nodes, NEW index \in -1..LongMax,
         FieldNameForChild(n, index) \/ FieldNameForNamedChild(n, index)
  PROVE  AnswerInv'
<1>. DEFINE Answers(m, children) ==
              Indexed(n, m, index, ChildCount(n), "name", FieldOfNth(children, index))
<1>1. /\ tree[n] \in Seq(Nodes) /\ NamedChildren(n) \in Seq(Nodes)
      /\ ChildCount(n) \in Nat /\ ChildCount(n) = Len(tree[n])
      /\ Len(NamedChildren(n)) <= ChildCount(n)
  BY NamedChildrenType DEF WalkInv, TypesInv, NamedChildCount, ChildCount
<1>2. ASSUME NEW m \in {"field_name_for_child", "field_name_for_named_child"},
             NEW children \in Seq(Nodes), Len(children) <= ChildCount(n),
             children = (IF m = "field_name_for_child" THEN tree[n] ELSE NamedChildren(n)),
             Answers(m, children)
      PROVE  IndexedAnswer'
  <2>1. answer'.method = m /\ answer'.node = n /\ answer'.arg = index /\ tree' = tree
    BY <1>2, IndexedMethod
  <2>2. Len(children) \in Nat
    OBVIOUS
  <2>3. /\ index < 0 => answer'.kind = "ValueError"
        /\ index >= 0 /\ Place(index) >= ChildCount(n) => answer'.kind = "IndexError"
        /\ index >= 0 /\ Place(index) < ChildCount(n) =>
             answer'.kind = "name" /\ answer'.value = FieldOfNth(children, index)
    BY <1>1, <1>2, IndexedResult
  <2>4. index >= 0 => Place(index) \in Nat /\ FieldOfNth(children, index) =
          IF Place(index) < Len(children) THEN FieldOf[children[Place(index) + 1]] ELSE 0
    BY IndexPlace DEF FieldOfNth
  <2>5. m = "field_name_for_child" => Len(children) = ChildCount(n)
    BY <1>1, <1>2
  <2>6. IndexedChildren'
    <3>1. ASSUME index >= 0, Place(index) < Len(children)
          PROVE  answer'.kind = "name" /\ answer'.value = FieldOf[children[Place(index) + 1]]
      BY <1>1, <1>2, <2>2, <2>3, <2>4, <3>1
    <3>2. ASSUME index >= 0, Place(index) >= Len(children)
          PROVE  IF Place(index) < ChildCount(n) THEN answer'.kind = "name" /\ answer'.value = 0
                 ELSE answer'.kind = "IndexError"
      BY <1>1, <2>2, <2>3, <2>4, <3>2
    <3>. QED  BY <1>1, <1>2, <2>1, <2>3, <2>5, <3>1, <3>2 DEF IndexedChildren, NamedChildren, Place
  <2>. QED  BY <2>1, <2>6 DEF IndexedAnswer, IndexedMethods
<1>3. CASE FieldNameForChild(n, index)
  <2>1. Answers("field_name_for_child", tree[n])
    BY <1>3 DEF FieldNameForChild
  <2>. QED  BY <1>1, <1>2, <2>1 DEF AnswerInv
<1>4. CASE FieldNameForNamedChild(n, index)
  <2>1. Answers("field_name_for_named_child", NamedChildren(n))
    BY <1>4 DEF FieldNameForNamedChild
  <2>. QED  BY <1>1, <1>2, <2>1 DEF AnswerInv
<1>. QED  BY <1>3, <1>4

LEMMA AnswerStepInv == WalkInv /\ AnswerInv /\ [Next]_vars => AnswerInv'
<1>. SUFFICES ASSUME WalkInv, AnswerInv, [Next]_vars  PROVE  AnswerInv'
  OBVIOUS
<1>1. CASE FillLast \/ TooManyNamed \/ ReturnNamed \/ FieldLast
  BY <1>1, FillLastAnswer, TooManyNamedAnswer, ReturnNamedAnswer, FieldLastAnswer
<1>2. CASE FillNext \/ KeepNamed \/ SkipUnnamed \/ ReadNoNode \/ FieldNext
  <2>1. UNCHANGED <<answer, tree, edited>>
    BY <1>2 DEF FillNext, KeepNamed, SkipUnnamed, ReadNoNode, FieldNext
  <2>. QED  BY <2>1, SameAnswer
<1>3. ASSUME NEW n \in Nodes, Children(n)  PROVE  AnswerInv'
  <2>1. PICK m \in {"children", "named_children"} :
          CachedChildren(n, m) \/ NoChildren(n, m) \/ WalkChildren(n, m)
    BY <1>3 DEF Children
  <2>2. CASE WalkChildren(n, m)
    BY <2>2 DEF WalkChildren, Begin, AnswerInv
  <2>. QED  BY <2>1, <2>2, CachedChildrenAnswer, NoChildrenAnswer
<1>4. ASSUME NEW n \in Nodes, Call(n), ~Children(n)  PROVE  AnswerInv'
  BY <1>4, NoFieldAnswer, ByFieldAnswer, ChildAnswer, FieldNameAnswer DEF Call
<1>5. ASSUME NEW n \in Nodes, EditList(n)  PROVE  AnswerInv'
  BY <1>5 DEF EditList, AnswerInv
<1>6. CASE UNCHANGED vars
  BY <1>6, SameAnswer DEF vars
<1>. QED  BY <1>1, <1>2, <1>3, <1>4, <1>5, <1>6 DEF Next, Loop

THEOREM AnswerInvariant == Spec => []AnswerInv
<1>1. Init => AnswerInv
  BY DEF Init, AnswerInv
<1>. QED  BY <1>1, AnswerStepInv, WalkInvariant, PTL DEF Spec

(* Node.children and Node.named_children are complete and in order for      *)
(* every node whose list the program has not changed, whatever was called   *)
(* before on other nodes with the same cursor (node_get_children,           *)
(* node_get_named_children).                                                *)
THEOREM ChildrenAreComplete == Spec => []ChildrenComplete
<1>1. AnswerInv => ChildrenComplete
  BY DEF AnswerInv, ChildrenAnswer, NamedAnswer, FieldAnswer, IndexedAnswer, IndexedMethods,
         NoAnswer, ChildrenComplete, Answered
<1>. QED  BY <1>1, AnswerInvariant, PTL

(* children_by_field_id() returns all the children with the field, in       *)
(* order, also after the program has changed the lists                      *)
(* (node_children_by_field_id_internal).                                    *)
THEOREM FieldsAreComplete == Spec => []FieldComplete
<1>1. AnswerInv => FieldComplete
  BY DEF AnswerInv, ChildrenAnswer, NamedAnswer, FieldAnswer, IndexedAnswer, IndexedMethods,
         NoAnswer, FieldComplete, Answered
<1>. QED  BY <1>1, AnswerInvariant, PTL

(* The methods that take an index agree with the lists for each index,      *)
(* also those that uint32_t cannot hold, which mean what their low bits do  *)
(* (node_child, node_named_child, node_field_name_for_child,                *)
(* node_field_name_for_named_child).                                        *)
THEOREM IndexesAgree == Spec => []IndexedChildren
<1>1. AnswerInv => IndexedChildren
  BY DEF AnswerInv, ChildrenAnswer, NamedAnswer, FieldAnswer, IndexedAnswer, NoAnswer,
         IndexedChildren, IndexedMethods
<1>. QED  BY <1>1, AnswerInvariant, PTL
=============================================================================
