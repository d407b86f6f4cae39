-------------------------- MODULE OwnershipProofs --------------------------
(***************************************************************************)
(* Proofs about Ownership, for every value of its constants: any number of *)
(* trees, nodes, cursors and lists, any syntax tree.  No use that the      *)
(* methods allow is excluded: cursors may be reset into other trees, and a *)
(* copied cursor's cache may hold anything.  What the theorems say holds   *)
(* until undefined behaviour happens (Fault), and in that state too.       *)
(***************************************************************************)
EXTENDS Ownership, FiniteSetTheorems, WellFoundedInduction, TLAPS

-----------------------------------------------------------------------------
(* The inductive invariant.  Pointing(x) holds the objects that refer to x: *)
(* RefcountExact, extended to objects that are not allocated.  Their counts *)
(* are zero, so nothing refers to them and a live object refers only to live*)
(* ones: this is what makes the counts inductive.                           *)

Pointees(y) == IF y \in live THEN Referents(y) ELSE {}
Pointing(x) == {y \in Objects : x \in Pointees(y)}

NodeType == [tree : TreeIds \cup {NULL}, at : Places, kids : ListIds \cup {NULL}]
CursorType == [tree : TreeIds \cup {NULL}, at : Places,
               top : Positions \cup {NULL}, node : NodeIds \cup {NULL, Garbage}]

OwnersSet ==
  /\ \A n \in NodeIds : n \in live => node[n].tree \in TreeIds /\ node[n].at.pos \in Positions
  /\ \A c \in CursorIds : c \in live => /\ cursor[c].tree \in TreeIds
                                        /\ cursor[c].at.pos \in Positions
                                        /\ cursor[c].top \in Positions

FieldTypes ==
  /\ live \subseteq Objects /\ IsFiniteSet(live)
  /\ held \in [Objects -> 0..MaxHeld]
  /\ source \in [TreeIds -> SourceIds \cup {NULL}]
  /\ node \in [NodeIds -> NodeType]
  /\ cursor \in [CursorIds -> CursorType]
  /\ items \in [ListIds -> SUBSET NodeIds]
  /\ OwnersSet

Counted == \A x \in Objects : rc[x] = held[x] + Cardinality(Pointing(x))
DeadCountZero == \A x \in Objects : x \notin live => rc[x] = 0

LifeInv == FieldTypes /\ rc \in [Objects -> Int] /\ Counted /\ DeadCountZero

-----------------------------------------------------------------------------
(* What refers to what.                                                     *)

LEMMA Disjoint ==
  /\ \A x \in TreeIds : x \notin NodeIds /\ x \notin CursorIds /\ x \notin ListIds /\ x \notin SourceIds
  /\ \A x \in NodeIds : x \notin TreeIds /\ x \notin CursorIds /\ x \notin ListIds /\ x \notin SourceIds
  /\ \A x \in CursorIds : x \notin TreeIds /\ x \notin NodeIds /\ x \notin ListIds /\ x \notin SourceIds
  /\ \A x \in ListIds : x \notin TreeIds /\ x \notin NodeIds /\ x \notin CursorIds /\ x \notin SourceIds
  /\ \A x \in SourceIds : x \notin TreeIds /\ x \notin NodeIds /\ x \notin CursorIds /\ x \notin ListIds
  /\ \A x \in Objects : x \in TreeIds \/ x \in NodeIds \/ x \in CursorIds \/ x \in ListIds \/ x \in SourceIds
  /\ \A x \in Objects : x # NULL /\ x # Garbage
BY OwnershipAssumption DEF Objects

LEMMA ReferentsOf ==
  ASSUME NEW x
  PROVE  /\ x \in TreeIds => Referents(x) = Objs({source[x]})
         /\ x \in NodeIds => Referents(x) = Objs({node[x].kids, node[x].tree})
         /\ x \in CursorIds => Referents(x) = Objs({cursor[x].node, cursor[x].tree})
         /\ x \in ListIds => Referents(x) = items[x]
         /\ x \in SourceIds => Referents(x) = {}
BY Disjoint DEF Referents

LEMMA ReferentsNext ==
  ASSUME NEW x
  PROVE  /\ x \in TreeIds => Referents(x)' = Objs({source'[x]})
         /\ x \in NodeIds => Referents(x)' = Objs({node'[x].kids, node'[x].tree})
         /\ x \in CursorIds => Referents(x)' = Objs({cursor'[x].node, cursor'[x].tree})
         /\ x \in ListIds => Referents(x)' = items'[x]
         /\ x \in SourceIds => Referents(x)' = {}
BY Disjoint DEF Referents, Objs

LEMMA SameReferents ==
  ASSUME NEW x \in Objects,
         x \in TreeIds => source'[x] = source[x],
         x \in NodeIds => node'[x].kids = node[x].kids /\ node'[x].tree = node[x].tree,
         x \in CursorIds => cursor'[x].node = cursor[x].node /\ cursor'[x].tree = cursor[x].tree,
         x \in ListIds => items'[x] = items[x]
  PROVE  Referents(x)' = Referents(x)
BY Disjoint, ReferentsOf, ReferentsNext

LEMMA PointeesType ==
  ASSUME FieldTypes, NEW y
  PROVE  Pointees(y) \subseteq Objects
<1>1. CASE y \in live
  <2>1. y \in Objects
    BY <1>1 DEF FieldTypes
  <2>2. Referents(y) \subseteq Objects
    BY <2>1, Disjoint, ReferentsOf DEF FieldTypes, Objs, Objects
  <2>3. QED
    BY <2>2 DEF Pointees
<1>2. QED
  BY <1>1 DEF Pointees

LEMMA HoldersPoint ==
  ASSUME FieldTypes, NEW x \in Objects
  PROVE  Holders(x) = Pointing(x)
<1>1. ASSUME NEW y \in live
      PROVE  x \in Referents(y) <=> \/ (y \in TreeIds /\ x = source[y])
                                    \/ (y \in NodeIds /\ x \in {node[y].tree, node[y].kids})
                                    \/ (y \in CursorIds /\ x \in {cursor[y].tree, cursor[y].node})
                                    \/ (y \in ListIds /\ x \in items[y])
  <2>1. y \in Objects
    BY DEF FieldTypes
  <2>2. QED
    BY <2>1, Disjoint, ReferentsOf DEF Objs
<1>2. live \subseteq Objects
  BY DEF FieldTypes
<1>3. QED
  BY <1>1, <1>2 DEF Holders, Pointing, Pointees

LEMMA PointingFinite ==
  ASSUME FieldTypes, NEW x
  PROVE  IsFiniteSet(Pointing(x)) /\ Cardinality(Pointing(x)) \in Nat
<1>1. Pointing(x) \subseteq live
  BY DEF Pointing, Pointees
<1>2. QED
  BY <1>1, FS_Subset, FS_CardinalityType DEF FieldTypes

(* Sets that agree except about y.                                          *)
LEMMA OneMember ==
  ASSUME NEW A, NEW B, NEW y, IsFiniteSet(A), A \ {y} = B \ {y}
  PROVE  /\ IsFiniteSet(B)
         /\ Cardinality(B) = Cardinality(A) - (IF y \in A THEN 1 ELSE 0)
                                            + (IF y \in B THEN 1 ELSE 0)
<1> DEFINE R == A \ {y}
<1>1. /\ IsFiniteSet(R) /\ Cardinality(A) \in Nat /\ Cardinality(R) \in Nat
      /\ Cardinality(R) = Cardinality(A) - (IF y \in A THEN 1 ELSE 0)
  BY FS_RemoveElement, FS_CardinalityType
<1>2. B = IF y \in B THEN R \cup {y} ELSE R
  OBVIOUS
<1>3. IsFiniteSet(R \cup {y}) /\ Cardinality(R \cup {y}) = Cardinality(R) + 1
  BY <1>1, FS_AddElement
<1> HIDE DEF R
<1>4. QED
  BY <1>1, <1>2, <1>3

LEMMA DisjointUnion ==
  ASSUME NEW A, NEW B, NEW C, IsFiniteSet(A), IsFiniteSet(B), A \cap B = {}, C = A \cup B
  PROVE  Cardinality(C) = Cardinality(A) + Cardinality(B)
<1>1. /\ Cardinality(A) \in Nat /\ Cardinality(B) \in Nat /\ Cardinality(A \cap B) = 0
      /\ Cardinality(C) = Cardinality(A) + Cardinality(B) - Cardinality(A \cap B)
  BY FS_Union, FS_CardinalityType, FS_EmptySet
<1>2. QED
  BY <1>1

(* What refers to x changes only at y.                                      *)
LEMMA OnePointer ==
  ASSUME FieldTypes, NEW x, NEW y \in Objects,
         \A z \in Objects \ {y} : x \in Pointees(z)' <=> x \in Pointees(z)
  PROVE  Cardinality(Pointing(x)') = Cardinality(Pointing(x))
                                       - (IF x \in Pointees(y) THEN 1 ELSE 0)
                                       + (IF x \in Pointees(y)' THEN 1 ELSE 0)
<1>1. Pointing(x) \ {y} = Pointing(x)' \ {y}
  BY DEF Pointing
<1>2. /\ y \in Pointing(x) <=> x \in Pointees(y)
      /\ y \in Pointing(x)' <=> x \in Pointees(y)'
  BY DEF Pointing
<1>3. IsFiniteSet(Pointing(x))
  BY PointingFinite
<1>4. QED
  BY <1>1, <1>2, <1>3, OneMember

LEMMA NoPointer ==
  ASSUME NEW x, \A z \in Objects : x \in Pointees(z)' <=> x \in Pointees(z)
  PROVE  Pointing(x)' = Pointing(x)
BY DEF Pointing

(* Nothing refers to an object that is not allocated, or that is about to be*)
(* freed.                                                                   *)
LEMMA NobodyPoints ==
  ASSUME LifeInv, NEW x \in Objects, rc[x] = 0
  PROVE  held[x] = 0 /\ \A y \in Objects : x \notin Pointees(y)
<1>1. IsFiniteSet(Pointing(x)) /\ Cardinality(Pointing(x)) \in Nat
  BY PointingFinite DEF LifeInv
<1>2. held[x] \in Nat
  BY OwnershipAssumption DEF LifeInv, FieldTypes
<1>3. held[x] = 0 /\ Cardinality(Pointing(x)) = 0
  BY <1>1, <1>2 DEF LifeInv, Counted
<1>4. Pointing(x) = {}
  BY <1>1, <1>3, FS_EmptySet
<1>5. QED
  BY <1>3, <1>4 DEF Pointing

LEMMA Closed ==
  ASSUME LifeInv, NEW y
  PROVE  Pointees(y) \subseteq live
<1>1. CASE y \in live
  <2>1. y \in Objects
    BY <1>1 DEF LifeInv, FieldTypes
  <2>2. Pointees(y) \subseteq Objects
    BY PointeesType DEF LifeInv
  <2>3. QED
    BY <2>1, <2>2, NobodyPoints DEF LifeInv, DeadCountZero
<1>2. QED
  BY <1>1 DEF Pointees

LiveClosed == \A y : Pointees(y) \subseteq live

LEMMA ClosedNow == LifeInv => LiveClosed
BY Closed DEF LiveClosed

LEMMA ClosedNext == LifeInv' => LiveClosed'
BY ClosedNow, PTL

-----------------------------------------------------------------------------
(* Steps that count right.                                                  *)

Gain(f, x) == IF x \in DOMAIN f THEN f[x] ELSE 0

LEMMA CountsFollow ==
  ASSUME LifeInv, FieldTypes', NEW f, Refs(f), DOMAIN f \subseteq live',
         \A x \in live : x \notin live' => rc[x] = 0,
         \A x \in Objects : /\ Gain(f, x) \in Int
                            /\ Gain(f, x) = held'[x] - held[x]
                                 + Cardinality(Pointing(x)') - Cardinality(Pointing(x))
  PROVE  LifeInv'
<1>1. rc' = [x \in Objects |-> rc[x] + Gain(f, x)]
  BY DEF Refs, Gain
<1>2. rc' \in [Objects -> Int]
  BY <1>1 DEF LifeInv
<1>3. ASSUME NEW x \in Objects PROVE rc'[x] = held'[x] + Cardinality(Pointing(x)')
  <2>1. /\ Cardinality(Pointing(x)) \in Nat /\ held[x] \in Int
        /\ rc[x] = held[x] + Cardinality(Pointing(x))
    BY PointingFinite, OwnershipAssumption DEF LifeInv, FieldTypes, Counted
  <2>2. Cardinality(Pointing(x)') \in Nat /\ held'[x] \in Int
    <3>1. live' \subseteq Objects /\ IsFiniteSet(live') /\ held' \in [Objects -> 0..MaxHeld]
      BY DEF FieldTypes
    <3>2. Pointing(x)' \subseteq live'
      BY DEF Pointing, Pointees
    <3>3. QED
      BY <3>1, <3>2, FS_Subset, FS_CardinalityType, OwnershipAssumption
  <2>3. rc'[x] = rc[x] + Gain(f, x)
    BY <1>1
  <2>4. QED
    BY <2>1, <2>2, <2>3
<1>4. Counted'
  BY <1>3 DEF Counted
<1>5. ASSUME NEW x \in Objects, x \notin live' PROVE rc'[x] = 0
  <2>1. Gain(f, x) = 0
    BY <1>5 DEF Gain
  <2>2. rc[x] = 0
    BY <1>5 DEF LifeInv, DeadCountZero
  <2>3. QED
    BY <1>1, <2>1, <2>2
<1>6. DeadCountZero'
  BY <1>5 DEF DeadCountZero
<1>7. QED
  BY <1>2, <1>4, <1>6 DEF LifeInv

(* Only y changes what it refers to.                                        *)
LEMMA OneChange ==
  ASSUME LifeInv, FieldTypes', NEW y \in Objects,
         \A z \in Objects \ {y} : Pointees(z)' = Pointees(z),
         NEW f, Refs(f), DOMAIN f \subseteq live',
         \A x \in live : x \notin live' => rc[x] = 0,
         \A x \in Objects : /\ Gain(f, x) \in Int
                            /\ Gain(f, x) = held'[x] - held[x]
                                 - (IF x \in Pointees(y) THEN 1 ELSE 0)
                                 + (IF x \in Pointees(y)' THEN 1 ELSE 0)
  PROVE  LifeInv'
<1>1. ASSUME NEW x \in Objects
      PROVE  Gain(f, x) = held'[x] - held[x]
                            + Cardinality(Pointing(x)') - Cardinality(Pointing(x))
  <2>1. Cardinality(Pointing(x)') = Cardinality(Pointing(x))
                                       - (IF x \in Pointees(y) THEN 1 ELSE 0)
                                       + (IF x \in Pointees(y)' THEN 1 ELSE 0)
    BY OnePointer DEF LifeInv
  <2>2. Cardinality(Pointing(x)) \in Nat /\ held[x] \in Int /\ held'[x] \in Int
    BY PointingFinite, OwnershipAssumption DEF LifeInv, FieldTypes
  <2>3. QED
    BY <2>1, <2>2
<1>2. QED
  BY <1>1, CountsFollow

(* The program is given a new object that refers to the objects of S.       *)
LEMMA Newborn ==
  ASSUME LifeInv, FieldTypes', NEW y \in Objects, NEW S \in SUBSET live,
         New({y}), Give(y), Refs(One({y} \cup S)),
         Referents(y)' = S, \A z \in Objects \ {y} : Referents(z)' = Referents(z)
  PROVE  LifeInv'
<1>1. y \notin live /\ live' = live \cup {y}
  BY DEF New
<1>2. \A x \in Objects : held'[x] - held[x] = IF x = y THEN 1 ELSE 0
  BY OwnershipAssumption DEF Give, LifeInv, FieldTypes
<1>3. Pointees(y) = {} /\ Pointees(y)' = S
  BY <1>1 DEF Pointees
<1>4. \A z \in Objects \ {y} : Pointees(z)' = Pointees(z)
  BY <1>1 DEF Pointees
<1>5. ASSUME NEW x \in Objects
      PROVE  /\ Gain(One({y} \cup S), x) \in Int
             /\ Gain(One({y} \cup S), x) = held'[x] - held[x]
                                 - (IF x \in Pointees(y) THEN 1 ELSE 0)
                                 + (IF x \in Pointees(y)' THEN 1 ELSE 0)
  <2>1. Gain(One({y} \cup S), x) = IF x \in {y} \cup S THEN 1 ELSE 0
    BY DEF Gain, One
  <2>2. y \notin S
    BY <1>1
  <2>3. QED
    BY <1>2, <1>3, <2>1, <2>2
<1>6. DOMAIN One({y} \cup S) \subseteq live'
  BY <1>1 DEF One
<1>7. \A x \in live : x \in live'
  BY <1>1
<1>8. QED
  BY <1>4, <1>5, <1>6, <1>7, OneChange

(* The program is given one more reference to a live object.                *)
LEMMA OneMoreHeld ==
  ASSUME LifeInv, NEW y \in live, Give(y), Refs(One({y})),
         UNCHANGED <<live, source, node, cursor, items>>
  PROVE  LifeInv'
<1>1. y \in Objects
  BY DEF LifeInv, FieldTypes
<1>2. \A x \in Objects : held'[x] - held[x] = IF x = y THEN 1 ELSE 0
  BY <1>1, OwnershipAssumption DEF Give, LifeInv, FieldTypes
<1>3. FieldTypes'
  <2>1. held' \in [Objects -> 0..MaxHeld]
    BY <1>1, OwnershipAssumption DEF Give, LifeInv, FieldTypes
  <2>2. QED
    BY <2>1 DEF LifeInv, FieldTypes, OwnersSet
<1>4. \A z \in Objects : Pointees(z)' = Pointees(z)
  BY DEF Pointees, Referents, Objs
<1>5. ASSUME NEW x \in Objects
      PROVE  /\ Gain(One({y}), x) \in Int
             /\ Gain(One({y}), x) = held'[x] - held[x]
                                 - (IF x \in Pointees(y) THEN 1 ELSE 0)
                                 + (IF x \in Pointees(y)' THEN 1 ELSE 0)
  <2>1. Gain(One({y}), x) = IF x = y THEN 1 ELSE 0
    BY DEF Gain, One
  <2>2. QED
    BY <1>1, <1>2, <1>4, <2>1
<1>6. DOMAIN One({y}) \subseteq live'
  BY DEF One
<1>7. QED
  BY <1>1, <1>3, <1>4, <1>5, <1>6, OneChange

(* An object gives up its references to the objects of S.                   *)
LEMMA FewerReferents ==
  ASSUME LifeInv, FieldTypes', NEW y \in Objects, NEW S, S \subseteq Pointees(y),
         Refs(Minus(S)), UNCHANGED held,
         Pointees(y)' = Pointees(y) \ S,
         \A z \in Objects \ {y} : Pointees(z)' = Pointees(z),
         S \subseteq live', \A x \in live : x \notin live' => rc[x] = 0
  PROVE  LifeInv'
<1>1. ASSUME NEW x \in Objects
      PROVE  /\ Gain(Minus(S), x) \in Int
             /\ Gain(Minus(S), x) = held'[x] - held[x]
                                 - (IF x \in Pointees(y) THEN 1 ELSE 0)
                                 + (IF x \in Pointees(y)' THEN 1 ELSE 0)
  <2>1. Gain(Minus(S), x) = IF x \in S THEN -1 ELSE 0
    BY DEF Gain, Minus
  <2>2. held'[x] - held[x] = 0
    BY OwnershipAssumption DEF LifeInv, FieldTypes
  <2>3. QED
    BY <2>1, <2>2
<1>2. DOMAIN Minus(S) \subseteq live'
  BY DEF Minus
<1>3. QED
  BY <1>1, <1>2, OneChange

-----------------------------------------------------------------------------
(* One lemma for each action.                                               *)

LEMMA GiveType ==
  ASSUME LifeInv, NEW y \in Objects, Give(y)
  PROVE  held' \in [Objects -> 0..MaxHeld]
BY OwnershipAssumption DEF Give, LifeInv, FieldTypes

(* A method can be called of a live object, whose fields are set.           *)
LEMMA CallableTree ==
  ASSUME LifeInv, NEW t \in TreeIds, Reachable(t)
  PROVE  t \in live /\ t \in Objects /\ source[t] \in (live \cap SourceIds) \cup {NULL}
<1>1. t \in live /\ t \in Objects
  BY DEF Reachable, LifeInv, FieldTypes
<1>2. Pointees(t) = Objs({source[t]}) /\ Pointees(t) \subseteq live
  BY <1>1, ReferentsOf, Closed DEF Pointees
<1>3. source[t] \in SourceIds \cup {NULL}
  BY DEF LifeInv, FieldTypes
<1>4. QED
  BY <1>1, <1>2, <1>3 DEF Objs, Objects

LEMMA LiveNode ==
  ASSUME LifeInv, NEW n \in NodeIds, n \in live
  PROVE  /\ n \in Objects /\ node[n] \in NodeType
         /\ node[n].tree \in TreeIds \cap live /\ node[n].at \in Places
         /\ node[n].at.pos \in Positions
         /\ node[n].kids \in (live \cap ListIds) \cup {NULL}
<1>1. n \in Objects
  BY DEF LifeInv, FieldTypes
<1>2. /\ node[n] \in NodeType /\ node[n].tree \in TreeIds /\ node[n].at.pos \in Positions
  BY DEF LifeInv, FieldTypes, OwnersSet
<1>3. Pointees(n) = Objs({node[n].kids, node[n].tree}) /\ Pointees(n) \subseteq live
  BY ReferentsOf, Closed DEF Pointees
<1>4. node[n].at \in Places /\ node[n].kids \in ListIds \cup {NULL}
  BY <1>2 DEF NodeType
<1>5. QED
  BY <1>1, <1>2, <1>3, <1>4 DEF Objs, Objects

LEMMA LiveCursor ==
  ASSUME LifeInv, NEW c \in CursorIds, c \in live
  PROVE  /\ c \in Objects /\ cursor[c] \in CursorType
         /\ cursor[c].tree \in TreeIds \cap live /\ cursor[c].at \in Places
         /\ cursor[c].at.pos \in Positions /\ cursor[c].top \in Positions
         /\ cursor[c].node \in (live \cap NodeIds) \cup {NULL, Garbage}
<1>1. c \in Objects
  BY DEF LifeInv, FieldTypes
<1>2. /\ cursor[c] \in CursorType /\ cursor[c].tree \in TreeIds
      /\ cursor[c].at.pos \in Positions /\ cursor[c].top \in Positions
  BY DEF LifeInv, FieldTypes, OwnersSet
<1>3. Pointees(c) = Objs({cursor[c].node, cursor[c].tree}) /\ Pointees(c) \subseteq live
  BY ReferentsOf, Closed DEF Pointees
<1>4. cursor[c].at \in Places /\ cursor[c].node \in NodeIds \cup {NULL, Garbage}
  BY <1>2 DEF CursorType
<1>5. QED
  BY <1>1, <1>2, <1>3, <1>4 DEF Objs, Objects

(* Tree *)

(* Both the tree and its source are new.                                    *)
LEMMA NewTreeStep == LifeInv /\ NewTree => LifeInv'
<1> SUFFICES ASSUME LifeInv, NewTree PROVE LifeInv'
  OBVIOUS
<1>1. PICK t \in TreeIds, s \in SourceIds :
        /\ New({t, s}) /\ Refs(One({t, s})) /\ Give(t)
        /\ source' = [source EXCEPT ![t] = s]
        /\ UNCHANGED <<node, cursor, items>>
  BY DEF NewTree
<1>2. /\ t \in Objects /\ s \in Objects /\ t # s
      /\ t \notin live /\ s \notin live /\ live' = live \cup {t, s}
  BY <1>1, Disjoint DEF New, Objects
<1>3. FieldTypes'
  <2>1. source' \in [TreeIds -> SourceIds \cup {NULL}] /\ held' \in [Objects -> 0..MaxHeld]
    BY <1>1, <1>2, GiveType DEF LifeInv, FieldTypes
  <2>2. IsFiniteSet(live') /\ live' \subseteq Objects
    <3>1. live' = (live \cup {t}) \cup {s}
      BY <1>2
    <3>2. IsFiniteSet(live \cup {t})
      BY FS_AddElement DEF LifeInv, FieldTypes
    <3>3. IsFiniteSet(live')
      BY <3>1, <3>2, FS_AddElement
    <3>4. QED
      BY <1>2, <3>3 DEF LifeInv, FieldTypes
  <2>3. OwnersSet'
    BY <1>1, <1>2, Disjoint DEF LifeInv, FieldTypes, OwnersSet
  <2>4. QED
    BY <1>1, <2>1, <2>2, <2>3 DEF LifeInv, FieldTypes
<1>4. Pointees(t) = {} /\ Pointees(t)' = {s}
  <2>1. source'[t] = s
    BY <1>1 DEF LifeInv, FieldTypes
  <2>2. Referents(t)' = Objs({s})
    BY <2>1, ReferentsNext
  <2>3. Objs({s}) = {s}
    BY <1>2 DEF Objs
  <2>4. QED
    BY <1>2, <2>2, <2>3 DEF Pointees
<1>5. ASSUME NEW z \in Objects \ {t} PROVE Pointees(z)' = Pointees(z)
  <2>1. z # s => Referents(z)' = Referents(z)
    BY <1>1, SameReferents DEF LifeInv, FieldTypes
  <2>2. Referents(s)' = {}
    BY ReferentsNext
  <2>3. QED
    BY <1>2, <2>1, <2>2 DEF Pointees
<1>6. ASSUME NEW x \in Objects
      PROVE  /\ Gain(One({t, s}), x) \in Int
             /\ Gain(One({t, s}), x) = held'[x] - held[x]
                                 - (IF x \in Pointees(t) THEN 1 ELSE 0)
                                 + (IF x \in Pointees(t)' THEN 1 ELSE 0)
  <2>1. Gain(One({t, s}), x) = IF x \in {t, s} THEN 1 ELSE 0
    BY DEF Gain, One
  <2>2. held'[x] - held[x] = IF x = t THEN 1 ELSE 0
    BY <1>1, OwnershipAssumption DEF Give, LifeInv, FieldTypes
  <2>3. QED
    BY <1>2, <1>4, <2>1, <2>2
<1>7. DOMAIN One({t, s}) \subseteq live' /\ live \subseteq live'
  BY <1>2 DEF One
<1>8. QED
  BY <1>1, <1>2, <1>3, <1>5, <1>6, <1>7, OneChange

LEMMA CopyTreeStep == LifeInv /\ CopyTree => LifeInv'
<1> SUFFICES ASSUME LifeInv, CopyTree PROVE LifeInv'
  OBVIOUS
<1>1. PICK t \in TreeIds, u \in TreeIds :
        /\ Reachable(t)
        /\ New({u}) /\ Refs(One(Objs({u, source[t]}))) /\ Give(u)
        /\ source' = [source EXCEPT ![u] = source[t]]
        /\ UNCHANGED <<node, cursor, items>>
  BY DEF CopyTree
<1> DEFINE S == Objs({source[t]})
<1>2. /\ source[t] \in (live \cap SourceIds) \cup {NULL} /\ u \in Objects
      /\ u \notin live /\ live' = live \cup {u}
  BY <1>1, CallableTree DEF New, Objects
<1>3. S \in SUBSET live /\ Objs({u, source[t]}) = {u} \cup S
  BY <1>2, Disjoint DEF Objs
<1>4. FieldTypes'
  <2>1. source' \in [TreeIds -> SourceIds \cup {NULL}] /\ held' \in [Objects -> 0..MaxHeld]
    BY <1>1, <1>2, GiveType DEF LifeInv, FieldTypes
  <2>2. IsFiniteSet(live') /\ live' \subseteq Objects
    BY <1>2, FS_AddElement DEF LifeInv, FieldTypes
  <2>3. OwnersSet'
    BY <1>1, <1>2, Disjoint DEF LifeInv, FieldTypes, OwnersSet
  <2>4. QED
    BY <1>1, <2>1, <2>2, <2>3 DEF LifeInv, FieldTypes
<1>5. Referents(u)' = S
  <2>1. source'[u] = source[t]
    BY <1>1 DEF LifeInv, FieldTypes
  <2>2. QED
    BY <2>1, ReferentsNext
<1>6. \A z \in Objects \ {u} : Referents(z)' = Referents(z)
  BY <1>1, SameReferents DEF LifeInv, FieldTypes
<1> HIDE DEF S
<1>7. QED
  BY <1>1, <1>2, <1>3, <1>4, <1>5, <1>6, Newborn

LEMMA EditTreeStep == LifeInv /\ EditTree => LifeInv'
<1> SUFFICES ASSUME LifeInv, EditTree PROVE LifeInv'
  OBVIOUS
<1>1. PICK t \in TreeIds :
        /\ Reachable(t)
        /\ Refs(Minus(Objs({source[t]})))
        /\ source' = [source EXCEPT ![t] = NULL]
        /\ UNCHANGED <<live, held, node, cursor, items>>
  BY DEF EditTree
<1> DEFINE S == Objs({source[t]})
<1>2. t \in Objects /\ t \in live /\ source[t] \in (live \cap SourceIds) \cup {NULL}
  BY <1>1, CallableTree
<1>3. FieldTypes'
  BY <1>1 DEF LifeInv, FieldTypes, OwnersSet
<1>4. Pointees(t) = S /\ Pointees(t)' = {} /\ S \subseteq live
  <2>1. source'[t] = NULL
    BY <1>1 DEF LifeInv, FieldTypes
  <2>2. Objs({NULL}) = {}
    BY Disjoint DEF Objs
  <2>3. Referents(t)' = {} /\ Referents(t) = S
    BY <2>1, <2>2, ReferentsOf, ReferentsNext
  <2>4. S \subseteq live
    BY <1>2, Disjoint DEF Objs
  <2>5. QED
    BY <1>1, <1>2, <2>3, <2>4 DEF Pointees
<1>5. \A z \in Objects \ {t} : Pointees(z)' = Pointees(z)
  BY <1>1, SameReferents DEF LifeInv, FieldTypes, Pointees
<1> HIDE DEF S
<1>6. QED
  BY <1>1, <1>2, <1>3, <1>4, <1>5, FewerReferents DEF S

(* Node                                                                     *)

(* A new node of a live tree: node_new_internal() from any method.          *)
LEMMA NewNode ==
  ASSUME LifeInv, NEW n \in NodeIds, NEW t \in TreeIds \cap live, NEW place \in Places,
         place.pos \in Positions, NodeNew(n, t, place), Give(n),
         UNCHANGED <<source, cursor, items>>
  PROVE  LifeInv'
<1> DEFINE new == [tree |-> t, at |-> place, kids |-> NULL]
<1>1. /\ n \in Objects /\ n \notin live /\ live' = live \cup {n} /\ t # n
      /\ New({n}) /\ Refs(One({n, t})) /\ node' = [node EXCEPT ![n] = new]
  BY DEF NodeNew, New, Objects
<1>2. node'[n] = new /\ \A m \in NodeIds \ {n} : node'[m] = node[m]
  BY <1>1 DEF LifeInv, FieldTypes
<1>3. FieldTypes'
  <2>1. new \in NodeType
    BY DEF NodeType
  <2>2. node' \in [NodeIds -> NodeType] /\ held' \in [Objects -> 0..MaxHeld]
    BY <1>1, <2>1, GiveType DEF LifeInv, FieldTypes
  <2>3. IsFiniteSet(live') /\ live' \subseteq Objects
    BY <1>1, FS_AddElement DEF LifeInv, FieldTypes
  <2>4. OwnersSet'
    BY <1>1, <1>2, Disjoint DEF LifeInv, FieldTypes, OwnersSet
  <2>5. QED
    BY <2>2, <2>3, <2>4 DEF LifeInv, FieldTypes
<1>4. Referents(n)' = {t}
  <2>1. node'[n].kids = NULL /\ node'[n].tree = t
    BY <1>2
  <2>2. Objs({NULL, t}) = {t}
    BY Disjoint DEF Objs, Objects
  <2>3. QED
    BY <2>1, <2>2, ReferentsNext
<1>5. \A z \in Objects \ {n} : Referents(z)' = Referents(z)
  BY <1>2, SameReferents
<1>6. {n, t} = {n} \cup {t} /\ {t} \in SUBSET live
  OBVIOUS
<1> HIDE DEF new
<1>7. QED
  BY <1>1, <1>3, <1>4, <1>5, <1>6, Newborn

LEMMA RootNodeStep == LifeInv /\ RootNode => LifeInv'
<1> SUFFICES ASSUME LifeInv, RootNode PROVE LifeInv'
  OBVIOUS
<1>1. PICK t \in TreeIds, n \in NodeIds :
        /\ Reachable(t)
        /\ NodeNew(n, t, Root(t)) /\ Give(n)
        /\ UNCHANGED <<source, cursor, items>>
  BY DEF RootNode
<1>2. Root(t) \in Places /\ Root(t).pos \in Positions /\ t \in TreeIds \cap live
  BY <1>1, OwnershipAssumption DEF Root, Places, Reachable
<1>3. QED
  BY <1>1, <1>2, NewNode

LEMMA RelativeStep ==
  ASSUME LifeInv, NEW n \in NodeIds, NodeReady(n), NEW p \in Positions, Relative(n, p)
  PROVE  LifeInv'
<1>1. PICK m \in NodeIds :
        /\ NodeNew(m, node[n].tree, [node[n].at EXCEPT !.pos = p]) /\ Give(m)
        /\ UNCHANGED <<source, cursor, items>>
  BY DEF Relative
<1> DEFINE place == [node[n].at EXCEPT !.pos = p]
<1>2. node[n].tree \in TreeIds \cap live /\ node[n].at \in Places
  BY LiveNode DEF NodeReady, Reachable
<1>3. place \in Places /\ place.pos \in Positions
  BY <1>2 DEF Places
<1> HIDE DEF place
<1>4. QED
  BY <1>1, <1>2, <1>3, NewNode DEF place

LEMMA NodeStep == LifeInv /\ (Child \/ Descendant \/ Family) => LifeInv'
<1>1. ASSUME LifeInv, Child PROVE LifeInv'
  <2>1. PICK n \in NodeIds : NodeReady(n) /\ \E p \in Kids[node[n].at.pos] : Relative(n, p)
    BY <1>1 DEF Child
  <2>2. Kids[node[n].at.pos] \subseteq Positions
    BY <1>1, <2>1, LiveNode, OwnershipAssumption DEF NodeReady, Reachable
  <2>3. QED
    BY <1>1, <2>1, <2>2, RelativeStep
<1>2. ASSUME LifeInv, Descendant PROVE LifeInv'
  <2>1. PICK n \in NodeIds : NodeReady(n) /\ \E p \in Under[node[n].at.pos] : Relative(n, p)
    BY <1>2 DEF Descendant
  <2>2. Under[node[n].at.pos] \subseteq Positions
    BY <1>2, <2>1, LiveNode, OwnershipAssumption DEF NodeReady, Reachable
  <2>3. QED
    BY <1>2, <2>1, <2>2, RelativeStep
<1>3. ASSUME LifeInv, Family PROVE LifeInv'
  <2> DEFINE above(n) == Parents(node[n].at.pos)
  <2>1. PICK n \in NodeIds : /\ NodeReady(n)
                             /\ \E p \in above(n) \cup UNION {Kids[q] : q \in above(n)} :
                                  p # node[n].at.pos /\ Relative(n, p)
    BY <1>3 DEF Family
  <2>2. above(n) \subseteq Positions
    BY DEF Parents
  <2>3. \A q \in above(n) : Kids[q] \subseteq Positions
    BY <2>2, OwnershipAssumption
  <2>4. UNION {Kids[q] : q \in above(n)} \subseteq Positions
    BY <2>3
  <2> HIDE DEF above
  <2>5. QED
    BY <1>3, <2>1, <2>2, <2>4, RelativeStep
<1>4. QED
  BY <1>1, <1>2, <1>3

(* Cursors                                                                  *)

(* A new cursor in a live tree.                                             *)
LEMMA NewCursorOf ==
  ASSUME LifeInv, NEW c \in CursorIds, NEW t \in TreeIds \cap live, NEW new \in CursorType,
         new.tree = t, new.at.pos \in Positions, new.top \in Positions,
         new.node \in {NULL, Garbage},
         New({c}), Refs(One({c, t})), Give(c), cursor' = [cursor EXCEPT ![c] = new],
         UNCHANGED <<source, node, items>>
  PROVE  LifeInv'
<1>1. c \in Objects /\ c \notin live /\ live' = live \cup {c} /\ t # c
  BY DEF New, Objects
<1>2. cursor'[c] = new /\ \A d \in CursorIds \ {c} : cursor'[d] = cursor[d]
  BY <1>1 DEF LifeInv, FieldTypes
<1>3. FieldTypes'
  <2>1. cursor' \in [CursorIds -> CursorType] /\ held' \in [Objects -> 0..MaxHeld]
    BY <1>1, GiveType DEF LifeInv, FieldTypes
  <2>2. IsFiniteSet(live') /\ live' \subseteq Objects
    BY <1>1, FS_AddElement DEF LifeInv, FieldTypes
  <2>3. OwnersSet'
    BY <1>1, <1>2, Disjoint DEF LifeInv, FieldTypes, OwnersSet
  <2>4. QED
    BY <2>1, <2>2, <2>3 DEF LifeInv, FieldTypes
<1>4. Referents(c)' = {t}
  <2>1. Objs({new.node, t}) = {t}
    BY Disjoint DEF Objs, Objects
  <2>2. QED
    BY <1>2, <2>1, ReferentsNext
<1>5. \A z \in Objects \ {c} : Referents(z)' = Referents(z)
  BY <1>2, SameReferents
<1>6. {c, t} = {c} \cup {t} /\ {t} \in SUBSET live
  OBVIOUS
<1>7. QED
  BY <1>1, <1>3, <1>4, <1>5, <1>6, Newborn

LEMMA WalkStep ==
  ASSUME LifeInv, NEW t \in TreeIds \cap live, NEW place \in Places, place.pos \in Positions,
         NEW x, NewCursor(x, t, place)
  PROVE  LifeInv'
<1> DEFINE new == [tree |-> t, at |-> place, top |-> place.pos, node |-> NULL]
<1>1. PICK c \in CursorIds :
        /\ New({c}) /\ Refs(One({c, t})) /\ Give(c)
        /\ cursor' = [cursor EXCEPT ![c] = new]
        /\ UNCHANGED <<source, node, items>>
  BY DEF NewCursor
<1>2. new \in CursorType /\ new.tree = t /\ new.at.pos \in Positions /\ new.top \in Positions
      /\ new.node \in {NULL, Garbage}
  BY DEF CursorType
<1> HIDE DEF new
<1>3. QED
  BY <1>1, <1>2, NewCursorOf

LEMMA TreeWalkStep == LifeInv /\ TreeWalk => LifeInv'
<1> SUFFICES ASSUME LifeInv, NEW t \in TreeIds, Reachable(t), NewCursor(t, t, Root(t))
             PROVE  LifeInv'
  BY DEF TreeWalk
<1>1. Root(t) \in Places /\ Root(t).pos \in Positions /\ t \in TreeIds \cap live
  BY OwnershipAssumption DEF Root, Places, Reachable
<1>2. QED
  BY <1>1, WalkStep

LEMMA NodeWalkStep == LifeInv /\ NodeWalk => LifeInv'
<1> SUFFICES ASSUME LifeInv, NEW n \in NodeIds, NodeReady(n),
                    NewCursor(n, node[n].tree, node[n].at)
             PROVE  LifeInv'
  BY DEF NodeWalk
<1>1. node[n].tree \in TreeIds \cap live /\ node[n].at \in Places /\ node[n].at.pos \in Positions
  BY LiveNode DEF NodeReady, Reachable
<1>2. QED
  BY <1>1, WalkStep

LEMMA CopyCursorStep == LifeInv /\ CopyCursor => LifeInv'
<1> SUFFICES ASSUME LifeInv, CopyCursor PROVE LifeInv'
  OBVIOUS
<1>1. PICK c \in CursorIds, d \in CursorIds :
        /\ Reachable(c)
        /\ New({d}) /\ Refs(One({d, cursor[c].tree})) /\ Give(d)
        /\ cursor' = [cursor EXCEPT ![d] = [cursor[c] EXCEPT !.node = Garbage]]
        /\ UNCHANGED <<source, node, items>>
  BY DEF CopyCursor, CursorReady
<1> DEFINE new == [cursor[c] EXCEPT !.node = Garbage]
<1>3. /\ cursor[c] \in CursorType /\ cursor[c].tree \in TreeIds \cap live
      /\ cursor[c].at.pos \in Positions /\ cursor[c].top \in Positions
  BY <1>1, LiveCursor DEF Reachable
<1>4. /\ new \in CursorType /\ new.tree = cursor[c].tree /\ new.at.pos \in Positions
      /\ new.top \in Positions /\ new.node \in {NULL, Garbage}
  BY <1>3 DEF CursorType
<1>5. cursor' = [cursor EXCEPT ![d] = new]
  BY <1>1
<1> HIDE DEF new
<1>6. QED
  BY <1>1, <1>3, <1>4, <1>5, NewCursorOf

(* The cached node is released as it is dropped.                            *)
LEMMA SetPositionStep ==
  ASSUME LifeInv, NEW c \in CursorIds, c \in live, NEW place \in Places, NEW top \in Positions,
         place.pos \in Positions, SetPosition(c, place, top)
  PROVE  LifeInv'
<1> DEFINE S == Objs({cursor[c].node})
<1>1. /\ c \in Objects /\ cursor[c] \in CursorType /\ cursor[c].tree \in TreeIds \cap live
      /\ cursor[c].node \in (live \cap NodeIds) \cup {NULL, Garbage}
  BY LiveCursor
<1>2. /\ Refs(Minus(S)) /\ UNCHANGED <<live, held, source, node, items>>
      /\ cursor' = [cursor EXCEPT ![c].at = place, ![c].top = top, ![c].node = NULL]
  BY DEF SetPosition
<1>3. /\ cursor'[c] = [cursor[c] EXCEPT !.at = place, !.top = top, !.node = NULL]
      /\ \A d \in CursorIds \ {c} : cursor'[d] = cursor[d]
      /\ cursor' \in [CursorIds -> CursorType]
  <2>1. cursor' = [cursor EXCEPT ![c] = [cursor[c] EXCEPT !.at = place, !.top = top, !.node = NULL]]
    BY <1>2
  <2>2. [cursor[c] EXCEPT !.at = place, !.top = top, !.node = NULL] \in CursorType
    BY <1>1 DEF CursorType
  <2>3. QED
    BY <2>1, <2>2 DEF LifeInv, FieldTypes
<1>4. /\ cursor'[c].tree = cursor[c].tree /\ cursor'[c].at = place /\ cursor'[c].top = top
      /\ cursor'[c].node = NULL
  BY <1>1, <1>3 DEF CursorType
<1>5. FieldTypes'
  BY <1>2, <1>3, <1>4 DEF LifeInv, FieldTypes, OwnersSet
<1>6. Pointees(c) = S \cup {cursor[c].tree} /\ Pointees(c)' = {cursor[c].tree}
  <2>1. Referents(c) = S \cup {cursor[c].tree}
    BY <1>1, ReferentsOf, Disjoint DEF Objs, Objects
  <2>2. Referents(c)' = {cursor[c].tree}
    BY <1>1, <1>4, ReferentsNext, Disjoint DEF Objs, Objects
  <2>3. QED
    BY <1>2, <2>1, <2>2 DEF Pointees
<1>7. cursor[c].tree \notin S /\ S \subseteq live
  BY <1>1, Disjoint DEF Objs
<1>8. \A z \in Objects \ {c} : Pointees(z)' = Pointees(z)
  BY <1>2, <1>3, SameReferents DEF Pointees
<1> HIDE DEF S
<1>9. QED
  BY <1>1, <1>2, <1>5, <1>6, <1>7, <1>8, FewerReferents

LEMMA MoveStep == LifeInv /\ Move => LifeInv'
<1> SUFFICES ASSUME LifeInv, NEW c \in CursorIds, Reachable(c), NEW p \in Under[cursor[c].top],
                    SetPosition(c, [cursor[c].at EXCEPT !.pos = p], cursor[c].top)
             PROVE  LifeInv'
  BY DEF Move, CursorReady
<1> DEFINE place == [cursor[c].at EXCEPT !.pos = p]
<1>1. c \in live /\ cursor[c].at \in Places /\ cursor[c].top \in Positions
  BY LiveCursor DEF Reachable
<1>2. p \in Positions
  BY <1>1, OwnershipAssumption
<1>3. place \in Places /\ place.pos \in Positions
  BY <1>1, <1>2 DEF Places
<1> HIDE DEF place
<1>4. QED
  BY <1>1, <1>3, SetPositionStep DEF place

LEMMA ResetStep == LifeInv /\ (Reset \/ ResetTo) => LifeInv'
<1>1. ASSUME LifeInv, NEW c \in CursorIds, NEW n \in NodeIds, Reachable(c), Reachable(n),
             SetPosition(c, node[n].at, node[n].at.pos)
      PROVE  LifeInv'
  <2>1. c \in live /\ node[n].at \in Places /\ node[n].at.pos \in Positions
    BY <1>1, LiveNode DEF Reachable
  <2>2. QED
    BY <1>1, <2>1, SetPositionStep
<1>2. ASSUME LifeInv, NEW c \in CursorIds, NEW d \in CursorIds, Reachable(c), Reachable(d),
             SetPosition(c, cursor[d].at, cursor[d].top)
      PROVE  LifeInv'
  <2>1. /\ c \in live /\ cursor[d].at \in Places /\ cursor[d].at.pos \in Positions
        /\ cursor[d].top \in Positions
    BY <1>2, LiveCursor DEF Reachable
  <2>2. QED
    BY <1>2, <2>1, SetPositionStep
<1>3. QED
  BY <1>1, <1>2 DEF Reset, ResetTo, NodeReady, CursorReady

(* The node is made, and both the program and the cursor refer to it.       *)
LEMMA NewCached ==
  ASSUME LifeInv, NEW c \in CursorIds, Reachable(c), NEW n \in NodeIds,
         cursor[c].node \in {NULL, Garbage},
         New({n}), Give(n),
         Refs([x \in {n, cursor[c].tree} |-> IF x = n THEN 2 ELSE 1]),
         node' = [node EXCEPT ![n] = [tree |-> cursor[c].tree, at |-> cursor[c].at,
                                      kids |-> NULL]],
         cursor' = [cursor EXCEPT ![c].node = n],
         UNCHANGED <<source, items>>
  PROVE  LifeInv'
<1> DEFINE t == cursor[c].tree
           f == [x \in {n, cursor[c].tree} |-> IF x = n THEN 2 ELSE 1]
           new == [tree |-> cursor[c].tree, at |-> cursor[c].at, kids |-> NULL]
<1>1. /\ c \in live /\ c \in Objects /\ cursor[c] \in CursorType /\ t \in TreeIds \cap live
      /\ cursor[c].at \in Places /\ cursor[c].at.pos \in Positions /\ t \in Objects
  BY LiveCursor DEF Reachable, Objects
<1>2. n \in Objects /\ n \notin live /\ live' = live \cup {n} /\ n # t /\ n # c
  BY <1>1 DEF New, Objects
<1>3. node'[n] = new /\ \A m \in NodeIds \ {n} : node'[m] = node[m]
  BY DEF LifeInv, FieldTypes
<1>4. /\ cursor' \in [CursorIds -> CursorType]
      /\ cursor'[c].node = n /\ cursor'[c].tree = t /\ cursor'[c].at = cursor[c].at
      /\ cursor'[c].top = cursor[c].top
      /\ \A d \in CursorIds \ {c} : cursor'[d] = cursor[d]
  <2>1. cursor' = [cursor EXCEPT ![c] = [cursor[c] EXCEPT !.node = n]]
    OBVIOUS
  <2>2. [cursor[c] EXCEPT !.node = n] \in CursorType
    BY <1>1 DEF CursorType
  <2>3. QED
    BY <1>1, <2>1, <2>2 DEF LifeInv, FieldTypes, CursorType
<1>5. FieldTypes'
  <2>1. new \in NodeType
    BY <1>1 DEF NodeType
  <2>2. node' \in [NodeIds -> NodeType] /\ held' \in [Objects -> 0..MaxHeld]
    BY <1>2, <2>1, GiveType DEF LifeInv, FieldTypes
  <2>3. IsFiniteSet(live') /\ live' \subseteq Objects
    BY <1>2, FS_AddElement DEF LifeInv, FieldTypes
  <2>4. OwnersSet'
    BY <1>1, <1>2, <1>3, <1>4, Disjoint DEF LifeInv, FieldTypes, OwnersSet
  <2>5. QED
    BY <1>4, <2>2, <2>3, <2>4 DEF LifeInv, FieldTypes
<1>6. Pointees(n) = {} /\ Pointees(n)' = {t}
  <2>1. node'[n].kids = NULL /\ node'[n].tree = t
    BY <1>3
  <2>2. Referents(n)' = Objs({NULL, t})
    BY <2>1, ReferentsNext
  <2>3. QED
    BY <1>1, <1>2, <2>2, Disjoint DEF Pointees, Objs
<1>7. Pointees(c) = {t} /\ Pointees(c)' = {n, t}
  <2>1. Referents(c) = Objs({cursor[c].node, t}) /\ Referents(c)' = Objs({n, t})
    BY <1>4, ReferentsOf, ReferentsNext
  <2>2. Objs({cursor[c].node, t}) = {t} /\ Objs({n, t}) = {n, t}
    BY <1>1, <1>2, Disjoint DEF Objs
  <2>3. QED
    BY <1>1, <1>2, <2>1, <2>2 DEF Pointees
<1>8. ASSUME NEW z \in Objects, z # n, z # c PROVE Pointees(z)' = Pointees(z)
  <2>1. Referents(z)' = Referents(z)
    BY <1>3, <1>4, <1>8, SameReferents
  <2>2. QED
    BY <1>2, <1>8, <2>1 DEF Pointees
<1>9. ASSUME NEW x \in Objects
      PROVE  /\ Gain(f, x) \in Int
             /\ Gain(f, x) = held'[x] - held[x]
                               + Cardinality(Pointing(x)') - Cardinality(Pointing(x))
  <2>1. Gain(f, x) = IF x = n THEN 2 ELSE IF x = t THEN 1 ELSE 0
    BY DEF Gain
  <2>2. held'[x] - held[x] = IF x = n THEN 1 ELSE 0
    BY <1>2, OwnershipAssumption DEF Give, LifeInv, FieldTypes
  <2>3. Cardinality(Pointing(x)) \in Nat
    BY PointingFinite DEF LifeInv
  <2>4. CASE x = n
    <3>1. \A z \in Objects \ {c} : x \in Pointees(z)' <=> x \in Pointees(z)
      BY <1>2, <1>6, <1>8, <2>4
    <3>2. Cardinality(Pointing(x)') = Cardinality(Pointing(x)) + 1
      BY <1>1, <1>2, <1>7, <2>3, <2>4, <3>1, OnePointer DEF LifeInv
    <3>3. QED
      BY <2>1, <2>2, <2>3, <2>4, <3>2
  <2>5. CASE x = t
    <3>1. \A z \in Objects \ {n} : x \in Pointees(z)' <=> x \in Pointees(z)
      BY <1>7, <1>8, <2>5
    <3>2. Cardinality(Pointing(x)') = Cardinality(Pointing(x)) + 1
      BY <1>2, <1>6, <2>3, <2>5, <3>1, OnePointer DEF LifeInv
    <3>3. QED
      BY <1>2, <2>1, <2>2, <2>3, <2>5, <3>2
  <2>6. CASE x # n /\ x # t
    <3>1. \A z \in Objects : x \in Pointees(z)' <=> x \in Pointees(z)
      BY <1>6, <1>7, <1>8, <2>6
    <3>2. Pointing(x)' = Pointing(x)
      BY <3>1, NoPointer
    <3>3. QED
      BY <2>1, <2>2, <2>3, <2>6, <3>2
  <2>7. QED
    BY <2>4, <2>5, <2>6
<1>10. DOMAIN f \subseteq live' /\ Refs(f) /\ live \subseteq live'
  BY <1>1, <1>2
<1> HIDE DEF f
<1>11. QED
  BY <1>5, <1>9, <1>10, CountsFollow

LEMMA GetNodeStep == LifeInv /\ GetNode => LifeInv'
<1> SUFFICES ASSUME LifeInv, GetNode PROVE LifeInv'
  OBVIOUS
<1>1. PICK c \in CursorIds :
        /\ Reachable(c)
        /\ \/ /\ cursor[c].node \in NodeIds
              /\ Refs(One({cursor[c].node})) /\ Give(cursor[c].node)
              /\ UNCHANGED <<live, node, cursor>>
           \/ \E n \in NodeIds :
                /\ cursor[c].node \in {NULL, Garbage}
                /\ New({n})
                /\ Refs([x \in {n, cursor[c].tree} |-> IF x = n THEN 2 ELSE 1]) /\ Give(n)
                /\ node' = [node EXCEPT ![n] = [tree |-> cursor[c].tree, at |-> cursor[c].at,
                                                kids |-> NULL]]
                /\ cursor' = [cursor EXCEPT ![c].node = n]
        /\ UNCHANGED <<source, items>>
  BY DEF GetNode
<1>2. CASE /\ cursor[c].node \in NodeIds
           /\ Refs(One({cursor[c].node})) /\ Give(cursor[c].node)
           /\ UNCHANGED <<live, node, cursor>>
  <2>1. cursor[c].node \in live
    <3>1. cursor[c].node \in Pointees(c)
      BY <1>1, <1>2, ReferentsOf DEF Reachable, Pointees, Objs, Objects
    <3>2. QED
      BY <3>1, Closed
  <2>2. QED
    BY <1>1, <1>2, <2>1, OneMoreHeld
<1>3. CASE \E n \in NodeIds :
                /\ cursor[c].node \in {NULL, Garbage}
                /\ New({n})
                /\ Refs([x \in {n, cursor[c].tree} |-> IF x = n THEN 2 ELSE 1]) /\ Give(n)
                /\ node' = [node EXCEPT ![n] = [tree |-> cursor[c].tree, at |-> cursor[c].at,
                                                kids |-> NULL]]
                /\ cursor' = [cursor EXCEPT ![c].node = n]
  BY <1>1, <1>3, NewCached
<1>4. QED
  BY <1>1, <1>2, <1>3

LEMMA TakeItemStep == LifeInv /\ TakeItem => LifeInv'
<1> SUFFICES ASSUME LifeInv, NEW l \in ListIds, Reachable(l), NEW n \in items[l],
                    Refs(One({n})), Give(n), UNCHANGED <<live, source, node, cursor, items>>
             PROVE  LifeInv'
  BY DEF TakeItem
<1>1. n \in Pointees(l)
  BY ReferentsOf DEF Reachable, Pointees
<1>2. n \in live
  BY <1>1, Closed
<1>3. QED
  BY <1>2, OneMoreHeld

(* Children lists                                                           *)

(* The list that Node.children makes and keeps: l, of the nodes made.       *)
ListMade(n, l, made) ==
  /\ n \in NodeIds /\ n \in live /\ node[n].kids = NULL
  /\ l \in ListIds /\ l \notin live
  /\ made \subseteq NodeIds /\ made \cap live = {} /\ IsFiniteSet(made)
  /\ live' = live \cup made \cup {l} /\ Give(l)
  /\ Refs([x \in made \cup {l, node[n].tree} |->
             IF x = l THEN 2 ELSE IF x \in made THEN 1 ELSE Cardinality(made)])
  /\ node' \in [NodeIds -> NodeType]
  /\ node'[n] = [node[n] EXCEPT !.kids = l]
  /\ \A m \in made : /\ node'[m].tree = node[n].tree /\ node'[m].kids = NULL
                     /\ node'[m].at.native = node[n].at.native
                     /\ node'[m].at.pos \in Positions
  /\ \A m \in NodeIds : m # n /\ m \notin made => node'[m] = node[m]
  /\ items' = [items EXCEPT ![l] = made]
  /\ Inherit(n, made)
  /\ UNCHANGED <<source, cursor>>

LEMMA ChildrenMade ==
  ASSUME LifeInv, Children
  PROVE  \/ \E l \in live : /\ Refs(One({l})) /\ Give(l)
                           /\ UNCHANGED <<live, source, node, cursor, items, astray>>
         \/ \E n, l, made : ListMade(n, l, made)
<1>1. PICK n \in NodeIds :
    /\ Reachable(n)
    /\ \/ /\ node[n].kids # NULL
          /\ Refs(One({node[n].kids})) /\ Give(node[n].kids)
          /\ UNCHANGED <<live, node, items, astray>>
       \/ /\ node[n].kids = NULL
          /\ \E l \in ListIds, child \in [Kids[node[n].at.pos] -> NodeIds] :
               LET made == {child[p] : p \in DOMAIN child}
               IN  /\ \A p, q \in DOMAIN child : child[p] = child[q] => p = q
                   /\ New(made \cup {l}) /\ Give(l)
                   /\ Refs([x \in made \cup {l, node[n].tree} |->
                              IF x = l THEN 2
                              ELSE IF x \in made THEN 1 ELSE Cardinality(made)])
                   /\ node' = [m \in NodeIds |->
                        IF m = n THEN [node[n] EXCEPT !.kids = l]
                        ELSE IF m \in made
                          THEN LET p == CHOOSE q \in DOMAIN child : child[q] = m
                               IN  [tree |-> node[n].tree, kids |-> NULL,
                                    at |-> [node[n].at EXCEPT !.pos = p]]
                          ELSE node[m]]
                   /\ items' = [items EXCEPT ![l] = made]
                   /\ Inherit(n, made)
    /\ UNCHANGED <<source, cursor>>
  BY DEF Children
<1>2. /\ n \in live /\ n \in Objects /\ node[n] \in NodeType /\ node[n].at \in Places
      /\ node[n].at.pos \in Positions /\ node[n].tree \in TreeIds
      /\ node[n].kids \in (live \cap ListIds) \cup {NULL}
  BY <1>1, LiveNode DEF Reachable
<1>3. CASE node[n].kids # NULL
  BY <1>1, <1>2, <1>3
<1>4. CASE node[n].kids = NULL
  <2> DEFINE K == Kids[node[n].at.pos]
             Made(child) == {child[p] : p \in DOMAIN child}
             Born(child, m) == [tree |-> node[n].tree, kids |-> NULL,
                                at |-> [node[n].at EXCEPT !.pos =
                                          CHOOSE q \in DOMAIN child : child[q] = m]]
  <2>1. PICK l \in ListIds, child \in [K -> NodeIds] :
          /\ New(Made(child) \cup {l}) /\ Give(l)
          /\ Refs([x \in Made(child) \cup {l, node[n].tree} |->
                     IF x = l THEN 2
                     ELSE IF x \in Made(child) THEN 1 ELSE Cardinality(Made(child))])
          /\ node' = [m \in NodeIds |->
               IF m = n THEN [node[n] EXCEPT !.kids = l]
               ELSE IF m \in Made(child) THEN Born(child, m) ELSE node[m]]
          /\ items' = [items EXCEPT ![l] = Made(child)]
          /\ Inherit(n, Made(child))
    BY <1>1, <1>4
  <2> DEFINE made == Made(child)
  <2>2. K \subseteq Positions /\ IsFiniteSet(K) /\ DOMAIN child = K
    BY <1>2, OwnershipAssumption, FS_Subset
  <2>3. made \subseteq NodeIds /\ IsFiniteSet(made)
    <3>1. made \subseteq NodeIds
      BY <2>2
    <3>2. child \in Surjection(K, made)
      BY <2>2 DEF Surjection
    <3>3. QED
      BY <2>2, <3>1, <3>2, FS_Surjection
  <2>4. l \notin live /\ made \cap live = {} /\ live' = live \cup made \cup {l} /\ n \notin made
    BY <1>2, <2>1 DEF New
  <2>5. ASSUME NEW m \in made
        PROVE  /\ Born(child, m) \in NodeType /\ Born(child, m).tree = node[n].tree
               /\ Born(child, m).kids = NULL
               /\ Born(child, m).at.native = node[n].at.native
               /\ Born(child, m).at.pos \in Positions
    <3> DEFINE p == CHOOSE q \in DOMAIN child : child[q] = m
    <3>1. p \in Positions
      BY <2>2, <2>5
    <3>2. [node[n].at EXCEPT !.pos = p] \in Places
      BY <1>2, <3>1 DEF Places
    <3>3. /\ [node[n].at EXCEPT !.pos = p].native = node[n].at.native
          /\ [node[n].at EXCEPT !.pos = p].pos = p
      BY <1>2 DEF Places
    <3> HIDE DEF p
    <3>4. Born(child, m) = [tree |-> node[n].tree, kids |-> NULL, at |-> [node[n].at EXCEPT !.pos = p]]
      BY DEF p
    <3>5. QED
      BY <1>2, <3>1, <3>2, <3>3, <3>4 DEF NodeType
  <2> HIDE DEF Born, Made, K, made
  <2>6. /\ node'[n] = [node[n] EXCEPT !.kids = l]
        /\ \A m \in made : node'[m] = Born(child, m)
        /\ \A m \in NodeIds : m # n /\ m \notin made => node'[m] = node[m]
    BY <2>1, <2>3, <2>4 DEF made
  <2>7. node' \in [NodeIds -> NodeType]
    <3>1. [node[n] EXCEPT !.kids = l] \in NodeType
      BY <1>2 DEF NodeType
    <3>2. ASSUME NEW m \in NodeIds PROVE node'[m] \in NodeType
      BY <2>5, <2>6, <3>1 DEF LifeInv, FieldTypes
    <3>3. node' = [m \in NodeIds |-> node'[m]]
      BY <2>1
    <3>4. QED
      BY <3>2, <3>3
  <2>8. ListMade(n, l, made)
    BY <1>1, <1>2, <1>4, <2>1, <2>3, <2>4, <2>5, <2>6, <2>7 DEF ListMade, made
  <2>9. QED
    BY <2>8
<1>5. QED
  BY <1>3, <1>4

LEMMA ListMadeTypes ==
  ASSUME LifeInv, NEW n, NEW l, NEW made, ListMade(n, l, made)
  PROVE  FieldTypes'
<1>1. held' \in [Objects -> 0..MaxHeld]
  BY GiveType DEF ListMade, Objects
<1>2. IsFiniteSet(live') /\ live' \subseteq Objects
  <2>1. IsFiniteSet(live \cup made)
    BY FS_Union DEF ListMade, LifeInv, FieldTypes
  <2>2. live' = (live \cup made) \cup {l}
    BY DEF ListMade
  <2>3. IsFiniteSet(live')
    BY <2>1, <2>2, FS_AddElement
  <2>4. QED
    BY <2>2, <2>3 DEF ListMade, LifeInv, FieldTypes, Objects
<1>3. items' \in [ListIds -> SUBSET NodeIds]
  BY DEF ListMade, LifeInv, FieldTypes
<1>4. ASSUME NEW m \in NodeIds, m \in live'
      PROVE  node'[m].tree \in TreeIds /\ node'[m].at.pos \in Positions
  <2>1. node[n].tree \in TreeIds /\ node[n].at.pos \in Positions /\ node[n] \in NodeType
    BY LiveNode DEF ListMade
  <2>2. CASE m = n
    <3>1. node'[n].tree = node[n].tree /\ node'[n].at = node[n].at
      BY <2>1 DEF ListMade, NodeType
    <3>2. QED
      BY <2>1, <2>2, <3>1
  <2>3. CASE m \in made
    BY <2>1, <2>3 DEF ListMade
  <2>4. CASE m # n /\ m \notin made
    <3>1. m \in live /\ node'[m] = node[m]
      BY <1>4, <2>4, Disjoint DEF ListMade
    <3>2. QED
      BY <3>1, LiveNode
  <2>5. QED
    BY <2>2, <2>3, <2>4
<1>5. ASSUME NEW c \in CursorIds, c \in live'
      PROVE  c \in live /\ cursor'[c] = cursor[c]
  BY <1>5, Disjoint DEF ListMade
<1>6. OwnersSet'
  BY <1>4, <1>5 DEF OwnersSet, LifeInv, FieldTypes
<1>7. QED
  BY <1>1, <1>2, <1>3, <1>6 DEF ListMade, LifeInv, FieldTypes

(* The node refers to the list, the list to the new nodes and each of these *)
(* to the tree.                                                             *)
LEMMA ListMadePointees ==
  ASSUME LifeInv, NEW n, NEW l, NEW made, ListMade(n, l, made)
  PROVE  LET t == node[n].tree
         IN  /\ t \in TreeIds /\ t \in live
             /\ Pointees(n) = {t} /\ Pointees(n)' = {l, t}
             /\ Pointees(l) = {} /\ Pointees(l)' = made
             /\ \A m \in made : Pointees(m) = {} /\ Pointees(m)' = {t}
             /\ \A z \in Objects : z # n /\ z # l /\ z \notin made => Pointees(z)' = Pointees(z)
<1> DEFINE t == node[n].tree
<1>1. /\ n \in NodeIds /\ n \in live /\ node[n].kids = NULL /\ n \notin made
      /\ l \in ListIds /\ l \notin live /\ made \subseteq NodeIds /\ made \cap live = {}
      /\ live' = live \cup made \cup {l}
  BY DEF ListMade
<1>2. t \in TreeIds /\ t \in live /\ node[n] \in NodeType /\ t \in Objects /\ l \in Objects
  BY <1>1, LiveNode DEF Objects
<1>3. Pointees(n) = {t}
  <2>1. Referents(n) = Objs({NULL, t})
    BY <1>1, ReferentsOf
  <2>2. QED
    BY <1>1, <1>2, <2>1, Disjoint DEF Pointees, Objs
<1>4. Pointees(n)' = {l, t}
  <2>1. node'[n].kids = l /\ node'[n].tree = t
    BY <1>2 DEF ListMade, NodeType
  <2>2. Referents(n)' = Objs({l, t})
    BY <1>1, <2>1, ReferentsNext
  <2>3. QED
    BY <1>1, <1>2, <2>2 DEF Pointees, Objs
<1>5. Pointees(l) = {} /\ Pointees(l)' = made
  <2>1. items'[l] = made
    BY <1>1 DEF ListMade, LifeInv, FieldTypes
  <2>2. Referents(l)' = made
    BY <1>1, <2>1, ReferentsNext
  <2>3. QED
    BY <1>1, <2>2 DEF Pointees
<1>6. ASSUME NEW m \in made PROVE Pointees(m) = {} /\ Pointees(m)' = {t}
  <2>1. node'[m].kids = NULL /\ node'[m].tree = t /\ m \in NodeIds
    BY <1>1 DEF ListMade
  <2>2. Referents(m)' = Objs({NULL, t})
    BY <2>1, ReferentsNext
  <2>3. QED
    BY <1>1, <1>2, <2>2, Disjoint DEF Pointees, Objs
<1>7. ASSUME NEW z \in Objects, z # n, z # l, z \notin made PROVE Pointees(z)' = Pointees(z)
  <2>1. Referents(z)' = Referents(z)
    BY <1>7, SameReferents DEF ListMade, LifeInv, FieldTypes
  <2>2. QED
    BY <1>1, <1>7, <2>1 DEF Pointees
<1>8. QED
  BY <1>2, <1>3, <1>4, <1>5, <1>6, <1>7

LEMMA ListMadeStep ==
  ASSUME LifeInv, NEW n, NEW l, NEW made, ListMade(n, l, made)
  PROVE  LifeInv'
<1> DEFINE t == node[n].tree
           f == [x \in made \cup {l, node[n].tree} |->
                   IF x = l THEN 2 ELSE IF x \in made THEN 1 ELSE Cardinality(made)]
<1>1. /\ n \in NodeIds /\ n \in live
      /\ l \in ListIds /\ l \notin live /\ made \subseteq NodeIds /\ made \cap live = {}
      /\ live' = live \cup made \cup {l} /\ IsFiniteSet(made) /\ Give(l) /\ Refs(f)
  BY DEF ListMade
<1>2. /\ t \in TreeIds /\ t \in live
      /\ Pointees(n) = {t} /\ Pointees(n)' = {l, t}
      /\ Pointees(l) = {} /\ Pointees(l)' = made
      /\ \A m \in made : Pointees(m) = {} /\ Pointees(m)' = {t}
      /\ \A z \in Objects : z # n /\ z # l /\ z \notin made => Pointees(z)' = Pointees(z)
  BY ListMadePointees
<1>3. /\ l # t /\ l \notin made /\ t \notin made /\ n # l /\ n \notin made
      /\ l \in Objects /\ n \in Objects /\ made \subseteq Objects
  BY <1>1, <1>2, Disjoint DEF Objects
<1>4. FieldTypes'
  BY ListMadeTypes
<1>5. Cardinality(made) \in Nat
  BY <1>1, FS_CardinalityType
<1>6. ASSUME NEW x \in Objects
      PROVE  /\ Gain(f, x) \in Int
             /\ Gain(f, x) = held'[x] - held[x]
                               + Cardinality(Pointing(x)') - Cardinality(Pointing(x))
  <2>1. Gain(f, x) = IF x = l THEN 2 ELSE IF x \in made THEN 1
                     ELSE IF x = t THEN Cardinality(made) ELSE 0
    BY <1>3 DEF Gain
  <2>2. held'[x] - held[x] = IF x = l THEN 1 ELSE 0
    BY <1>1, <1>3, OwnershipAssumption DEF Give, LifeInv, FieldTypes
  <2>3. Cardinality(Pointing(x)) \in Nat
    BY PointingFinite DEF LifeInv
  <2>4. CASE x = l
    <3>1. \A z \in Objects \ {n} : x \in Pointees(z)' <=> x \in Pointees(z)
      BY <1>2, <1>3, <2>4
    <3>2. Cardinality(Pointing(x)') = Cardinality(Pointing(x)) + 1
      BY <1>2, <1>3, <2>3, <2>4, <3>1, OnePointer DEF LifeInv
    <3>3. QED
      BY <2>1, <2>2, <2>3, <2>4, <3>2
  <2>5. CASE x \in made
    <3>1. \A z \in Objects \ {l} : x \in Pointees(z)' <=> x \in Pointees(z)
      BY <1>2, <1>3, <2>5
    <3>2. Cardinality(Pointing(x)') = Cardinality(Pointing(x)) + 1
      BY <1>2, <1>3, <2>3, <2>5, <3>1, OnePointer DEF LifeInv
    <3>3. QED
      BY <1>3, <2>1, <2>2, <2>3, <2>5, <3>2
  <2>6. CASE x = t
    <3>1. Pointing(x)' = Pointing(x) \cup made /\ Pointing(x) \cap made = {}
      BY <1>2, <1>3, <2>6 DEF Pointing
    <3>2. IsFiniteSet(Pointing(x))
      BY PointingFinite DEF LifeInv
    <3>3. Cardinality(Pointing(x)') = Cardinality(Pointing(x)) + Cardinality(made)
      BY <1>1, <3>1, <3>2, DisjointUnion
    <3>4. QED
      BY <1>3, <1>5, <2>1, <2>2, <2>3, <2>6, <3>3
  <2>7. CASE x # l /\ x \notin made /\ x # t
    <3>1. \A z \in Objects : x \in Pointees(z)' <=> x \in Pointees(z)
      BY <1>2, <2>7
    <3>2. Pointing(x)' = Pointing(x)
      BY <3>1, NoPointer
    <3>3. QED
      BY <2>1, <2>2, <2>3, <2>7, <3>2
  <2>8. QED
    BY <2>4, <2>5, <2>6, <2>7
<1>7. DOMAIN f \subseteq live' /\ live \subseteq live'
  BY <1>1, <1>2
<1> HIDE DEF f
<1>8. QED
  BY <1>1, <1>4, <1>6, <1>7, CountsFollow

LEMMA ChildrenStep == LifeInv /\ Children => LifeInv'
BY ChildrenMade, OneMoreHeld, ListMadeStep

(* The end of objects *)

LEMMA DropStep == LifeInv /\ Drop => LifeInv'
<1> SUFFICES ASSUME LifeInv, Drop PROVE LifeInv'
  OBVIOUS
<1>1. PICK y \in Objects :
        /\ Reachable(y)
        /\ held' = [held EXCEPT ![y] = @ - 1] /\ Refs(Minus({y}))
        /\ UNCHANGED <<live, source, node, cursor, items>>
  BY DEF Drop
<1>2. y \in live /\ held[y] \in 1..MaxHeld
  BY <1>1, OwnershipAssumption DEF Reachable, LifeInv, FieldTypes
<1>3. FieldTypes'
  <2>1. held' \in [Objects -> 0..MaxHeld]
    BY <1>1, <1>2, OwnershipAssumption DEF LifeInv, FieldTypes
  <2>2. QED
    BY <1>1, <2>1 DEF LifeInv, FieldTypes, OwnersSet
<1>4. \A z \in Objects : Pointees(z)' = Pointees(z)
  BY <1>1 DEF Pointees, Referents, Objs
<1>5. ASSUME NEW x \in Objects
      PROVE  /\ Gain(Minus({y}), x) \in Int
             /\ Gain(Minus({y}), x) = held'[x] - held[x]
                                 - (IF x \in Pointees(y) THEN 1 ELSE 0)
                                 + (IF x \in Pointees(y)' THEN 1 ELSE 0)
  <2>1. Gain(Minus({y}), x) = IF x = y THEN -1 ELSE 0
    BY DEF Gain, Minus
  <2>2. held'[x] - held[x] = IF x = y THEN -1 ELSE 0
    BY <1>1, OwnershipAssumption DEF LifeInv, FieldTypes
  <2>3. QED
    BY <1>4, <2>1, <2>2
<1>6. DOMAIN Minus({y}) \subseteq live' /\ live' = live
  BY <1>1, <1>2 DEF Minus
<1>7. QED
  BY <1>1, <1>3, <1>4, <1>5, <1>6, OneChange

(* The object that is freed is referred to by none, itself included.        *)
LEMMA Freed ==
  ASSUME LifeInv, NEW x \in live, rc[x] = 0, live' = live \ {x},
         source' = IF x \in TreeIds THEN [source EXCEPT ![x] = NULL] ELSE source,
         node' = IF x \in NodeIds THEN [node EXCEPT ![x] = NoNode] ELSE node,
         cursor' = IF x \in CursorIds THEN [cursor EXCEPT ![x] = NoCursor] ELSE cursor,
         items' = IF x \in ListIds THEN [items EXCEPT ![x] = {}] ELSE items,
         UNCHANGED held
  PROVE  /\ FieldTypes' /\ x \in Objects
         /\ Pointees(x) = Referents(x) /\ Pointees(x)' = {}
         /\ \A z \in Objects \ {x} : Pointees(z)' = Pointees(z)
         /\ Referents(x) \subseteq live'
<1>1. x \in Objects
  BY DEF LifeInv, FieldTypes
<1>2. FieldTypes'
  <2>1. IsFiniteSet(live') /\ live' \subseteq Objects
    BY FS_RemoveElement DEF LifeInv, FieldTypes
  <2>2. source' \in [TreeIds -> SourceIds \cup {NULL}] /\ items' \in [ListIds -> SUBSET NodeIds]
    BY DEF LifeInv, FieldTypes
  <2>3. NoNode \in NodeType /\ NoCursor \in CursorType
    BY DEF NoNode, NoCursor, NoPlace, NodeType, CursorType, Places
  <2>4. node' \in [NodeIds -> NodeType] /\ cursor' \in [CursorIds -> CursorType]
    BY <2>3 DEF LifeInv, FieldTypes
  <2>5. /\ \A n \in NodeIds : n \in live' => node'[n] = node[n]
        /\ \A c \in CursorIds : c \in live' => cursor'[c] = cursor[c]
    BY DEF LifeInv, FieldTypes
  <2>6. OwnersSet'
    BY <2>5 DEF LifeInv, FieldTypes, OwnersSet
  <2>7. QED
    BY <2>1, <2>2, <2>4, <2>6 DEF LifeInv, FieldTypes
<1>3. Pointees(x) = Referents(x) /\ Pointees(x)' = {}
  BY DEF Pointees
<1>4. ASSUME NEW z \in Objects \ {x} PROVE Pointees(z)' = Pointees(z)
  <2>1. Referents(z)' = Referents(z)
    BY SameReferents DEF LifeInv, FieldTypes
  <2>2. QED
    BY <2>1 DEF Pointees
<1>5. Referents(x) \subseteq live /\ x \notin Referents(x)
  BY <1>1, <1>3, Closed, NobodyPoints
<1>6. QED
  BY <1>1, <1>2, <1>3, <1>4, <1>5

LEMMA DeallocStep == LifeInv /\ Dealloc => LifeInv'
<1> SUFFICES ASSUME LifeInv, Dealloc PROVE LifeInv'
  OBVIOUS
<1>1. PICK x \in live :
        /\ rc[x] = 0
        /\ live' = live \ {x}
        /\ Refs(Minus(Referents(x)))
        /\ source' = IF x \in TreeIds THEN [source EXCEPT ![x] = NULL] ELSE source
        /\ node' = IF x \in NodeIds THEN [node EXCEPT ![x] = NoNode] ELSE node
        /\ cursor' = IF x \in CursorIds THEN [cursor EXCEPT ![x] = NoCursor] ELSE cursor
        /\ items' = IF x \in ListIds THEN [items EXCEPT ![x] = {}] ELSE items
        /\ UNCHANGED held
  BY DEF Dealloc
<1>2. /\ FieldTypes' /\ x \in Objects
      /\ Pointees(x) = Referents(x) /\ Pointees(x)' = {}
      /\ \A z \in Objects \ {x} : Pointees(z)' = Pointees(z)
      /\ Referents(x) \subseteq live'
  BY <1>1, Freed
<1>3. \A z \in live : z \notin live' => rc[z] = 0
  BY <1>1
<1>4. Pointees(x)' = Pointees(x) \ Referents(x)
  BY <1>2
<1> DEFINE S == Referents(x)
<1>5. S \subseteq Pointees(x) /\ S \subseteq live' /\ Pointees(x)' = Pointees(x) \ S
  BY <1>2
<1> HIDE DEF S
<1>6. QED
  BY <1>1, <1>2, <1>3, <1>5, FewerReferents DEF S

LEMMA FaultStep == LifeInv /\ Fault => LifeInv'
BY DEF Fault, LifeInv, FieldTypes, OwnersSet, Counted, DeadCountZero, Pointing, Pointees, Referents,
       Objs

LEMMA LifeStep == LifeInv /\ [Next]_vars => LifeInv'
<1>1. LifeInv /\ UNCHANGED vars => LifeInv'
  BY DEF LifeInv, FieldTypes, OwnersSet, Counted, DeadCountZero, Pointing, Pointees, Referents,
         Objs, vars
<1>2. QED
  BY <1>1, NewTreeStep, CopyTreeStep, EditTreeStep, RootNodeStep, TreeWalkStep, NodeWalkStep,
     NodeStep, ChildrenStep, TakeItemStep, GetNodeStep, MoveStep, ResetStep, CopyCursorStep,
     DropStep, DeallocStep, FaultStep DEF Next

LEMMA LifeInit == Init => LifeInv
<1> SUFFICES ASSUME Init PROVE LifeInv
  OBVIOUS
<1>1. FieldTypes
  <2>1. NoNode \in NodeType /\ NoCursor \in CursorType
    BY DEF NoNode, NoCursor, NoPlace, NodeType, CursorType, Places
  <2>2. IsFiniteSet(live) /\ live \subseteq Objects
    BY FS_EmptySet DEF Init
  <2>3. held \in [Objects -> 0..MaxHeld]
    BY OwnershipAssumption DEF Init
  <2>4. OwnersSet
    BY DEF Init, OwnersSet
  <2>5. QED
    BY <2>1, <2>2, <2>3, <2>4 DEF Init, FieldTypes
<1>2. \A x \in Objects : Cardinality(Pointing(x)) = 0
  <2>1. \A x \in Objects : Pointing(x) = {}
    BY DEF Init, Pointing, Pointees
  <2>2. QED
    BY <2>1, FS_EmptySet
<1>3. QED
  BY <1>1, <1>2 DEF LifeInv, Init, Counted, DeadCountZero

LEMMA LifeInvariant == Spec => []LifeInv
BY LifeInit, LifeStep, PTL DEF Spec

AstrayInv == astray \subseteq live /\ faulted \in BOOLEAN

LEMMA AstrayStep == LifeInv /\ AstrayInv /\ [Next]_vars => AstrayInv'
<1> SUFFICES ASSUME LifeInv, AstrayInv, [Next]_vars PROVE AstrayInv'
  OBVIOUS
<1>1. CASE NewTree \/ CopyTree \/ EditTree \/ RootNode
  BY <1>1 DEF NewTree, CopyTree, EditTree, RootNode, NodeNew, New, AstrayInv
<1>2. CASE TreeWalk \/ NodeWalk \/ Child \/ Descendant \/ Family
  BY <1>2 DEF TreeWalk, NodeWalk, NewCursor, Child, Descendant, Family, Relative, NodeNew, New,
     Inherit, AstrayInv
<1>3. CASE Children
  <2>1. CASE \E l \in live : UNCHANGED <<live, astray>>
    BY <1>3, <2>1 DEF Children, AstrayInv
  <2>2. CASE \E n, l, made : ListMade(n, l, made)
    BY <1>3, <2>2 DEF Children, ListMade, Inherit, AstrayInv
  <2>3. QED
    BY <1>3, <2>1, <2>2, ChildrenMade
<1>4. CASE GetNode \/ CopyCursor
  BY <1>4 DEF GetNode, CopyCursor, New, Inherit, AstrayInv
<1>5. CASE Move \/ Reset \/ ResetTo
  BY <1>5 DEF Move, Reset, ResetTo, SetPosition, Strays, CursorReady, Reachable, AstrayInv
<1>6. CASE TakeItem \/ Drop \/ Dealloc \/ Fault
  BY <1>6 DEF TakeItem, Drop, Dealloc, Fault, AstrayInv
<1>7. CASE UNCHANGED vars
  BY <1>7 DEF vars, AstrayInv
<1>8. QED
  BY <1>1, <1>2, <1>3, <1>4, <1>5, <1>6, <1>7 DEF Next

LEMMA AstrayInvariant == Spec => []AstrayInv
<1>1. Init => AstrayInv
  BY DEF Init, AstrayInv
<1>2. QED
  BY <1>1, AstrayStep, LifeInvariant, PTL DEF Spec

-----------------------------------------------------------------------------
(* Every variable keeps its type, and no reference is released twice: a     *)
(* count never falls below zero, whatever order objects are made, edited,   *)
(* moved and dropped in.                                                    *)
THEOREM TypeCorrect == Spec => []TypeOK
<1>1. ASSUME LifeInv, AstrayInv PROVE TypeOK
  <2>1. ASSUME NEW x \in Objects PROVE rc[x] \in Nat
    <3>1. Cardinality(Pointing(x)) \in Nat /\ held[x] \in Nat
      BY <1>1, PointingFinite, OwnershipAssumption DEF LifeInv, FieldTypes
    <3>2. QED
      BY <1>1, <3>1 DEF LifeInv, Counted
  <2>2. rc \in [Objects -> Nat]
    BY <1>1, <2>1 DEF LifeInv
  <2>3. QED
    BY <1>1, <2>2 DEF TypeOK, LifeInv, FieldTypes, NodeType, CursorType, AstrayInv
<1>2. QED
  BY <1>1, LifeInvariant, AstrayInvariant, PTL

(* The count of every live object is the number of references that exist:   *)
(* each Py_INCREF, Py_NewRef and Py_XDECREF of tree.c, node.c and           *)
(* tree_cursor.c is matched by a field, a list or the program.              *)
THEOREM CountsExact == Spec => []RefcountExact
<1>1. ASSUME LifeInv PROVE RefcountExact
  <2>1. ASSUME NEW x \in live PROVE rc[x] = held[x] + Cardinality(Holders(x))
    <3>1. x \in Objects
      BY <1>1 DEF LifeInv, FieldTypes
    <3>2. QED
      BY <1>1, <3>1, HoldersPoint DEF LifeInv, Counted
  <2>2. QED
    BY <2>1 DEF RefcountExact
<1>2. QED
  BY <1>1, LifeInvariant, PTL

-----------------------------------------------------------------------------
(* What a step does to the nodes and to the cursors that are live after it. *)

(* x is made at a place in its tree, or from a node or cursor at that place,*)
(* and is astray if that is.                                                *)
MadeFrom(x, at, tree) ==
  \/ at.native = tree
  \/ \E n \in NodeIds :
       /\ n \in live /\ at.native = node[n].at.native /\ tree = node[n].tree
       /\ n \in astray => x \in astray'
  \/ \E c \in CursorIds :
       /\ c \in live /\ at.native = cursor[c].at.native /\ tree = cursor[c].tree
       /\ c \in astray => x \in astray'

StaysAstray(x) == x \in astray => x \in astray'

KeepsNode(n) ==
  /\ n \in live /\ node'[n].at = node[n].at /\ node'[n].tree = node[n].tree /\ StaysAstray(n)
  /\ node'[n].kids = node[n].kids \/ \E l, made : ListMade(n, l, made)
MakesNode(n) ==
  n \notin live /\ node'[n].kids = NULL /\ MadeFrom(n, node'[n].at, node'[n].tree)
NodeEffect == \A n \in NodeIds : n \in live' => KeepsNode(n) \/ MakesNode(n)

LEMMA NoNodeChange ==
  ASSUME node' = node, \A n \in NodeIds : n \in live' => n \in live /\ StaysAstray(n)
  PROVE  NodeEffect
BY DEF NodeEffect, KeepsNode

LEMMA OneNodeMade ==
  ASSUME LifeInv, NEW n \in NodeIds, n \notin live, live' = live \cup {n},
         NEW t, NEW at, node' = [node EXCEPT ![n] = [tree |-> t, at |-> at, kids |-> NULL]],
         MadeFrom(n, at, t), astray \subseteq astray'
  PROVE  NodeEffect
<1>1. node'[n].at = at /\ node'[n].tree = t /\ node'[n].kids = NULL
  BY DEF LifeInv, FieldTypes
<1>2. \A m \in NodeIds : m # n => node'[m] = node[m]
  BY DEF LifeInv, FieldTypes
<1>3. MakesNode(n)
  BY <1>1 DEF MakesNode
<1>4. \A m \in NodeIds : m # n /\ m \in live' => KeepsNode(m)
  BY <1>2 DEF KeepsNode, StaysAstray
<1>5. QED
  BY <1>3, <1>4 DEF NodeEffect

LEMMA RelativeMade ==
  ASSUME LifeInv, NEW n \in NodeIds, Reachable(n), NEW p, Relative(n, p)
  PROVE  NodeEffect
<1>1. PICK m \in NodeIds : /\ NodeNew(m, node[n].tree, [node[n].at EXCEPT !.pos = p])
                          /\ Inherit(n, {m})
  BY DEF Relative
<1>2. n \in live /\ node[n].at \in Places
  BY LiveNode DEF Reachable
<1> DEFINE at == [node[n].at EXCEPT !.pos = p]
<1>3. at.native = node[n].at.native
  BY <1>2 DEF Places
<1>4. MadeFrom(m, at, node[n].tree) /\ astray \subseteq astray'
  BY <1>1, <1>2, <1>3 DEF MadeFrom, Inherit
<1>5. /\ m \notin live /\ live' = live \cup {m}
      /\ node' = [node EXCEPT ![m] = [tree |-> node[n].tree, at |-> at, kids |-> NULL]]
  BY <1>1 DEF NodeNew, New
<1> HIDE DEF at
<1>6. QED
  BY <1>4, <1>5, OneNodeMade

LEMMA NodeEffects == LifeInv /\ Next => NodeEffect
<1> SUFFICES ASSUME LifeInv PROVE Next => NodeEffect
  OBVIOUS
<1>1. ASSUME NewTree \/ CopyTree \/ EditTree PROVE NodeEffect
  <2>1. node' = node
    BY <1>1 DEF NewTree, CopyTree, EditTree
  <2>2. \A n \in NodeIds : n \in live' => n \in live /\ StaysAstray(n)
    BY <1>1, Disjoint DEF NewTree, CopyTree, EditTree, New, StaysAstray
  <2>3. QED
    BY <2>1, <2>2, NoNodeChange
<1>2. ASSUME TreeWalk \/ NodeWalk \/ CopyCursor PROVE NodeEffect
  <2>1. PICK c \in CursorIds : New({c}) /\ node' = node /\ astray \subseteq astray'
    BY <1>2 DEF TreeWalk, NodeWalk, CopyCursor, NewCursor, Inherit
  <2>2. \A n \in NodeIds : n \in live' => n \in live /\ StaysAstray(n)
    BY <2>1, Disjoint DEF New, StaysAstray
  <2>3. QED
    BY <2>1, <2>2, NoNodeChange
<1>3. ASSUME TakeItem \/ Move \/ Reset \/ ResetTo \/ Drop \/ Fault PROVE NodeEffect
  <2>1. node' = node /\ live' = live
    BY <1>3 DEF TakeItem, Move, Reset, ResetTo, Drop, SetPosition, Fault
  <2>2. \A n \in NodeIds : StaysAstray(n)
    BY <1>3, Disjoint DEF TakeItem, Move, Reset, ResetTo, Strays, Drop, Fault, StaysAstray
  <2>3. QED
    BY <2>1, <2>2, NoNodeChange
<1>4. ASSUME RootNode PROVE NodeEffect
  <2>1. PICK t \in TreeIds, n \in NodeIds : NodeNew(n, t, Root(t)) /\ astray' = astray
    BY <1>4 DEF RootNode
  <2>2. /\ n \notin live /\ live' = live \cup {n}
        /\ node' = [node EXCEPT ![n] = [tree |-> t, at |-> Root(t), kids |-> NULL]]
    BY <2>1 DEF NodeNew, New
  <2>3. MadeFrom(n, Root(t), t)
    BY DEF MadeFrom, Root
  <2>4. QED
    BY <2>1, <2>2, <2>3, OneNodeMade
<1>5. ASSUME Child \/ Descendant \/ Family PROVE NodeEffect
  <2>1. PICK n \in NodeIds : Reachable(n) /\ \E p : Relative(n, p)
    BY <1>5 DEF Child, Descendant, Family, NodeReady
  <2>2. QED
    BY <2>1, RelativeMade
<1>6. ASSUME Children PROVE NodeEffect
  <2>1. CASE \E l \in live : UNCHANGED <<live, source, node, cursor, items, astray>>
    BY <2>1, NoNodeChange DEF StaysAstray
  <2>2. ASSUME NEW n, NEW l, NEW made, ListMade(n, l, made) PROVE NodeEffect
    <3>1. n \in live /\ n \in NodeIds /\ node[n] \in NodeType
      BY <2>2, LiveNode DEF ListMade
    <3>2. KeepsNode(n)
      BY <2>2, <3>1 DEF KeepsNode, ListMade, NodeType, StaysAstray, Inherit
    <3>3. \A m \in made : MakesNode(m)
      BY <2>2, <3>1 DEF MakesNode, ListMade, MadeFrom, Inherit
    <3>4. ASSUME NEW m \in NodeIds, m \in live', m # n, m \notin made PROVE KeepsNode(m)
      BY <2>2, <3>4, Disjoint DEF ListMade, KeepsNode, StaysAstray, Inherit
    <3>5. QED
      BY <3>2, <3>3, <3>4 DEF NodeEffect
  <2>3. QED
    BY <1>6, <2>1, <2>2, ChildrenMade
<1>7. ASSUME GetNode PROVE NodeEffect
  <2>1. PICK c \in CursorIds :
          /\ Reachable(c)
          /\ \/ live' = live /\ node' = node /\ astray' = astray
             \/ \E n \in NodeIds :
                  /\ New({n}) /\ Inherit(c, {n})
                  /\ node' = [node EXCEPT ![n] = [tree |-> cursor[c].tree, at |-> cursor[c].at,
                                                  kids |-> NULL]]
    BY <1>7 DEF GetNode
  <2>2. CASE live' = live /\ node' = node /\ astray' = astray
    BY <2>2, NoNodeChange DEF StaysAstray
  <2>3. ASSUME NEW n \in NodeIds, New({n}), Inherit(c, {n}),
               node' = [node EXCEPT ![n] = [tree |-> cursor[c].tree, at |-> cursor[c].at,
                                            kids |-> NULL]]
        PROVE  NodeEffect
    <3>1. MadeFrom(n, cursor[c].at, cursor[c].tree) /\ astray \subseteq astray'
      BY <2>1, <2>3 DEF MadeFrom, Reachable, Inherit
    <3>2. n \notin live /\ live' = live \cup {n}
      BY <2>3 DEF New
    <3>3. QED
      BY <2>3, <3>1, <3>2, OneNodeMade
  <2>4. QED
    BY <2>1, <2>2, <2>3
<1>8. ASSUME Dealloc PROVE NodeEffect
  <2>1. PICK x \in live :
          /\ live' = live \ {x}
          /\ node' = IF x \in NodeIds THEN [node EXCEPT ![x] = NoNode] ELSE node
          /\ astray' = astray \ {x}
    BY <1>8 DEF Dealloc
  <2>2. \A n \in NodeIds : n \in live' => n \in live /\ node'[n] = node[n] /\ StaysAstray(n)
    BY <2>1 DEF LifeInv, FieldTypes, StaysAstray
  <2>3. QED
    BY <2>2 DEF NodeEffect, KeepsNode
<1>9. QED
  BY <1>1, <1>2, <1>3, <1>4, <1>5, <1>6, <1>7, <1>8 DEF Next

KeepsCursor(c) == c \in live /\ cursor'[c] = cursor[c] /\ StaysAstray(c)
CachesNode(c) ==
  /\ c \in live /\ cursor'[c].at = cursor[c].at /\ cursor'[c].tree = cursor[c].tree
  /\ StaysAstray(c)
  /\ \E n \in NodeIds : /\ n \in live' /\ cursor'[c].node = n
                        /\ node'[n].at = cursor[c].at /\ node'[n].tree = cursor[c].tree
MovesCursor(c) ==
  /\ c \in live /\ cursor'[c].tree = cursor[c].tree /\ cursor'[c].node = NULL
  /\ \/ cursor'[c].at.native = cursor[c].at.native /\ StaysAstray(c)
     \/ cursor'[c].at.native = cursor[c].tree
     \/ c \in astray'
MakesCursor(c) ==
  /\ c \notin live /\ MadeFrom(c, cursor'[c].at, cursor'[c].tree)
  /\ cursor'[c].node \in {NULL, Garbage}
CursorEffect ==
  \A c \in CursorIds : c \in live' =>
    KeepsCursor(c) \/ CachesNode(c) \/ MovesCursor(c) \/ MakesCursor(c)

LEMMA NoCursorChange ==
  ASSUME cursor' = cursor, \A c \in CursorIds : c \in live' => c \in live /\ StaysAstray(c)
  PROVE  CursorEffect
BY DEF CursorEffect, KeepsCursor

LEMMA OneCursorMade ==
  ASSUME LifeInv, NEW c \in CursorIds, c \notin live, live' = live \cup {c},
         NEW new, cursor' = [cursor EXCEPT ![c] = new],
         MadeFrom(c, new.at, new.tree), new.node \in {NULL, Garbage}, astray \subseteq astray'
  PROVE  CursorEffect
<1>1. cursor'[c] = new /\ \A d \in CursorIds : d # c => cursor'[d] = cursor[d]
  BY DEF LifeInv, FieldTypes
<1>2. MakesCursor(c)
  BY <1>1 DEF MakesCursor
<1>3. \A d \in CursorIds : d # c /\ d \in live' => KeepsCursor(d)
  BY <1>1 DEF KeepsCursor, StaysAstray
<1>4. QED
  BY <1>2, <1>3 DEF CursorEffect

LEMMA WalkMade ==
  ASSUME LifeInv, NEW x, NEW t, NEW place, NewCursor(x, t, place),
         \A c \in CursorIds : Inherit(x, {c}) => MadeFrom(c, place, t)
  PROVE  CursorEffect
<1> DEFINE new == [tree |-> t, at |-> place, top |-> place.pos, node |-> NULL]
<1>1. PICK c \in CursorIds : /\ New({c}) /\ cursor' = [cursor EXCEPT ![c] = new]
                            /\ Inherit(x, {c})
  BY DEF NewCursor
<1>2. new.at = place /\ new.tree = t /\ new.node = NULL
  OBVIOUS
<1> HIDE DEF new
<1>3. QED
  BY <1>1, <1>2, OneCursorMade DEF New, Inherit

LEMMA CursorMoved ==
  ASSUME LifeInv, NEW c \in CursorIds, Reachable(c), NEW place, NEW top,
         SetPosition(c, place, top), astray \ {c} \subseteq astray',
         \/ place.native = cursor[c].at.native /\ StaysAstray(c)
         \/ place.native = cursor[c].tree
         \/ c \in astray'
  PROVE  CursorEffect
<1>1. c \in live /\ cursor[c] \in CursorType
  BY LiveCursor DEF Reachable
<1>2. /\ live' = live
      /\ cursor' = [cursor EXCEPT ![c] = [cursor[c] EXCEPT !.at = place, !.top = top, !.node = NULL]]
  BY DEF SetPosition
<1>3. /\ cursor'[c] = [cursor[c] EXCEPT !.at = place, !.top = top, !.node = NULL]
      /\ \A d \in CursorIds : d # c => cursor'[d] = cursor[d]
  BY <1>2 DEF LifeInv, FieldTypes
<1>4. cursor'[c].tree = cursor[c].tree /\ cursor'[c].at = place /\ cursor'[c].node = NULL
  BY <1>1, <1>3 DEF CursorType
<1>5. MovesCursor(c)
  BY <1>1, <1>4 DEF MovesCursor
<1>6. \A d \in CursorIds : d # c /\ d \in live' => KeepsCursor(d)
  BY <1>2, <1>3 DEF KeepsCursor, StaysAstray
<1>7. QED
  BY <1>5, <1>6 DEF CursorEffect

LEMMA CursorEffects == LifeInv /\ Next => CursorEffect
<1> SUFFICES ASSUME LifeInv PROVE Next => CursorEffect
  OBVIOUS
<1>1. ASSUME NewTree \/ CopyTree \/ EditTree PROVE CursorEffect
  <2>1. cursor' = cursor
    BY <1>1 DEF NewTree, CopyTree, EditTree
  <2>2. \A c \in CursorIds : c \in live' => c \in live /\ StaysAstray(c)
    BY <1>1, Disjoint DEF NewTree, CopyTree, EditTree, New, StaysAstray
  <2>3. QED
    BY <2>1, <2>2, NoCursorChange
<1>2. ASSUME RootNode \/ Child \/ Descendant \/ Family PROVE CursorEffect
  <2>1. cursor' = cursor /\ astray \subseteq astray' /\ \E n \in NodeIds : New({n})
    BY <1>2 DEF RootNode, Child, Descendant, Family, Relative, NodeNew, Inherit
  <2>2. \A c \in CursorIds : c \in live' => c \in live /\ StaysAstray(c)
    BY <2>1, Disjoint DEF New, StaysAstray
  <2>3. QED
    BY <2>1, <2>2, NoCursorChange
<1>3. ASSUME TakeItem \/ Drop \/ Fault PROVE CursorEffect
  <2>1. cursor' = cursor /\ live' = live /\ astray' = astray
    BY <1>3 DEF TakeItem, Drop, Fault
  <2>2. QED
    BY <2>1, NoCursorChange DEF StaysAstray
<1>4. ASSUME Children PROVE CursorEffect
  <2>1. CASE \E l \in live : UNCHANGED <<live, source, node, cursor, items, astray>>
    BY <2>1, NoCursorChange DEF StaysAstray
  <2>2. ASSUME NEW n, NEW l, NEW made, ListMade(n, l, made) PROVE CursorEffect
    <3>1. cursor' = cursor /\ \A c \in CursorIds : c \in live' => c \in live /\ StaysAstray(c)
      BY <2>2, Disjoint DEF ListMade, Inherit, StaysAstray
    <3>2. QED
      BY <3>1, NoCursorChange
  <2>3. QED
    BY <1>4, <2>1, <2>2, ChildrenMade
<1>5. ASSUME TreeWalk PROVE CursorEffect
  <2>1. PICK t \in TreeIds : NewCursor(t, t, Root(t))
    BY <1>5 DEF TreeWalk
  <2>2. \A c \in CursorIds : MadeFrom(c, Root(t), t)
    BY DEF MadeFrom, Root
  <2>3. QED
    BY <2>1, <2>2, WalkMade
<1>6. ASSUME NodeWalk PROVE CursorEffect
  <2>1. PICK n \in NodeIds : n \in live /\ NewCursor(n, node[n].tree, node[n].at)
    BY <1>6 DEF NodeWalk, NodeReady, Reachable
  <2>2. \A c \in CursorIds : Inherit(n, {c}) => MadeFrom(c, node[n].at, node[n].tree)
    BY <2>1 DEF MadeFrom, Inherit
  <2>3. QED
    BY <2>1, <2>2, WalkMade
<1>7. ASSUME CopyCursor PROVE CursorEffect
  <2>1. PICK c \in CursorIds, d \in CursorIds :
          /\ Reachable(c) /\ New({d}) /\ Inherit(c, {d})
          /\ cursor' = [cursor EXCEPT ![d] = [cursor[c] EXCEPT !.node = Garbage]]
    BY <1>7 DEF CopyCursor, CursorReady
  <2> DEFINE new == [cursor[c] EXCEPT !.node = Garbage]
  <2>2. c \in live /\ cursor[c] \in CursorType
    BY <2>1, LiveCursor DEF Reachable
  <2>3. new.at = cursor[c].at /\ new.tree = cursor[c].tree /\ new.node = Garbage
    BY <2>2 DEF CursorType
  <2>4. MadeFrom(d, new.at, new.tree) /\ astray \subseteq astray'
    BY <2>1, <2>2, <2>3 DEF MadeFrom, Inherit
  <2>5. d \notin live /\ live' = live \cup {d} /\ cursor' = [cursor EXCEPT ![d] = new]
    BY <2>1 DEF New
  <2> HIDE DEF new
  <2>6. QED
    BY <2>3, <2>4, <2>5, OneCursorMade
<1>8. ASSUME GetNode PROVE CursorEffect
  <2>1. PICK c \in CursorIds :
          /\ Reachable(c)
          /\ \/ live' = live /\ cursor' = cursor /\ astray' = astray
             \/ \E n \in NodeIds :
                  /\ New({n}) /\ Inherit(c, {n})
                  /\ node' = [node EXCEPT ![n] = [tree |-> cursor[c].tree, at |-> cursor[c].at,
                                                  kids |-> NULL]]
                  /\ cursor' = [cursor EXCEPT ![c].node = n]
    BY <1>8 DEF GetNode
  <2>2. CASE live' = live /\ cursor' = cursor /\ astray' = astray
    BY <2>2, NoCursorChange DEF StaysAstray
  <2>3. ASSUME NEW n \in NodeIds, New({n}), Inherit(c, {n}),
               node' = [node EXCEPT ![n] = [tree |-> cursor[c].tree, at |-> cursor[c].at,
                                            kids |-> NULL]],
               cursor' = [cursor EXCEPT ![c].node = n]
        PROVE  CursorEffect
    <3>1. c \in live /\ cursor[c] \in CursorType
      BY <2>1, LiveCursor DEF Reachable
    <3>2. cursor' = [cursor EXCEPT ![c] = [cursor[c] EXCEPT !.node = n]]
      BY <2>3
    <3>3. /\ cursor'[c].node = n /\ cursor'[c].at = cursor[c].at /\ cursor'[c].tree = cursor[c].tree
          /\ \A d \in CursorIds : d # c => cursor'[d] = cursor[d]
      BY <3>1, <3>2 DEF LifeInv, FieldTypes, CursorType
    <3>4. node'[n].at = cursor[c].at /\ node'[n].tree = cursor[c].tree
      BY <2>3 DEF LifeInv, FieldTypes
    <3>5. n \in live' /\ \A d \in CursorIds : StaysAstray(d) /\ (d \in live' => d \in live)
      BY <2>3, Disjoint DEF New, Inherit, StaysAstray
    <3>6. CachesNode(c)
      BY <3>1, <3>3, <3>4, <3>5 DEF CachesNode
    <3>7. QED
      BY <3>3, <3>5, <3>6 DEF CursorEffect, KeepsCursor
  <2>4. QED
    BY <2>1, <2>2, <2>3
<1>9. ASSUME Move PROVE CursorEffect
  <2>0. PICK c \in CursorIds : \E p :
          Reachable(c) /\ SetPosition(c, [cursor[c].at EXCEPT !.pos = p], cursor[c].top)
    BY <1>9 DEF Move, CursorReady
  <2>1. PICK p : Reachable(c) /\ SetPosition(c, [cursor[c].at EXCEPT !.pos = p], cursor[c].top)
    BY <2>0
  <2>2. cursor[c].at \in Places
    BY <2>1, LiveCursor DEF Reachable
  <2>3. [cursor[c].at EXCEPT !.pos = p].native = cursor[c].at.native
    BY <2>2 DEF Places
  <2>4. astray' = astray
    BY <1>9 DEF Move
  <2>5. QED
    BY <2>1, <2>3, <2>4, CursorMoved DEF StaysAstray
<1>10. ASSUME Reset \/ ResetTo PROVE CursorEffect
  <2>0. PICK c \in CursorIds : \E place, top :
          /\ Reachable(c) /\ SetPosition(c, place, top) /\ Strays(c, place)
    BY <1>10 DEF Reset, ResetTo
  <2>1. PICK place, top :
          /\ Reachable(c) /\ SetPosition(c, place, top) /\ Strays(c, place)
    BY <2>0
  <2>2. astray \ {c} \subseteq astray' /\ (place.native = cursor[c].tree \/ c \in astray')
    BY <2>1 DEF Strays
  <2>3. QED
    BY <2>1, <2>2, CursorMoved
<1>11. ASSUME Dealloc PROVE CursorEffect
  <2>1. PICK x \in live :
          /\ live' = live \ {x}
          /\ cursor' = IF x \in CursorIds THEN [cursor EXCEPT ![x] = NoCursor] ELSE cursor
          /\ astray' = astray \ {x}
    BY <1>11 DEF Dealloc
  <2>2. \A c \in CursorIds :
          c \in live' => c \in live /\ cursor'[c] = cursor[c] /\ StaysAstray(c)
    BY <2>1 DEF LifeInv, FieldTypes, StaysAstray
  <2>3. QED
    BY <2>2 DEF CursorEffect, KeepsCursor
<1>12. QED
  BY <1>1, <1>2, <1>3, <1>4, <1>5, <1>6, <1>7, <1>8, <1>9, <1>10, <1>11 DEF Next

LEMMA Unmoved ==
  UNCHANGED vars => NodeEffect /\ CursorEffect
BY NoNodeChange, NoCursorChange DEF vars, StaysAstray

-----------------------------------------------------------------------------
(* Pointers.  Unless an object is astray, the native tree that it points    *)
(* into is the one of the Tree it refers to, and the reference keeps that   *)
(* Tree alive.                                                              *)
NativeInv ==
  /\ \A n \in NodeIds : n \in live /\ n \notin astray => node[n].at.native = node[n].tree
  /\ \A c \in CursorIds : c \in live /\ c \notin astray => cursor[c].at.native = cursor[c].tree

LEMMA NativeStep ==
  ASSUME NativeInv, NodeEffect, CursorEffect
  PROVE  NativeInv'
<1>1. ASSUME NEW x, NEW at, NEW tree, x \notin astray', MadeFrom(x, at, tree)
      PROVE  at.native = tree
  BY <1>1 DEF MadeFrom, NativeInv
<1>2. ASSUME NEW n \in NodeIds, n \in live', n \notin astray'
      PROVE  node'[n].at.native = node'[n].tree
  BY <1>1, <1>2 DEF NativeInv, NodeEffect, KeepsNode, MakesNode, StaysAstray
<1>3. ASSUME NEW c \in CursorIds, c \in live', c \notin astray'
      PROVE  cursor'[c].at.native = cursor'[c].tree
  <2>1. CASE KeepsCursor(c) \/ CachesNode(c)
    BY <1>3, <2>1 DEF NativeInv, KeepsCursor, CachesNode, StaysAstray
  <2>2. CASE MovesCursor(c)
    BY <1>3, <2>2 DEF NativeInv, MovesCursor, StaysAstray
  <2>3. CASE MakesCursor(c)
    BY <1>1, <1>3, <2>3 DEF MakesCursor
  <2>4. QED
    BY <1>3, <2>1, <2>2, <2>3 DEF CursorEffect
<1>4. QED
  BY <1>2, <1>3 DEF NativeInv

(* The node that a cursor caches is a live node where the cursor is and of  *)
(* the cursor's tree: every method that moves the cursor has dropped the    *)
(* node, and copy() has not taken it over.                                  *)
CacheHolds(c) ==
  \/ cursor[c].node \in {NULL, Garbage}
  \/ /\ cursor[c].node \in NodeIds /\ cursor[c].node \in live
     /\ node[cursor[c].node].at = cursor[c].at /\ node[cursor[c].node].tree = cursor[c].tree

CacheInv == \A c \in CursorIds : c \in live => CacheHolds(c)

LEMMA CacheStep ==
  ASSUME LifeInv, LifeInv', CacheInv, NodeEffect, CursorEffect
  PROVE  CacheInv'
<1>1. SUFFICES ASSUME NEW c \in CursorIds, c \in live' PROVE CacheHolds(c)'
  BY DEF CacheInv
<1>2. CASE KeepsCursor(c)
  <2>1. c \in live /\ cursor'[c] = cursor[c]
    BY <1>2 DEF KeepsCursor
  <2>2. CASE cursor[c].node \in {NULL, Garbage}
    BY <2>1, <2>2 DEF CacheHolds
  <2>3. CASE /\ cursor[c].node \in NodeIds /\ cursor[c].node \in live
             /\ node[cursor[c].node].at = cursor[c].at
             /\ node[cursor[c].node].tree = cursor[c].tree
    <3>1. cursor[c].node \in live'
      <4>1. c \in Objects /\ cursor[c].node \in Objects
        BY <2>3 DEF Objects
      <4>2. cursor[c].node \in Referents(c)'
        BY <2>1, <4>1, ReferentsNext DEF Objs
      <4>3. QED
        BY <1>1, <4>2, ClosedNext DEF Pointees, LiveClosed
    <3>2. /\ node'[cursor[c].node].at = node[cursor[c].node].at
          /\ node'[cursor[c].node].tree = node[cursor[c].node].tree
      BY <2>3, <3>1 DEF NodeEffect, KeepsNode, MakesNode
    <3>3. QED
      BY <2>1, <2>3, <3>1, <3>2 DEF CacheHolds
  <2>4. QED
    BY <2>1, <2>2, <2>3 DEF CacheInv, CacheHolds
<1>3. CASE CachesNode(c)
  BY <1>3 DEF CachesNode, CacheHolds
<1>4. CASE MovesCursor(c)
  BY <1>4 DEF MovesCursor, CacheHolds
<1>5. CASE MakesCursor(c)
  BY <1>5 DEF MakesCursor, CacheHolds
<1>6. QED
  BY <1>1, <1>2, <1>3, <1>4, <1>5 DEF CursorEffect

(* Every reference that a live object holds leads to a live object, and the *)
(* native tree under a node or cursor has not been deleted, whatever order  *)
(* of editing, walking, resetting, copying and dropping the program chose:  *)
(* unless that very object descends from a cursor that was reset into       *)
(* another tree.                                                            *)
THEOREM PointersValid == Spec => []NoDangling
<1> DEFINE Inv == LifeInv /\ NativeInv /\ CacheInv
<1>1. Init => Inv
  BY LifeInit DEF Init, NativeInv, CacheInv
<1>2. Inv /\ [Next]_vars => Inv'
  <2> SUFFICES ASSUME LifeInv, NativeInv, CacheInv, [Next]_vars
               PROVE  Inv'
    OBVIOUS
  <2>1. LifeInv'
    BY LifeStep
  <2>2. NodeEffect /\ CursorEffect
    BY NodeEffects, CursorEffects, Unmoved
  <2>3. QED
    BY <2>1, <2>2, NativeStep, CacheStep
<1>3. Inv => NoDangling
  <2> SUFFICES ASSUME Inv PROVE NoDangling
    OBVIOUS
  <2>1. ASSUME NEW t \in TreeIds \cap live PROVE source[t] \in live \cup {NULL}
    <3>1. source[t] \in SourceIds \cup {NULL} /\ Pointees(t) = Objs({source[t]})
      BY ReferentsOf DEF LifeInv, FieldTypes, Pointees
    <3>2. Pointees(t) \subseteq live
      BY Closed
    <3>3. QED
      BY <3>1, <3>2 DEF Objs, Objects
  <2>2. ASSUME NEW n \in NodeIds \cap live
        PROVE  /\ node[n].tree \in live /\ node[n].kids \in live \cup {NULL}
               /\ n \notin astray => Usable(node[n].at)
    BY LiveNode DEF NativeInv, Usable
  <2>3. ASSUME NEW c \in CursorIds \cap live
        PROVE  /\ cursor[c].tree \in live /\ cursor[c].node \in live \cup {NULL, Garbage}
               /\ c \notin astray => Usable(cursor[c].at)
    BY LiveCursor DEF NativeInv, Usable
  <2>4. ASSUME NEW l \in ListIds \cap live PROVE items[l] \subseteq live
    BY Closed, ReferentsOf DEF Pointees
  <2>5. QED
    BY <2>1, <2>2, <2>3, <2>4 DEF NoDangling
<1>4. QED
  BY <1>1, <1>2, <1>3, PTL DEF Spec

(* A node that TreeCursor.node made before and kept is the one the cursor is*)
(* at, in the cursor's tree: also for cursors that were reset to another    *)
(* tree, and for copies, which never take a node over.                      *)
THEOREM CacheHonest == Spec => []CacheCurrent
<1> DEFINE Inv == LifeInv /\ CacheInv
<1>1. Init => Inv
  BY LifeInit DEF Init, CacheInv
<1>2. Inv /\ [Next]_vars => Inv'
  <2> SUFFICES ASSUME LifeInv, CacheInv, [Next]_vars
               PROVE  Inv'
    OBVIOUS
  <2>1. LifeInv'
    BY LifeStep
  <2>2. NodeEffect /\ CursorEffect
    BY NodeEffects, CursorEffects, Unmoved
  <2>3. QED
    BY <2>1, <2>2, CacheStep
<1>3. Inv => CacheCurrent
  BY DEF CacheInv, CacheHolds, CacheCurrent
<1>4. QED
  BY <1>1, <1>2, <1>3, PTL DEF Spec

-----------------------------------------------------------------------------
(* No cycle.  Counts free what nothing refers to, but not objects that refer*)
(* to each other: nodes and children lists refer downwards only, which a    *)
(* ranking of the nodes records.                                            *)
RanksDown(rank) ==
  \A n \in NodeIds : n \in live /\ node[n].kids # NULL =>
    \A m \in items[node[n].kids] : rank[n] < rank[m]

Layered == \E rank \in [NodeIds -> Nat] : RanksDown(rank)

LEMMA ItemsShrink ==
  ASSUME LifeInv, Next, ~Children, NEW l
  PROVE  items'[l] \subseteq items[l]
<1>1. CASE Dealloc
  <2>1. PICK x \in live : items' = IF x \in ListIds THEN [items EXCEPT ![x] = {}] ELSE items
    BY <1>1 DEF Dealloc
  <2>2. CASE l = x /\ x \in ListIds
    BY <2>1, <2>2 DEF LifeInv, FieldTypes
  <2>3. CASE ~(l = x /\ x \in ListIds)
    <3>1. l \in ListIds => items'[l] = items[l]
      BY <2>1, <2>3 DEF LifeInv, FieldTypes
    <3>2. l \notin ListIds => items'[l] = items[l]
      BY <2>1
    <3>3. QED
      BY <3>1, <3>2
  <2>4. QED
    BY <2>2, <2>3
<1>2. CASE ~Dealloc
  <2>1. items' = items
    BY <1>2 DEF Next, NewTree, CopyTree, EditTree, RootNode, TreeWalk, NodeWalk, NewCursor, Child,
       Descendant, Family, Relative, TakeItem, GetNode, Move, Reset, ResetTo, SetPosition,
       CopyCursor, Drop, Fault
  <2>2. QED
    BY <2>1
<1>3. QED
  BY <1>1, <1>2

LEMMA LayeredMade ==
  ASSUME LifeInv, Layered, NEW n, NEW l, NEW made, ListMade(n, l, made)
  PROVE  Layered'
<1>1. PICK rank \in [NodeIds -> Nat] : RanksDown(rank)
  BY DEF Layered
<1> DEFINE down == [m \in NodeIds |-> IF m \in made THEN rank[n] + 1 ELSE rank[m]]
<1>2. /\ n \in NodeIds /\ n \in live /\ l \in ListIds /\ l \notin live
      /\ made \subseteq NodeIds /\ made \cap live = {} /\ live' = live \cup made \cup {l}
      /\ items'[l] = made /\ \A k \in ListIds : k # l => items'[k] = items[k]
  BY DEF ListMade, LifeInv, FieldTypes
<1>3. down \in [NodeIds -> Nat]
  BY <1>1, <1>2
<1>4. ASSUME NEW q \in NodeIds, q \in live', node'[q].kids # NULL,
             NEW m \in items'[node'[q].kids]
      PROVE  down[q] < down[m]
  <2>1. CASE q = n
    <3>1. node'[n].kids = l
      BY LiveNode DEF ListMade, NodeType
    <3>2. m \in made /\ n \notin made
      BY <1>2, <1>4, <2>1, <3>1
    <3>3. down[q] = rank[n] /\ down[m] = rank[n] + 1 /\ rank[n] \in Nat
      BY <1>1, <1>2, <2>1, <3>2
    <3>4. QED
      BY <3>3
  <2>2. CASE q \in made
    BY <1>4, <2>2 DEF ListMade
  <2>3. CASE q # n /\ q \notin made
    <3>1. q \in live /\ node'[q] = node[q]
      BY <1>2, <1>4, <2>3, Disjoint DEF ListMade
    <3>2. node[q].kids \in live /\ node[q].kids \in ListIds
      BY <1>4, <3>1, LiveNode
    <3>3. m \in items[node[q].kids]
      BY <1>2, <1>4, <3>1, <3>2
    <3>4. m \in live /\ m \in NodeIds
      BY <3>2, <3>3, Closed, ReferentsOf DEF Pointees, LifeInv, FieldTypes
    <3>5. rank[q] < rank[m]
      BY <1>1, <1>4, <3>1, <3>3 DEF RanksDown
    <3>6. down[q] = rank[q] /\ down[m] = rank[m]
      BY <1>2, <2>3, <3>4
    <3>7. QED
      BY <3>5, <3>6
  <2>4. QED
    BY <2>1, <2>2, <2>3
<1> HIDE DEF down
<1>5. RanksDown(down)'
  BY <1>4 DEF RanksDown
<1>6. QED
  BY <1>3, <1>5 DEF Layered

LEMMA LayeredStep ==
  ASSUME LifeInv, Layered, [Next]_vars
  PROVE  Layered'
<1>1. CASE UNCHANGED vars
  BY <1>1 DEF Layered, RanksDown, vars
<1>2. CASE \E n, l, made : ListMade(n, l, made)
  BY <1>2, LayeredMade
<1>3. CASE Next /\ ~\E n, l, made : ListMade(n, l, made)
  <2>1. PICK rank \in [NodeIds -> Nat] : RanksDown(rank)
    BY DEF Layered
  <2>2. \A l : items'[l] \subseteq items[l]
    <3>1. CASE Children
      BY <1>3, <3>1, ChildrenMade
    <3>2. CASE ~Children
      BY <1>3, <3>2, ItemsShrink
    <3>3. QED
      BY <3>1, <3>2
  <2>3. ASSUME NEW n \in NodeIds, n \in live', node'[n].kids # NULL
        PROVE  n \in live /\ node'[n].kids = node[n].kids
    BY <1>3, <2>3, NodeEffects DEF NodeEffect, KeepsNode, MakesNode
  <2>4. ASSUME NEW n \in NodeIds, n \in live', node'[n].kids # NULL,
               NEW m \in items'[node'[n].kids]
        PROVE  rank[n] < rank[m]
    <3>1. n \in live /\ node'[n].kids = node[n].kids /\ node[n].kids # NULL
      BY <2>3, <2>4
    <3>2. m \in items[node[n].kids]
      BY <2>2, <2>4, <3>1
    <3>3. QED
      BY <2>1, <3>1, <3>2 DEF RanksDown
  <2>5. RanksDown(rank)'
    BY <2>4 DEF RanksDown
  <2>6. QED
    BY <2>1, <2>5 DEF Layered
<1>4. QED
  BY <1>1, <1>2, <1>3

LEMMA LeastRank ==
  ASSUME NEW S, S # {}, NEW rank \in [S -> Nat]
  PROVE  \E n \in S : \A m \in S : rank[n] <= rank[m]
<1> DEFINE T == {rank[n] : n \in S}
<1>1. T \subseteq Nat /\ T # {}
  OBVIOUS
<1>2. PICK k \in T : \A j \in T : ~(<<j, k>> \in OpToRel(<, Nat))
  BY <1>1, NatLessThanWellFounded, WFMin
<1>3. PICK n \in S : rank[n] = k
  BY <1>2
<1>4. ASSUME NEW m \in S PROVE rank[n] <= rank[m]
  <2>1. rank[m] \in T /\ rank[m] \in Nat /\ k \in Nat
    BY <1>1, <1>2
  <2>2. ~(rank[m] < k)
    BY <1>2, <2>1 DEF OpToRel
  <2>3. QED
    BY <1>3, <2>1, <2>2
<1>5. QED
  BY <1>4

(* Which kinds of objects refer to which.                                   *)
LEMMA Kinds ==
  ASSUME LifeInv, NEW y \in live, NEW x \in Referents(y)
  PROVE  /\ x \in CursorIds => FALSE
         /\ x \in NodeIds => (y \in CursorIds \/ (y \in ListIds /\ x \in items[y]))
         /\ x \in ListIds => (y \in NodeIds /\ node[y].kids = x)
         /\ x \in TreeIds => (y \in NodeIds \/ y \in CursorIds)
         /\ x \in SourceIds => y \in TreeIds
<1>1. y \in Objects
  BY DEF LifeInv, FieldTypes
<1>2. CASE y \in TreeIds
  <2>1. x \in SourceIds
    BY <1>2, ReferentsOf, Disjoint DEF Objs, LifeInv, FieldTypes
  <2>2. QED
    BY <1>2, <2>1, Disjoint
<1>3. CASE y \in NodeIds
  <2>1. x \in TreeIds \/ (x \in ListIds /\ node[y].kids = x)
    BY <1>3, LiveNode, ReferentsOf, Disjoint DEF Objs
  <2>2. QED
    BY <1>3, <2>1, Disjoint
<1>4. CASE y \in CursorIds
  <2>1. x \in TreeIds \/ x \in NodeIds
    BY <1>4, LiveCursor, ReferentsOf, Disjoint DEF Objs
  <2>2. QED
    BY <1>4, <2>1, Disjoint
<1>5. CASE y \in ListIds
  <2>1. x \in NodeIds /\ x \in items[y]
    BY <1>5, ReferentsOf DEF LifeInv, FieldTypes
  <2>2. QED
    BY <1>5, <2>1, Disjoint
<1>6. CASE y \in SourceIds
  BY <1>6, ReferentsOf
<1>7. QED
  BY <1>1, <1>2, <1>3, <1>4, <1>5, <1>6, Disjoint

(* When the program has dropped all its references and every deallocator has*)
(* run, nothing is left: a Node, its children list and their tree never keep*)
(* each other alive, which the types' lack of a garbage-collector traversal *)
(* depends on.                                                              *)
THEOREM NoLeak == Spec => []NothingLeft
<1>1. Init => Layered
  <2>1. [n \in NodeIds |-> 0] \in [NodeIds -> Nat]
    OBVIOUS
  <2>2. ASSUME Init PROVE RanksDown([n \in NodeIds |-> 0])
    BY <2>2 DEF Init, RanksDown
  <2>3. QED
    BY <2>1, <2>2 DEF Layered
<1>2. LifeInv /\ Layered /\ [Next]_vars => Layered'
  BY LayeredStep
<1>3. LifeInv /\ Layered => NothingLeft
  <2> SUFFICES ASSUME LifeInv, Layered, Settled, \A x \in Objects : held[x] = 0
               PROVE  live = {}
    BY DEF NothingLeft
  <2>1. ASSUME NEW x \in live PROVE \E y \in live : x \in Referents(y)
    <3>1. x \in Objects /\ rc[x] > 0 /\ held[x] = 0
      BY DEF Settled, LifeInv, FieldTypes
    <3>2. Cardinality(Pointing(x)) # 0
      BY <3>1 DEF LifeInv, Counted
    <3>3. Pointing(x) # {}
      BY <3>2, FS_EmptySet
    <3>4. QED
      BY <3>3 DEF Pointing, Pointees
  <2>2. \A c \in live : c \notin CursorIds
    BY <2>1, Kinds
  <2>3. \A n \in live : n \notin NodeIds
    <3> DEFINE S == {n \in NodeIds : n \in live}
    <3>1. PICK rank \in [NodeIds -> Nat] : RanksDown(rank)
      BY DEF Layered
    <3>2. ASSUME S # {} PROVE FALSE
      <4> DEFINE r == [n \in S |-> rank[n]]
      <4>1. r \in [S -> Nat]
        OBVIOUS
      <4>2. PICK n \in S : \A m \in S : r[n] <= r[m]
        BY <3>2, <4>1, LeastRank
      <4>3. PICK l \in live : l \in ListIds /\ n \in items[l]
        BY <2>1, <2>2, Kinds
      <4>4. PICK m \in live : m \in NodeIds /\ node[m].kids = l
        BY <2>1, <4>3, Kinds
      <4>5. l # NULL
        BY <4>3, Disjoint DEF Objects
      <4>6. rank[m] < rank[n] /\ m \in S
        BY <3>1, <4>3, <4>4, <4>5 DEF RanksDown
      <4>7. rank[n] <= rank[m] /\ rank[n] \in Nat /\ rank[m] \in Nat
        BY <4>2, <4>6
      <4>8. QED
        BY <4>6, <4>7
    <3>3. QED
      BY <3>2
  <2>4. \A l \in live : l \notin ListIds
    BY <2>1, <2>3, Kinds
  <2>5. \A t \in live : t \notin TreeIds
    BY <2>1, <2>2, <2>3, Kinds
  <2>6. \A s \in live : s \notin SourceIds
    BY <2>1, <2>5, Kinds
  <2>7. QED
    BY <2>2, <2>3, <2>4, <2>5, <2>6 DEF LifeInv, FieldTypes, Objects
<1>4. QED
  BY <1>1, <1>2, <1>3, LifeInvariant, PTL DEF Spec
=============================================================================
