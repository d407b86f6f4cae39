---------------------------- MODULE LookaheadProofs ----------------------------
(***************************************************************************)
(* Proofs about Lookahead, for every value of its constants: any number of *)
(* Language objects, iterators and grammars, any symbol tables.            *)
(***************************************************************************)
EXTENDS Lookahead, FiniteSetTheorems, SequenceTheorems, TLAPS

-----------------------------------------------------------------------------
(* The invariants.  A reference count tells that an object is in use only   *)
(* because it is exact, and a pointer can be followed only because an       *)
(* object in use is allocated: types, counts and lifetimes hold together.   *)

CachedIn(l) == {i \in IterIds : Allocated(i) /\ iter[i].cached = l}
LostTo(l) == {n \in DOMAIN lost : lost[n] = l}

TypeInv ==
  /\ lang \in [LangIds -> LangType \cup {NULL}]
  /\ rc \in [LangIds -> Int]
  /\ held \subseteq LangIds
  /\ lost \in Seq(LangIds)
  /\ iter \in [IterIds -> Iterators \cup {NULL}]
  /\ parser \in [language : LangIds \cup {NULL}, native : Grammars \cup {NULL}]
  /\ \A i \in IterIds : Allocated(i) => IterType(iter[i])

(* An object is deallocated exactly when its count is zero.                 *)
FreedAtZero == \A l \in LangIds : lang[l] = NULL <=> rc[l] = 0

LifeInv == TypeInv /\ RefcountExact /\ FreedAtZero

-----------------------------------------------------------------------------
(* Counting.                                                                *)

LEMMA CountsType ==
  ASSUME TypeInv, NEW l \in LangIds
  PROVE  /\ IsFiniteSet(CachedIn(l)) /\ Cardinality(CachedIn(l)) \in Nat
         /\ IsFiniteSet(LostTo(l)) /\ Cardinality(LostTo(l)) \in Nat
<1>1. IsFiniteSet(CachedIn(l))
  BY LookaheadAssumption, FS_Subset DEF CachedIn
<1>2. IsFiniteSet(LostTo(l))
  <2>1. DOMAIN lost = 1..Len(lost) /\ Len(lost) \in Nat
    BY DEF TypeInv
  <2>2. IsFiniteSet(1..Len(lost))
    BY <2>1, FS_Interval
  <2>3. QED
    BY <2>1, <2>2, FS_Subset DEF LostTo
<1>3. QED
  BY <1>1, <1>2, FS_CardinalityType

(* One entry of iter changes: what it cached is counted no more, what it    *)
(* caches now is counted once.                                              *)
LEMMA CachedChange ==
  ASSUME TypeInv, NEW i \in IterIds, NEW new \in Iterators \cup {NULL},
         iter' = [iter EXCEPT ![i] = new], NEW l \in LangIds
  PROVE  Cardinality(CachedIn(l)')
           = Cardinality(CachedIn(l))
             - (IF Allocated(i) /\ iter[i].cached = l THEN 1 ELSE 0)
             + (IF new # NULL /\ new.cached = l THEN 1 ELSE 0)
<1> DEFINE rest == CachedIn(l) \ {i}
<1>1. IsFiniteSet(CachedIn(l)) /\ Cardinality(CachedIn(l)) \in Nat
  BY CountsType
<1>2. IsFiniteSet(rest) /\ i \notin rest
  BY <1>1, FS_Subset
<1>3. Cardinality(CachedIn(l))
        = Cardinality(rest) + (IF Allocated(i) /\ iter[i].cached = l THEN 1 ELSE 0)
  <2>1. CASE Allocated(i) /\ iter[i].cached = l
    <3>1. i \in CachedIn(l)
      BY <2>1 DEF CachedIn
    <3>2. Cardinality(rest) = Cardinality(CachedIn(l)) - 1
      BY <1>1, <3>1, FS_RemoveElement
    <3>3. QED
      BY <1>1, <2>1, <3>2
  <2>2. CASE ~(Allocated(i) /\ iter[i].cached = l)
    <3>1. rest = CachedIn(l)
      BY <2>2 DEF CachedIn
    <3>2. QED
      BY <1>1, <2>2, <3>1
  <2>3. QED
    BY <2>1, <2>2
<1>4. Cardinality(CachedIn(l)')
        = Cardinality(rest) + (IF new # NULL /\ new.cached = l THEN 1 ELSE 0)
  <2>1. iter'[i] = new /\ \A j \in IterIds \ {i} : iter'[j] = iter[j]
    BY DEF TypeInv
  <2>2. CASE new # NULL /\ new.cached = l
    <3>1. CachedIn(l)' = rest \cup {i}
      BY <2>1, <2>2 DEF CachedIn, Allocated
    <3>2. QED
      BY <1>2, <2>2, <3>1, FS_AddElement
  <2>3. CASE ~(new # NULL /\ new.cached = l)
    <3>1. CachedIn(l)' = rest
      BY <2>1, <2>3 DEF CachedIn, Allocated
    <3>2. Cardinality(rest) \in Nat
      BY <1>2, FS_CardinalityType
    <3>3. QED
      BY <2>3, <3>1, <3>2
  <2>4. QED
    BY <2>2, <2>3
<1>5. Cardinality(rest) \in Nat
  BY <1>2, FS_CardinalityType
<1> HIDE DEF rest
<1>6. QED
  BY <1>1, <1>3, <1>4, <1>5

LEMMA LostChange ==
  ASSUME TypeInv, NEW x \in LangIds, lost' = Append(lost, x), NEW l \in LangIds
  PROVE  Cardinality(LostTo(l)') = Cardinality(LostTo(l)) + (IF x = l THEN 1 ELSE 0)
<1> DEFINE n == Len(lost) + 1
<1>1. /\ DOMAIN lost = 1..Len(lost) /\ Len(lost) \in Nat
      /\ DOMAIN lost' = DOMAIN lost \cup {n} /\ n \notin DOMAIN lost
      /\ lost'[n] = x /\ \A k \in DOMAIN lost : lost'[k] = lost[k]
  BY DEF TypeInv
<1>2. IsFiniteSet(LostTo(l)) /\ Cardinality(LostTo(l)) \in Nat
  BY CountsType
<1> HIDE DEF n
<1>3. n \notin LostTo(l)
  BY <1>1 DEF LostTo
<1>4. CASE x = l
  <2>1. LostTo(l)' = LostTo(l) \cup {n}
    BY <1>1, <1>4 DEF LostTo
  <2>2. QED
    BY <1>2, <1>3, <1>4, <2>1, FS_AddElement
<1>5. CASE x # l
  <2>1. LostTo(l)' = LostTo(l)
    BY <1>1, <1>5 DEF LostTo
  <2>2. QED
    BY <1>2, <1>5, <2>1
<1>6. QED
  BY <1>4, <1>5

-----------------------------------------------------------------------------
(* What the invariant says about one object.                                *)
LEMMA InUse ==
  ASSUME LifeInv, NEW l \in LangIds,
         \/ l \in held \/ parser.language = l
         \/ \E i \in IterIds : Allocated(i) /\ iter[i].cached = l
  PROVE  rc[l] > 0 /\ lang[l] \in LangType /\ lang[l] # NULL
<1>1. Cardinality(CachedIn(l)) \in Nat /\ Cardinality(LostTo(l)) \in Nat
      /\ IsFiniteSet(CachedIn(l))
  BY CountsType DEF LifeInv
<1>2. (\E i \in IterIds : Allocated(i) /\ iter[i].cached = l) => Cardinality(CachedIn(l)) # 0
  BY <1>1, FS_EmptySet DEF CachedIn
<1>3. rc[l] = (IF l \in held THEN 1 ELSE 0) + (IF parser.language = l THEN 1 ELSE 0)
              + Cardinality(LostTo(l)) + Cardinality(CachedIn(l))
  BY DEF LifeInv, RefcountExact, LostTo, CachedIn
<1>4. rc[l] > 0
  BY <1>1, <1>2, <1>3
<1>5. QED
  BY <1>4 DEF LifeInv, FreedAtZero, TypeInv

LEMMA NotInUse ==
  ASSUME LifeInv, NEW l \in Unused
  PROVE  l \in LangIds /\ rc[l] = 0 /\ l \notin held /\ parser.language # l
BY InUse DEF Unused, LifeInv, FreedAtZero

(* What RefcountExact compares rc[l] with.                                  *)
Counted(l) ==
  (IF l \in held THEN 1 ELSE 0) + (IF parser.language = l THEN 1 ELSE 0)
  + Cardinality(LostTo(l)) + Cardinality(CachedIn(l))

LEMMA ExactCounts == RefcountExact <=> \A l \in LangIds : rc[l] = Counted(l)
BY DEF RefcountExact, Counted, LostTo, CachedIn

(* What the variables other than lang and rc must look like after a step.   *)
HoldersType ==
  /\ held \subseteq LangIds /\ lost \in Seq(LangIds)
  /\ iter \in [IterIds -> Iterators \cup {NULL}]
  /\ parser \in [language : LangIds \cup {NULL}, native : Grammars \cup {NULL}]
  /\ \A i \in IterIds : Allocated(i) => IterType(iter[i])

(* A step that counts right: Count() frees what has to be freed.            *)
LEMMA CountedRight ==
  ASSUME LifeInv, NEW objs \in [LangIds -> LangType \cup {NULL}],
         NEW counts \in [LangIds -> Int], Count(objs, counts), HoldersType',
         \A l \in LangIds : counts[l] # 0 => objs[l] # NULL,
         \A l \in LangIds : counts[l] = Counted(l)'
  PROVE  LifeInv'
<1>1. /\ rc' = counts
      /\ lang' = [l \in LangIds |-> IF counts[l] = 0 THEN NULL ELSE objs[l]]
  BY DEF Count
<1>2. TypeInv'
  BY <1>1 DEF TypeInv, HoldersType
<1>3. FreedAtZero'
  BY <1>1 DEF FreedAtZero
<1>4. (\A l \in LangIds : rc[l] = Counted(l))'
  BY <1>1
<1>5. RefcountExact'
  BY <1>4, ExactCounts DEF RefcountExact, Counted, LostTo, CachedIn
<1>6. QED
  BY <1>2, <1>3, <1>5 DEF LifeInv

(* The holders that a step leaves alone count as before.                    *)
LEMMA SameIterators == iter' = iter => \A l : CachedIn(l)' = CachedIn(l)
BY DEF CachedIn, Allocated

LEMMA SameLost == lost' = lost => \A l : LostTo(l)' = LostTo(l)
BY DEF LostTo

-----------------------------------------------------------------------------
(* Iterators.                                                               *)
LEMMA SymbolsType ==
  ASSUME NEW it, IterType(it)
  PROVE  /\ SymbolsOf(it) \in Seq(Symbols) /\ Len(SymbolsOf(it)) \in Nat
         /\ it.pos \in 0..Len(SymbolsOf(it))
<1>1. it \in Iterators /\ it.state < Len(Valid[it.native]) /\ it.pos <= Len(SymbolsOf(it))
  BY DEF IterType, HasState
<1>2. it.native \in Grammars /\ it.state \in Nat /\ it.pos \in Nat
  BY <1>1 DEF Iterators
<1>3. Valid[it.native] \in Seq(Seq(Symbols))
  BY <1>2, LookaheadAssumption
<1>4. it.state + 1 \in 1..Len(Valid[it.native])
  BY <1>1, <1>2, <1>3
<1>5. SymbolsOf(it) \in Seq(Symbols)
  BY <1>3, <1>4, ElementOfSeq DEF SymbolsOf
<1>6. QED
  BY <1>1, <1>2, <1>5

LEMMA StateType ==
  ASSUME NEW asked \in 0..MaxState
  PROVE  asked \in Nat /\ StateOf(asked) \in Nat
BY LookaheadAssumption DEF StateOf

LEMMA StartedType ==
  ASSUME NEW g \in Grammars, NEW asked \in 0..MaxState, HasState(g, StateOf(asked)),
         NEW l \in LangIds
  PROVE  Started(g, asked, l) \in Iterators /\ IterType(Started(g, asked, l))
<1> DEFINE it == Started(g, asked, l)
<1>1. /\ it.native = g /\ it.state = StateOf(asked) /\ it.pos = 0
  BY DEF Started
<1>2. it \in Iterators
  BY StateType, EmptySeq DEF Started, Iterators
<1>3. Len(SymbolsOf(it)) \in Nat
  <2>1. Valid[g] \in Seq(Seq(Symbols)) /\ StateOf(asked) + 1 \in 1..Len(Valid[g])
    BY LookaheadAssumption, StateType DEF HasState
  <2>2. SymbolsOf(it) \in Seq(Symbols)
    BY <1>1, <2>1, ElementOfSeq DEF SymbolsOf
  <2>3. QED
    BY <2>2
<1> HIDE DEF it
<1>4. IterType(it)
  BY <1>1, <1>2, <1>3 DEF IterType
<1>5. QED
  BY <1>2, <1>4 DEF it

(* Advance() and Drain() move only the position and what was given.         *)
LEMMA AdvanceType ==
  ASSUME NEW it, IterType(it)
  PROVE  IterType(Advance(it)) /\ Advance(it).cached = it.cached
<1>1. SymbolsOf(it) \in Seq(Symbols) /\ it.pos \in 0..Len(SymbolsOf(it)) /\ it \in Iterators
  BY SymbolsType DEF IterType
<1>2. CASE it.pos = Len(SymbolsOf(it))
  <2>1. Advance(it) = [it EXCEPT !.ended = TRUE]
    BY <1>2 DEF Advance
  <2>2. QED
    BY <1>1, <2>1 DEF IterType, Iterators, SymbolsOf, HasState
<1>3. CASE it.pos # Len(SymbolsOf(it))
  <2> DEFINE moved == [it EXCEPT !.pos = @ + 1]
  <2>1. /\ moved \in Iterators /\ moved.pos = it.pos + 1 /\ moved.got = it.got
        /\ SymbolsOf(moved) = SymbolsOf(it)
    BY <1>1 DEF Iterators, SymbolsOf
  <2>2. CurrentSymbol(moved) \in Symbols
    BY <1>1, <1>3, <2>1, ElementOfSeq DEF CurrentSymbol
  <2>3. Append(it.got, CurrentSymbol(moved)) \in Seq(Symbols)
    BY <1>1, <2>2 DEF Iterators
  <2>4. Advance(it) = [moved EXCEPT !.got = Append(it.got, CurrentSymbol(moved))]
    BY <1>3, <2>1 DEF Advance
  <2> HIDE DEF moved
  <2>5. Advance(it) \in Iterators /\ Advance(it).pos = it.pos + 1
        /\ Advance(it).native = moved.native /\ Advance(it).state = moved.state
        /\ Advance(it).cached = moved.cached
    BY <2>1, <2>3, <2>4 DEF Iterators
  <2>6. moved.native = it.native /\ moved.state = it.state /\ moved.cached = it.cached
    BY <1>1 DEF moved, Iterators
  <2>7. QED
    BY <1>1, <1>3, <2>5, <2>6 DEF IterType, SymbolsOf, HasState
<1>4. QED
  BY <1>2, <1>3

LEMMA DrainType ==
  ASSUME NEW it, IterType(it)
  PROVE  IterType(Drain(it)) /\ Drain(it).cached = it.cached
<1>1. SymbolsOf(it) \in Seq(Symbols) /\ it.pos \in 0..Len(SymbolsOf(it)) /\ it \in Iterators
      /\ Len(SymbolsOf(it)) \in Nat
  BY SymbolsType DEF IterType
<1> DEFINE rest == SubSeq(SymbolsOf(it), it.pos + 1, Len(SymbolsOf(it)))
<1>2. rest \in Seq(Symbols)
  BY <1>1, SubSeqProperties
<1>3. it.got \o rest \in Seq(Symbols)
  BY <1>1, <1>2 DEF Iterators
<1>4. Drain(it) = [it EXCEPT !.pos = Len(SymbolsOf(it)), !.ended = TRUE, !.got = it.got \o rest]
  BY DEF Drain
<1> HIDE DEF rest
<1>5. /\ Drain(it) \in Iterators /\ Drain(it).pos = Len(SymbolsOf(it))
      /\ Drain(it).native = it.native /\ Drain(it).state = it.state
      /\ Drain(it).cached = it.cached
  BY <1>1, <1>3, <1>4 DEF Iterators
<1>6. QED
  BY <1>1, <1>5 DEF IterType, SymbolsOf, HasState

-----------------------------------------------------------------------------
(* One lemma for each action, or for the actions that count alike.          *)

(* A new object goes to the program: language_init() and language_copy().   *)
LEMMA GivenToProgram ==
  ASSUME LifeInv, NEW c \in Unused, NEW object \in LangType,
         NewObject(c, object, Incref(rc, c)), Keep(c), UNCHANGED <<lost, iter, parser>>
  PROVE  LifeInv'
<1> DEFINE objs == [lang EXCEPT ![c] = object]
           counts == [rc EXCEPT ![c] = @ + 1]
<1>0. TypeInv /\ (\A l \in LangIds : rc[l] = Counted(l)) /\ FreedAtZero
  BY ExactCounts DEF LifeInv
<1>1. c \in LangIds /\ rc[c] = 0 /\ c \notin held
  BY NotInUse
<1>2. object # NULL
  BY LookaheadAssumption
<1>3. Count(objs, counts) /\ held' = held \cup {c}
  BY DEF NewObject, Incref, Keep
<1>4. objs \in [LangIds -> LangType \cup {NULL}] /\ counts \in [LangIds -> Int]
  BY <1>0, <1>1 DEF TypeInv
<1>5. ASSUME NEW l \in LangIds
      PROVE  counts[l] = Counted(l)' /\ (counts[l] # 0 => objs[l] # NULL)
  <2>1. LostTo(l)' = LostTo(l) /\ CachedIn(l)' = CachedIn(l)
    BY SameLost, SameIterators
  <2>2. Cardinality(LostTo(l)) \in Nat /\ Cardinality(CachedIn(l)) \in Nat
    BY <1>0, CountsType
  <2>3. counts[l] = rc[l] + (IF l = c THEN 1 ELSE 0)
    BY <1>0, <1>1 DEF TypeInv
  <2>4. rc[l] = Counted(l)
    BY <1>0
  <2>5. counts[l] = Counted(l)'
    BY <1>1, <1>3, <2>1, <2>2, <2>3, <2>4 DEF Counted
  <2>6. counts[l] # 0 => objs[l] # NULL
    BY <1>0, <1>1, <1>2, <2>3 DEF TypeInv, FreedAtZero
  <2>7. QED
    BY <2>5, <2>6
<1>6. HoldersType'
  BY <1>0, <1>1, <1>3 DEF TypeInv, HoldersType, Allocated
<1> HIDE DEF objs, counts
<1>7. QED
  BY <1>3, <1>4, <1>5, <1>6, CountedRight

LEMMA NewLanguageStep == LifeInv /\ NewLanguage => LifeInv'
<1> SUFFICES ASSUME LifeInv, NewLanguage PROVE LifeInv'
  OBVIOUS
<1>1. PICK c \in Unused, g \in Grammars :
        NewObject(c, Initialised(g, FALSE), Incref(rc, c)) /\ Keep(c)
  BY DEF NewLanguage
<1>2. Initialised(g, FALSE) \in LangType
  BY LookaheadAssumption DEF Initialised, LangType
<1>3. QED
  BY <1>1, <1>2, GivenToProgram DEF NewLanguage

LEMMA CopyStep == LifeInv /\ Copy => LifeInv'
<1> SUFFICES ASSUME LifeInv, Copy PROVE LifeInv'
  OBVIOUS
<1> DEFINE object(l, stray) == [native |-> lang[l].native, abi |-> stray, again |-> FALSE]
<1>1. PICK l \in held, c \in Unused, stray \in StrayAbi :
        NewObject(c, object(l, stray), Incref(rc, c)) /\ Keep(c)
  BY DEF Copy
<1>2. lang[l] \in LangType
  BY InUse DEF LifeInv, TypeInv
<1>3. object(l, stray) \in LangType
  BY <1>2, LookaheadAssumption DEF LangType
<1> HIDE DEF object
<1>4. QED
  BY <1>1, <1>3, GivenToProgram DEF Copy

(* language_init() once more.                                               *)
LEMMA InitAgainStep == LifeInv /\ InitAgain => LifeInv'
<1> SUFFICES ASSUME LifeInv, InitAgain PROVE LifeInv'
  OBVIOUS
<1>1. PICK l \in held :
        \/ \E g \in Grammars : lang' = [lang EXCEPT ![l] = Initialised(g, TRUE)]
        \/ lang' = [lang EXCEPT ![l].native = NULL, ![l].again = TRUE]
  BY DEF InitAgain
<1>2. l \in LangIds /\ lang[l] \in LangType /\ lang[l] # NULL
  BY InUse DEF LifeInv, TypeInv
<1>3. PICK object \in LangType : lang' = [lang EXCEPT ![l] = object]
  <2>1. CASE \E g \in Grammars : lang' = [lang EXCEPT ![l] = Initialised(g, TRUE)]
    BY <2>1, LookaheadAssumption DEF Initialised, LangType
  <2>2. CASE lang' = [lang EXCEPT ![l].native = NULL, ![l].again = TRUE]
    <3>1. [lang[l] EXCEPT !.native = NULL, !.again = TRUE] \in LangType
      BY <1>2 DEF LangType
    <3>2. lang' = [lang EXCEPT ![l] = [lang[l] EXCEPT !.native = NULL, !.again = TRUE]]
      BY <2>2
    <3>3. QED
      BY <3>1, <3>2
  <2>3. QED
    BY <1>1, <2>1, <2>2
<1>4. object # NULL
  BY LookaheadAssumption
<1>5. TypeInv'
  BY <1>2, <1>3 DEF LifeInv, TypeInv, InitAgain, Allocated
<1>6. FreedAtZero'
  BY <1>2, <1>3, <1>4 DEF LifeInv, TypeInv, FreedAtZero, InitAgain
<1>7. RefcountExact'
  BY DEF LifeInv, RefcountExact, InitAgain, Allocated
<1>8. QED
  BY <1>5, <1>6, <1>7 DEF LifeInv

LEMMA DropLanguageStep == LifeInv /\ DropLanguage => LifeInv'
<1> SUFFICES ASSUME LifeInv, DropLanguage PROVE LifeInv'
  OBVIOUS
<1>0. TypeInv /\ (\A l \in LangIds : rc[l] = Counted(l)) /\ FreedAtZero
  BY ExactCounts DEF LifeInv
<1>1. PICK d \in held : held' = held \ {d} /\ Count(lang, Decref(rc, d))
  BY DEF DropLanguage
<1> DEFINE counts == [rc EXCEPT ![d] = @ - 1]
<1>2. d \in LangIds /\ d # NULL /\ UNCHANGED <<lost, iter, parser>>
  BY <1>0, LookaheadAssumption DEF TypeInv, DropLanguage
<1>3. Count(lang, counts) /\ counts \in [LangIds -> Int]
  BY <1>0, <1>1, <1>2 DEF Decref, TypeInv
<1>4. ASSUME NEW l \in LangIds
      PROVE  counts[l] = Counted(l)' /\ (counts[l] # 0 => lang[l] # NULL)
  <2>1. LostTo(l)' = LostTo(l) /\ CachedIn(l)' = CachedIn(l)
    BY <1>2, SameLost, SameIterators
  <2>2. Cardinality(LostTo(l)) \in Nat /\ Cardinality(CachedIn(l)) \in Nat
    BY <1>0, CountsType
  <2>3. counts[l] = rc[l] - (IF l = d THEN 1 ELSE 0) /\ rc[l] = Counted(l)
    BY <1>0, <1>2 DEF TypeInv
  <2>4. counts[l] = Counted(l)'
    BY <1>1, <1>2, <2>1, <2>2, <2>3 DEF Counted
  <2>5. counts[l] # 0 => lang[l] # NULL
    BY <1>0, <1>1, <1>2, <2>3, InUse DEF FreedAtZero
  <2>6. QED
    BY <2>4, <2>5
<1>5. HoldersType'
  BY <1>0, <1>1, <1>2 DEF TypeInv, HoldersType, Allocated
<1>6. lang \in [LangIds -> LangType \cup {NULL}]
  BY <1>0 DEF TypeInv
<1> HIDE DEF counts
<1>7. QED
  BY <1>3, <1>4, <1>5, <1>6, CountedRight

(* The program receives an object that is in use.                           *)
LEMMA Received ==
  ASSUME LifeInv, NEW x \in LangIds, lang[x] # NULL, Count(lang, Receive(rc, x)), Keep(x),
         UNCHANGED <<lost, parser>>, \A l \in LangIds : CachedIn(l)' = CachedIn(l),
         HoldersType'
  PROVE  LifeInv'
<1> DEFINE counts == IF x \in held THEN rc ELSE [rc EXCEPT ![x] = @ + 1]
<1>0. TypeInv /\ (\A l \in LangIds : rc[l] = Counted(l)) /\ FreedAtZero
  BY ExactCounts DEF LifeInv
<1>1. Count(lang, counts) /\ counts \in [LangIds -> Int]
  BY <1>0 DEF Receive, Incref, TypeInv
<1>2. ASSUME NEW l \in LangIds
      PROVE  counts[l] = Counted(l)' /\ (counts[l] # 0 => lang[l] # NULL)
  <2>1. LostTo(l)' = LostTo(l) /\ CachedIn(l)' = CachedIn(l)
    BY SameLost
  <2>2. Cardinality(LostTo(l)) \in Nat /\ Cardinality(CachedIn(l)) \in Nat
    BY <1>0, CountsType
  <2>3. counts[l] = rc[l] + (IF l = x /\ x \notin held THEN 1 ELSE 0) /\ rc[l] = Counted(l)
    BY <1>0 DEF TypeInv
  <2>4. held' = held \cup {x}
    BY DEF Keep
  <2>5. counts[l] = Counted(l)'
    BY <2>1, <2>2, <2>3, <2>4 DEF Counted
  <2>6. counts[l] # 0 => lang[l] # NULL
    BY <1>0, <2>3 DEF FreedAtZero
  <2>7. QED
    BY <2>5, <2>6
<1>3. lang \in [LangIds -> LangType \cup {NULL}]
  BY <1>0 DEF TypeInv
<1> HIDE DEF counts
<1>4. QED
  BY <1>1, <1>2, <1>3, CountedRight

LEMMA ReadAttributeStep == LifeInv /\ ReadAttribute => LifeInv'
<1> SUFFICES ASSUME LifeInv, ReadAttribute PROVE LifeInv'
  OBVIOUS
<1>1. parser.language \in LangIds /\ lang[parser.language] # NULL
  BY InUse DEF LifeInv, TypeInv, ReadAttribute
<1>2. HoldersType'
  BY <1>1 DEF LifeInv, TypeInv, ReadAttribute, HoldersType, Keep, Allocated
<1>3. \A l \in LangIds : CachedIn(l)' = CachedIn(l)
  BY SameIterators DEF ReadAttribute
<1>4. QED
  BY <1>1, <1>2, <1>3, Received DEF ReadAttribute

(* An iterator changes and still caches what it cached.                     *)
LEMMA SameCached ==
  ASSUME TypeInv, NEW i \in IterIds, Allocated(i), NEW new, IterType(new),
         new.cached = iter[i].cached, iter' = [iter EXCEPT ![i] = new]
  PROVE  /\ iter' \in [IterIds -> Iterators \cup {NULL}]
         /\ \A j \in IterIds : Allocated(j)' => IterType(iter'[j])
         /\ \A l \in LangIds : CachedIn(l)' = CachedIn(l)
<1>1. new \in Iterators /\ new # NULL
  BY LookaheadAssumption DEF IterType
<1>2. iter' \in [IterIds -> Iterators \cup {NULL}]
  BY <1>1 DEF TypeInv
<1>3. iter'[i] = new /\ \A j \in IterIds \ {i} : iter'[j] = iter[j]
  BY DEF TypeInv
<1>4. \A j \in IterIds : Allocated(j)' => IterType(iter'[j])
  BY <1>3 DEF TypeInv, Allocated
<1>5. \A l \in LangIds : CachedIn(l)' = CachedIn(l)
  BY <1>1, <1>3 DEF CachedIn, Allocated
<1>6. QED
  BY <1>2, <1>4, <1>5

LEMMA IteratorMoves ==
  ASSUME LifeInv, NEW i \in IterIds, Allocated(i), NEW new, IterType(new),
         new.cached = iter[i].cached, iter' = [iter EXCEPT ![i] = new],
         UNCHANGED <<lang, rc, held, lost, parser>>
  PROVE  LifeInv'
<1>0. TypeInv /\ (\A l \in LangIds : rc[l] = Counted(l)) /\ FreedAtZero
  BY ExactCounts DEF LifeInv
<1>1. TypeInv' /\ FreedAtZero'
  BY <1>0, SameCached DEF TypeInv, FreedAtZero
<1>2. \A l \in LangIds : rc'[l] = Counted(l)'
  BY <1>0, SameCached, SameLost DEF Counted
<1>3. RefcountExact'
  BY <1>2 DEF RefcountExact, Counted, LostTo, CachedIn
<1>4. QED
  BY <1>1, <1>3 DEF LifeInv

LEMMA RestartStep ==
  ASSUME LifeInv, NEW i \in IterIds, Allocated(i), NEW g \in Grammars,
         NEW asked \in 0..MaxState, HasState(g, StateOf(asked)), Restart(i, g, asked),
         UNCHANGED <<lang, rc, held, lost, parser>>
  PROVE  LifeInv'
<1> DEFINE new == Started(g, asked, iter[i].cached)
<1>1. iter[i] \in Iterators
  BY DEF LifeInv, TypeInv, Allocated
<1>2. iter[i].cached \in LangIds
  BY <1>1 DEF Iterators
<1>3. IterType(new)
  BY <1>2, StartedType
<1>4. new.cached = iter[i].cached
  BY DEF Started
<1>5. iter' = [iter EXCEPT ![i] = new]
  BY DEF Restart
<1> HIDE DEF new
<1>6. QED
  BY <1>3, <1>4, <1>5, IteratorMoves

LEMMA ResetStep == LifeInv /\ (ResetState \/ Reset) => LifeInv'
<1> SUFFICES ASSUME LifeInv, ResetState \/ Reset PROVE LifeInv'
  OBVIOUS
<1>1. CASE ResetState
  <2>1. PICK i \in IterIds, asked \in 0..MaxState :
          /\ Allocated(i) /\ HasState(iter[i].native, StateOf(asked))
          /\ Restart(i, iter[i].native, asked)
    BY <1>1 DEF ResetState
  <2>2. iter[i].native \in Grammars
    BY <2>1 DEF LifeInv, TypeInv, Allocated, Iterators
  <2>3. QED
    BY <1>1, <2>1, <2>2, RestartStep DEF ResetState
<1>2. CASE Reset
  <2>1. PICK i \in IterIds, l \in held, asked \in 0..MaxState :
          /\ Allocated(i) /\ lang[l].native # NULL
          /\ HasState(lang[l].native, StateOf(asked))
          /\ Restart(i, lang[l].native, asked)
    BY <1>2 DEF Reset
  <2>2. l \in LangIds /\ lang[l] \in LangType
    BY InUse DEF LifeInv, TypeInv
  <2>3. lang[l].native \in Grammars
    BY <2>1, <2>2 DEF LangType
  <2>4. QED
    BY <1>2, <2>1, <2>3, RestartStep DEF Reset
<1>3. QED
  BY <1>1, <1>2

LEMMA IterateStep == LifeInv /\ Iterate => LifeInv'
<1> SUFFICES ASSUME LifeInv, Iterate PROVE LifeInv'
  OBVIOUS
<1>1. PICK i \in IterIds : /\ Allocated(i)
                          /\ \/ iter' = [iter EXCEPT ![i] = Advance(iter[i])]
                             \/ iter' = [iter EXCEPT ![i] = Drain(iter[i])]
  BY DEF Iterate
<1>2. IterType(iter[i])
  BY <1>1 DEF LifeInv, TypeInv
<1>3. QED
  BY <1>1, <1>2, AdvanceType, DrainType, IteratorMoves DEF Iterate

LEMMA LookaheadIteratorStep == LifeInv /\ LookaheadIterator => LifeInv'
<1> SUFFICES ASSUME LifeInv, LookaheadIterator PROVE LifeInv'
  OBVIOUS
<1>0. TypeInv /\ (\A l \in LangIds : rc[l] = Counted(l)) /\ FreedAtZero
  BY ExactCounts DEF LifeInv
<1>1. PICK i \in IterIds, x \in held, asked \in 0..MaxState :
        /\ ~Allocated(i) /\ lang[x].native # NULL
        /\ HasState(lang[x].native, StateOf(asked))
        /\ NewIterator(i, x, asked)
  BY DEF LookaheadIterator
<1> DEFINE new == Started(lang[x].native, asked, x)
           counts == [rc EXCEPT ![x] = @ + 1]
<1>2. x \in LangIds /\ lang[x] \in LangType /\ lang[x] # NULL
  BY InUse DEF LifeInv, TypeInv
<1>3. new \in Iterators /\ IterType(new) /\ new # NULL /\ new.cached = x
  <2>1. lang[x].native \in Grammars
    BY <1>1, <1>2 DEF LangType
  <2>2. new \in Iterators /\ IterType(new)
    BY <1>1, <1>2, <2>1, StartedType
  <2>3. QED
    BY <2>2, LookaheadAssumption DEF Started
<1>4. /\ iter' = [iter EXCEPT ![i] = new] /\ Count(lang, counts)
      /\ counts \in [LangIds -> Int] /\ UNCHANGED <<held, lost, parser>>
  <2>1. iter' = [iter EXCEPT ![i] = new] /\ Count(lang, Incref(rc, x))
    BY <1>1 DEF NewIterator
  <2>2. Incref(rc, x) = counts /\ counts \in [LangIds -> Int]
    BY <1>0, <1>2 DEF Incref, TypeInv
  <2>3. QED
    BY <2>1, <2>2 DEF LookaheadIterator
<1> HIDE DEF new
<1>5. ASSUME NEW l \in LangIds
      PROVE  counts[l] = Counted(l)' /\ (counts[l] # 0 => lang[l] # NULL)
  <2>1. LostTo(l)' = LostTo(l)
    BY <1>4, SameLost
  <2>2. Cardinality(LostTo(l)) \in Nat /\ Cardinality(CachedIn(l)) \in Nat
    BY <1>0, CountsType
  <2>3. Cardinality(CachedIn(l)') = Cardinality(CachedIn(l)) + (IF x = l THEN 1 ELSE 0)
    <3>1. Cardinality(CachedIn(l)')
            = Cardinality(CachedIn(l))
              - (IF Allocated(i) /\ iter[i].cached = l THEN 1 ELSE 0)
              + (IF new # NULL /\ new.cached = l THEN 1 ELSE 0)
      BY <1>0, <1>3, <1>4, CachedChange
    <3>2. QED
      BY <1>1, <1>3, <2>2, <3>1
  <2>4. counts[l] = rc[l] + (IF x = l THEN 1 ELSE 0) /\ rc[l] = Counted(l)
    BY <1>0 DEF TypeInv
  <2>5. counts[l] = Counted(l)'
    BY <1>4, <2>1, <2>2, <2>3, <2>4 DEF Counted
  <2>6. counts[l] # 0 => lang[l] # NULL
    BY <1>0, <1>2, <2>4 DEF FreedAtZero
  <2>7. QED
    BY <2>5, <2>6
<1>6. HoldersType'
  BY <1>0, <1>3, <1>4 DEF TypeInv, HoldersType, Allocated
<1>7. lang \in [LangIds -> LangType \cup {NULL}]
  BY <1>0 DEF TypeInv
<1> HIDE DEF counts
<1>8. QED
  BY <1>4, <1>5, <1>6, <1>7, CountedRight

LEMMA DropIteratorStep == LifeInv /\ DropIterator => LifeInv'
<1> SUFFICES ASSUME LifeInv, DropIterator PROVE LifeInv'
  OBVIOUS
<1>0. TypeInv /\ (\A l \in LangIds : rc[l] = Counted(l)) /\ FreedAtZero
  BY ExactCounts DEF LifeInv
<1>1. PICK i \in IterIds : /\ Allocated(i) /\ iter' = [iter EXCEPT ![i] = NULL]
                          /\ Count(lang, Decref(rc, iter[i].cached))
  BY DEF DropIterator
<1> DEFINE x == iter[i].cached
           counts == [rc EXCEPT ![x] = @ - 1]
<1>2. x \in LangIds /\ x # NULL
  <2>1. iter[i] \in Iterators
    BY <1>0, <1>1 DEF TypeInv, Allocated
  <2>2. QED
    BY <2>1, LookaheadAssumption DEF Iterators
<1>3. /\ Count(lang, counts) /\ counts \in [LangIds -> Int]
      /\ UNCHANGED <<held, lost, parser>>
  BY <1>0, <1>1, <1>2 DEF Decref, TypeInv, DropIterator
<1>4. rc[x] > 0 /\ lang[x] # NULL
  BY <1>1, <1>2, InUse
<1>5. ASSUME NEW l \in LangIds
      PROVE  counts[l] = Counted(l)' /\ (counts[l] # 0 => lang[l] # NULL)
  <2>1. LostTo(l)' = LostTo(l)
    BY <1>3, SameLost
  <2>2. Cardinality(LostTo(l)) \in Nat /\ Cardinality(CachedIn(l)) \in Nat
    BY <1>0, CountsType
  <2>3. Cardinality(CachedIn(l)') = Cardinality(CachedIn(l)) - (IF x = l THEN 1 ELSE 0)
    <3>1. NULL \in Iterators \cup {NULL}
      OBVIOUS
    <3>2. Cardinality(CachedIn(l)')
            = Cardinality(CachedIn(l))
              - (IF Allocated(i) /\ iter[i].cached = l THEN 1 ELSE 0)
              + (IF NULL # NULL /\ NULL.cached = l THEN 1 ELSE 0)
      BY <1>0, <1>1, <3>1, CachedChange
    <3>3. QED
      BY <1>1, <2>2, <3>2
  <2>4. counts[l] = rc[l] - (IF x = l THEN 1 ELSE 0) /\ rc[l] = Counted(l)
    BY <1>0, <1>2 DEF TypeInv
  <2>5. counts[l] = Counted(l)'
    BY <1>3, <2>1, <2>2, <2>3, <2>4 DEF Counted
  <2>6. counts[l] # 0 => lang[l] # NULL
    BY <1>0, <1>4, <2>4 DEF FreedAtZero
  <2>7. QED
    BY <2>5, <2>6
<1>6. HoldersType'
  BY <1>0, <1>1, <1>3 DEF TypeInv, HoldersType, Allocated
<1>7. lang \in [LangIds -> LangType \cup {NULL}]
  BY <1>0 DEF TypeInv
<1> HIDE DEF counts, x
<1>8. QED
  BY <1>3, <1>5, <1>6, <1>7, CountedRight

(* lookahead_iterator_get_language() with the cached object ...             *)
LEMMA GetCachedStep ==
  ASSUME LifeInv, NEW i \in IterIds, Allocated(i), GetCached(i), UNCHANGED parser
  PROVE  LifeInv'
<1> DEFINE x == iter[i].cached
           new == [iter[i] EXCEPT !.shown = lang[x].native]
<1>1. TypeInv /\ iter[i] \in Iterators /\ IterType(iter[i])
  BY DEF LifeInv, TypeInv, Allocated
<1>2. x \in LangIds /\ iter[i].native \in Grammars
  BY <1>1 DEF Iterators
<1>3. lang[x] # NULL
  BY <1>2, InUse
<1>4. /\ iter' = [iter EXCEPT ![i] = new] /\ lang[x].native = iter[i].native
      /\ Count(lang, Receive(rc, x)) /\ Keep(x) /\ UNCHANGED lost
  BY <1>1 DEF GetCached, IsCurrent, TypeInv
<1>5. new \in Iterators /\ new.cached = x /\ IterType(new)
  BY <1>1, <1>2, <1>4 DEF Iterators, IterType, SymbolsOf, HasState
<1>6. /\ iter' \in [IterIds -> Iterators \cup {NULL}]
      /\ \A j \in IterIds : Allocated(j)' => IterType(iter'[j])
      /\ \A l \in LangIds : CachedIn(l)' = CachedIn(l)
  BY <1>1, <1>4, <1>5, SameCached
<1>7. HoldersType'
  BY <1>1, <1>2, <1>4, <1>6 DEF TypeInv, HoldersType, Keep
<1> HIDE DEF new, x
<1>8. QED
  BY <1>2, <1>3, <1>4, <1>6, <1>7, Received

(* ... and with a new one, whose predecessor is lost.                       *)
LEMMA GetNewStep ==
  ASSUME LifeInv, NEW i \in IterIds, Allocated(i), GetNew(i), UNCHANGED parser
  PROVE  LifeInv'
<1>0. TypeInv /\ (\A l \in LangIds : rc[l] = Counted(l)) /\ FreedAtZero
  BY ExactCounts DEF LifeInv
<1> DEFINE it == iter[i]
           old == it.cached
           object == [native |-> it.native, abi |-> Abi[it.native], again |-> FALSE]
<1>1. it \in Iterators /\ IterType(it)
  BY <1>0 DEF TypeInv, Allocated
<1>2. old \in LangIds /\ old # NULL /\ it.native \in Grammars
  BY <1>1, LookaheadAssumption DEF Iterators
<1>3. PICK c \in Unused :
        /\ NewObject(c, object, Receive(Incref(rc, c), c))
        /\ iter' = [iter EXCEPT ![i].cached = c, ![i].shown = it.native]
        /\ Keep(c)
  BY DEF GetNew
<1>4. c \in LangIds /\ rc[c] = 0 /\ c \notin held /\ parser.language # c
  BY NotInUse
<1> DEFINE new == [it EXCEPT !.cached = c, !.shown = it.native]
           counts == [rc EXCEPT ![c] = @ + 2]
           objs == [lang EXCEPT ![c] = object]
<1>5. new \in Iterators /\ new # NULL /\ new.cached = c /\ IterType(new)
  <2>1. new \in Iterators /\ new.cached = c /\ IterType(new)
    BY <1>1, <1>2, <1>4 DEF Iterators, IterType, SymbolsOf, HasState
  <2>2. QED
    BY <2>1, LookaheadAssumption
<1>6. iter' = [iter EXCEPT ![i] = new] /\ lost' = Append(lost, old) /\ held' = held \cup {c}
  BY <1>0, <1>2, <1>3 DEF TypeInv, GetNew, Lose, Keep
<1>7. Receive(Incref(rc, c), c) = counts
  BY <1>0, <1>4 DEF Receive, Incref, TypeInv
<1>8. /\ Count(objs, counts) /\ counts \in [LangIds -> Int]
      /\ objs \in [LangIds -> LangType \cup {NULL}] /\ object # NULL
  <2>1. object \in LangType
    BY <1>2, LookaheadAssumption DEF LangType
  <2>2. object # NULL
    BY <2>1, LookaheadAssumption
  <2> HIDE DEF object
  <2>3. QED
    BY <1>0, <1>3, <1>4, <1>7, <2>1, <2>2 DEF NewObject, TypeInv
<1> HIDE DEF new, object
<1>9. ASSUME NEW l \in LangIds
      PROVE  counts[l] = Counted(l)' /\ (counts[l] # 0 => objs[l] # NULL)
  <2>1. Cardinality(LostTo(l)) \in Nat /\ Cardinality(CachedIn(l)) \in Nat
    BY <1>0, CountsType
  <2>2. Cardinality(CachedIn(l)')
          = Cardinality(CachedIn(l)) - (IF old = l THEN 1 ELSE 0) + (IF c = l THEN 1 ELSE 0)
    BY <1>0, <1>5, <1>6, <2>1, CachedChange
  <2>3. Cardinality(LostTo(l)') = Cardinality(LostTo(l)) + (IF old = l THEN 1 ELSE 0)
    BY <1>0, <1>2, <1>6, LostChange
  <2>4. counts[l] = rc[l] + (IF c = l THEN 2 ELSE 0) /\ rc[l] = Counted(l)
    BY <1>0, <1>4 DEF TypeInv
  <2>5. (l \in held') = (l \in held \/ l = c) /\ parser' = parser
    BY <1>6
  <2>6. counts[l] = Counted(l)'
    BY <1>4, <2>1, <2>2, <2>3, <2>4, <2>5 DEF Counted
  <2>7. counts[l] # 0 => objs[l] # NULL
    BY <1>0, <1>4, <1>8, <2>4 DEF FreedAtZero, TypeInv
  <2>8. QED
    BY <2>6, <2>7
<1>10. HoldersType'
  <2>1. lost' \in Seq(LangIds)
    BY <1>0, <1>2, <1>6 DEF TypeInv
  <2>2. QED
    BY <1>0, <1>4, <1>5, <1>6, <2>1 DEF TypeInv, HoldersType, Allocated
<1> HIDE DEF counts, objs
<1>11. QED
  BY <1>8, <1>9, <1>10, CountedRight

LEMMA GetLanguageStep == LifeInv /\ GetLanguage => LifeInv'
BY GetCachedStep, GetNewStep DEF GetLanguage

(* parser_set_language(): the attribute's old object is dropped and the new *)
(* one kept; a refused one changes no count.                                *)
LEMMA SetLanguageStep ==
  ASSUME LifeInv, NEW x \in held, SetLanguage(x), UNCHANGED <<held, lost, iter>>
  PROVE  LifeInv'
<1>0. TypeInv /\ (\A l \in LangIds : rc[l] = Counted(l)) /\ FreedAtZero
  BY ExactCounts DEF LifeInv
<1>1. x \in LangIds /\ lang[x] \in LangType /\ lang[x] # NULL
  BY <1>0, InUse DEF TypeInv
<1>2. CASE /\ parser' = [language |-> x, native |-> lang[x].native]
           /\ Count(lang, Incref(Decref(rc, parser.language), x))
  <2> DEFINE old == parser.language
             counts == Incref(Decref(rc, old), x)
  <2>1. old \in LangIds \cup {NULL}
    BY <1>0 DEF TypeInv
  <2>2. counts \in [LangIds -> Int]
    BY <1>0, <1>1, <2>1 DEF Incref, Decref, TypeInv
  <2>3. ASSUME NEW l \in LangIds
        PROVE  counts[l] = Counted(l)' /\ (counts[l] # 0 => lang[l] # NULL)
    <3>1. LostTo(l)' = LostTo(l) /\ CachedIn(l)' = CachedIn(l)
      BY SameLost, SameIterators
    <3>2. Cardinality(LostTo(l)) \in Nat /\ Cardinality(CachedIn(l)) \in Nat
      BY <1>0, CountsType
    <3>3. rc[l] \in Int /\ rc[l] = Counted(l) /\ l # NULL
      BY <1>0, LookaheadAssumption DEF TypeInv
    <3>4. counts[l] = rc[l] - (IF old = l THEN 1 ELSE 0) + (IF x = l THEN 1 ELSE 0)
      BY <1>0, <1>1, <2>1, <3>3 DEF Incref, Decref, TypeInv
    <3>5. parser'.language = x
      BY <1>2
    <3>6. counts[l] = Counted(l)'
      BY <3>1, <3>2, <3>3, <3>4, <3>5 DEF Counted
    <3>7. old = l => rc[l] > 0
      BY InUse
    <3>8. counts[l] # 0 => lang[l] # NULL
      BY <1>0, <1>1, <3>3, <3>4, <3>7 DEF FreedAtZero
    <3>9. QED
      BY <3>6, <3>8
  <2>4. HoldersType'
    BY <1>0, <1>1, <1>2 DEF TypeInv, HoldersType, Allocated, LangType
  <2>5. lang \in [LangIds -> LangType \cup {NULL}]
    BY <1>0 DEF TypeInv
  <2> HIDE DEF counts
  <2>6. QED
    BY <1>2, <2>2, <2>3, <2>4, <2>5, CountedRight DEF counts
<1>3. CASE /\ parser' \in {parser, [parser EXCEPT !.native = NULL]}
           /\ UNCHANGED <<lang, rc>>
  <2>1. parser' \in [language : LangIds \cup {NULL}, native : Grammars \cup {NULL}]
        /\ parser'.language = parser.language
    BY <1>0, <1>3 DEF TypeInv
  <2>2. TypeInv' /\ FreedAtZero'
    BY <1>0, <1>3, <2>1 DEF TypeInv, FreedAtZero, Allocated
  <2>3. RefcountExact'
    BY <1>3, <2>1 DEF LifeInv, RefcountExact, Allocated
  <2>4. QED
    BY <2>2, <2>3 DEF LifeInv
<1>4. QED
  BY <1>2, <1>3 DEF SetLanguage

LEMMA AssignLanguageStep == LifeInv /\ AssignLanguage => LifeInv'
BY SetLanguageStep DEF AssignLanguage

(* None: the reference of the attribute moves to those that are lost.       *)
LEMMA AssignNoneStep == LifeInv /\ AssignNone => LifeInv'
<1> SUFFICES ASSUME LifeInv, AssignNone PROVE LifeInv'
  OBVIOUS
<1>0. TypeInv /\ (\A l \in LangIds : rc[l] = Counted(l)) /\ FreedAtZero
  BY ExactCounts DEF LifeInv
<1> DEFINE old == parser.language
<1>1. old \in LangIds \cup {NULL} /\ parser' = [parser EXCEPT !.language = NULL]
      /\ UNCHANGED <<lang, rc, held, iter>>
  BY <1>0 DEF TypeInv, AssignNone
<1>2. parser' \in [language : LangIds \cup {NULL}, native : Grammars \cup {NULL}]
      /\ parser'.language = NULL
  BY <1>0, <1>1 DEF TypeInv
<1>3. CASE old = NULL
  <2>1. lost' = lost /\ parser'.language = parser.language
    BY <1>2, <1>3 DEF AssignNone, Lose
  <2>2. TypeInv' /\ FreedAtZero'
    BY <1>0, <1>1, <1>2, <2>1 DEF TypeInv, FreedAtZero, Allocated
  <2>3. RefcountExact'
    BY <1>1, <2>1 DEF LifeInv, RefcountExact, Allocated
  <2>4. QED
    BY <2>2, <2>3 DEF LifeInv
<1>4. CASE old # NULL
  <2>1. old \in LangIds /\ lost' = Append(lost, old)
    BY <1>1, <1>4 DEF AssignNone, Lose
  <2>2. lost' \in Seq(LangIds)
    BY <1>0, <2>1 DEF TypeInv
  <2>3. TypeInv' /\ FreedAtZero'
    BY <1>0, <1>1, <1>2, <2>2 DEF TypeInv, FreedAtZero, Allocated
  <2>4. ASSUME NEW l \in LangIds
        PROVE  rc'[l] = Counted(l)'
    <3>1. CachedIn(l)' = CachedIn(l) /\ l # NULL
      BY <1>1, SameIterators, LookaheadAssumption
    <3>2. Cardinality(LostTo(l)) \in Nat /\ Cardinality(CachedIn(l)) \in Nat
      BY <1>0, CountsType
    <3>3. Cardinality(LostTo(l)') = Cardinality(LostTo(l)) + (IF old = l THEN 1 ELSE 0)
      BY <1>0, <2>1, LostChange
    <3>4. rc'[l] = Counted(l)
      BY <1>0, <1>1
    <3>5. QED
      BY <1>1, <1>2, <3>1, <3>2, <3>3, <3>4 DEF Counted
  <2>5. RefcountExact'
    BY <2>4 DEF RefcountExact, Counted, LostTo, CachedIn
  <2>6. QED
    BY <2>3, <2>5 DEF LifeInv
<1>5. QED
  BY <1>3, <1>4

LEMMA LifeStep == LifeInv /\ [Next]_vars => LifeInv'
<1>1. LifeInv /\ UNCHANGED vars => LifeInv'
  BY DEF LifeInv, TypeInv, RefcountExact, FreedAtZero, Allocated, vars
<1>2. QED
  BY <1>1, NewLanguageStep, InitAgainStep, CopyStep, DropLanguageStep, LookaheadIteratorStep,
     ResetStep, GetLanguageStep, IterateStep, DropIteratorStep, AssignLanguageStep,
     AssignNoneStep, ReadAttributeStep DEF Next

LEMMA LifeInvariant == Spec => []LifeInv
<1>1. Init => LifeInv
  <2> SUFFICES ASSUME Init PROVE LifeInv
    OBVIOUS
  <2>1. TypeInv
    BY EmptySeq DEF Init, TypeInv, Allocated
  <2>2. FreedAtZero
    BY DEF Init, FreedAtZero
  <2>3. ASSUME NEW l \in LangIds
        PROVE  rc[l] = Counted(l)
    <3>1. CachedIn(l) = {} /\ LostTo(l) = {} /\ l # NULL
      BY LookaheadAssumption DEF Init, CachedIn, LostTo, Allocated
    <3>2. QED
      BY <3>1, FS_EmptySet DEF Init, Counted
  <2>4. RefcountExact
    BY <2>3, ExactCounts
  <2>5. QED
    BY <2>1, <2>2, <2>4 DEF LifeInv
<1>2. QED
  BY <1>1, LifeStep, PTL DEF Spec

(* Every ob_refcnt is the number of references to the Language: through any *)
(* sequence of construction, copying, iteration, resetting, assignment and  *)
(* deallocation, counted with the references that the getter and the None   *)
(* assignment lose.                                                         *)
THEOREM CountsExact == Spec => []RefcountExact
<1>1. LifeInv => RefcountExact
  BY DEF LifeInv
<1>2. QED
  BY <1>1, LifeInvariant, PTL

(* No Language is used after its deallocation: what the program, an iterator*)
(* or the parser's attribute holds is allocated; and a native iterator      *)
(* stands in a state of its language, at a position of its symbol list.     *)
THEOREM TypeCorrect == Spec => []TypeOK
<1>1. LifeInv => TypeOK
  <2> SUFFICES ASSUME LifeInv PROVE TypeOK
    OBVIOUS
  <2>1. TypeInv
    BY DEF LifeInv
  <2>2. ASSUME NEW i \in IterIds, Allocated(i)
        PROVE  IterType(iter[i]) /\ lang[iter[i].cached] # NULL
    <3>1. iter[i] \in Iterators
      BY <2>1, <2>2 DEF TypeInv, Allocated
    <3>2. QED
      BY <2>1, <2>2, <3>1, InUse DEF TypeInv, Iterators
  <2>3. \A l \in held : lang[l] # NULL
    BY <2>1, InUse DEF TypeInv
  <2>4. parser.language # NULL => lang[parser.language] # NULL
    BY <2>1, InUse DEF TypeInv
  <2>5. QED
    BY <2>1, <2>2, <2>3, <2>4 DEF TypeOK, TypeInv
<1>2. QED
  BY <1>1, LifeInvariant, PTL

-----------------------------------------------------------------------------
(* Symbols.  What an iterator has given is what its symbol list has up to   *)
(* the position, however next(), names() and symbols() took turns.          *)
InOrder(it) ==
  /\ it.wanted.grammar = it.native /\ it.wanted.state \in Nat
  /\ it.state = StateOf(it.wanted.state)
  /\ it.got = SubSeq(SymbolsOf(it), 1, it.pos)
  /\ it.ended => it.pos = Len(SymbolsOf(it))
  /\ it.shown \in {NULL, it.native}

OrderInv == \A i \in IterIds : Allocated(i) => InOrder(iter[i])

LEMMA StartedInOrder ==
  ASSUME NEW g \in Grammars, NEW asked \in 0..MaxState, NEW l
  PROVE  InOrder(Started(g, asked, l))
<1> DEFINE it == Started(g, asked, l)
<1>1. /\ it.wanted = [grammar |-> g, state |-> asked] /\ it.native = g
      /\ it.state = StateOf(asked) /\ it.got = <<>> /\ it.pos = 0 /\ it.ended = FALSE
      /\ it.shown = NULL
  BY DEF Started
<1> HIDE DEF it
<1>2. SubSeq(SymbolsOf(it), 1, 0) = <<>>
  BY SubSeqEmpty
<1>3. InOrder(it)
  BY <1>1, <1>2, StateType DEF InOrder
<1>4. QED
  BY <1>3 DEF it

LEMMA PrefixGrows ==
  ASSUME NEW S, NEW s \in Seq(S), NEW k \in Nat, k < Len(s)
  PROVE  Append(SubSeq(s, 1, k), s[k + 1]) = SubSeq(s, 1, k + 1)
<1> DEFINE long == SubSeq(s, 1, k + 1)
           short == SubSeq(s, 1, k)
           more == Append(short, s[k + 1])
<1>1. Len(s) \in Nat /\ \A n \in 1..Len(s) : s[n] \in S
  BY ElementOfSeq
<1>2. /\ long \in Seq(S) /\ Len(long) = k + 1
      /\ \A n \in 1..k + 1 : long[n] = s[n]
  <2>1. \A n \in 1..k + 1 : s[n] \in S
    BY <1>1
  <2>2. k + 1 \in Int /\ 1 \in Int /\ 1 <= k + 1
    OBVIOUS
  <2>3. QED
    BY <2>1, <2>2, SubSeqProperties
<1>3. /\ short \in Seq(S) /\ Len(short) = k
      /\ \A n \in 1..k : short[n] = s[n]
  <2>1. \A n \in 1..k : s[n] \in S
    BY <1>1
  <2>2. k \in Int /\ 1 \in Int
    OBVIOUS
  <2>3. QED
    BY <2>1, <2>2, SubSeqProperties
<1>4. s[k + 1] \in S
  BY <1>1
<1> HIDE DEF long, short
<1>5. /\ more \in Seq(S) /\ Len(more) = k + 1
      /\ more[k + 1] = s[k + 1] /\ \A n \in 1..k : more[n] = short[n]
  BY <1>3, <1>4, AppendProperties
<1> HIDE DEF more
<1>6. \A n \in 1..Len(more) : more[n] = long[n]
  BY <1>2, <1>3, <1>5
<1>7. more = long
  BY <1>2, <1>5, <1>6, SeqEqual
<1>8. QED
  BY <1>7 DEF more, long, short

LEMMA AdvanceInOrder ==
  ASSUME NEW it, IterType(it), InOrder(it)
  PROVE  InOrder(Advance(it))
<1> DEFINE all == SymbolsOf(it)
<1>1. all \in Seq(Symbols) /\ it.pos \in 0..Len(all) /\ it \in Iterators /\ Len(all) \in Nat
  BY SymbolsType DEF IterType
<1>2. CASE it.pos = Len(all)
  <2>1. Advance(it) = [it EXCEPT !.ended = TRUE]
    BY <1>2 DEF Advance
  <2>2. QED
    BY <1>1, <1>2, <2>1 DEF InOrder, Iterators, SymbolsOf
<1>3. CASE it.pos # Len(all)
  <2>1. it.pos + 1 \in 1..Len(all) /\ it.pos + 1 # 0
    BY <1>1, <1>3
  <2> DEFINE moved == [it EXCEPT !.pos = @ + 1]
  <2>2. CurrentSymbol(moved) = all[it.pos + 1] /\ moved.got = it.got
    BY <1>1, <2>1 DEF CurrentSymbol, SymbolsOf, Iterators
  <2>3. Advance(it) = [moved EXCEPT !.got = Append(it.got, all[it.pos + 1])]
    BY <1>3, <2>2 DEF Advance
  <2>4. Append(it.got, all[it.pos + 1]) = SubSeq(all, 1, it.pos + 1)
    BY <1>1, <1>3, PrefixGrows DEF InOrder
  <2>5. it.ended = FALSE
    BY <1>1, <1>3 DEF InOrder, Iterators
  <2> DEFINE next == Advance(it)
  <2>6. /\ next.got = SubSeq(all, 1, it.pos + 1) /\ next.pos = it.pos + 1
        /\ next.native = it.native /\ next.state = it.state /\ next.ended = FALSE
        /\ next.wanted = it.wanted /\ next.shown = it.shown
    BY <1>1, <2>3, <2>4, <2>5 DEF Iterators
  <2>7. SymbolsOf(next) = all
    BY <2>6 DEF SymbolsOf
  <2> HIDE DEF next, all
  <2>8. InOrder(next)
    BY <2>6, <2>7 DEF InOrder
  <2>9. QED
    BY <2>8 DEF next
<1>4. QED
  BY <1>2, <1>3

LEMMA DrainInOrder ==
  ASSUME NEW it, IterType(it), InOrder(it)
  PROVE  InOrder(Drain(it))
<1> DEFINE all == SymbolsOf(it)
           next == Drain(it)
<1>1. all \in Seq(Symbols) /\ it.pos \in 0..Len(all) /\ it \in Iterators /\ Len(all) \in Nat
  BY SymbolsType DEF IterType
<1>2. it.got \o SubSeq(all, it.pos + 1, Len(all)) = SubSeq(all, 1, Len(all))
  <2>1. 1 \in 1..Len(all) + 1 /\ it.pos \in 1 - 1..Len(all) /\ Len(all) \in it.pos..Len(all)
    BY <1>1
  <2>2. SubSeq(all, 1, it.pos) \o SubSeq(all, it.pos + 1, Len(all)) = SubSeq(all, 1, Len(all))
    BY <1>1, <2>1, ConcatAdjacentSubSeq
  <2>3. QED
    BY <2>2 DEF InOrder
<1>3. /\ next.got = SubSeq(all, 1, Len(all)) /\ next.pos = Len(all) /\ next.native = it.native
      /\ next.state = it.state /\ next.wanted = it.wanted /\ next.shown = it.shown
  BY <1>1, <1>2 DEF Drain, Iterators
<1>4. SymbolsOf(next) = all
  BY <1>3 DEF SymbolsOf
<1> HIDE DEF next, all
<1>5. InOrder(next)
  BY <1>3, <1>4 DEF InOrder
<1>6. QED
  BY <1>5 DEF next

LEMMA SmallModulo ==
  ASSUME NEW n \in Nat, n > 0, NEW x \in Nat, x < n
  PROVE  x % n = x
OBVIOUS

(* A state id that fits in 16 bits is the one the native iterator gets.     *)
LEMMA SmallState ==
  ASSUME NEW asked \in Nat, asked < StateModulus
  PROVE  StateOf(asked) = asked
<1>1. StateModulus \in Nat /\ StateModulus > 0
  BY LookaheadAssumption
<1>2. QED
  BY <1>1, SmallModulo DEF StateOf

(* Only four actions touch an iterator that stays allocated.                *)
LEMMA OrderStep == LifeInv /\ OrderInv /\ [Next]_vars => OrderInv'
<1> SUFFICES ASSUME LifeInv, OrderInv, [Next]_vars, NEW i \in IterIds, Allocated(i)'
             PROVE  InOrder(iter'[i])
  BY DEF OrderInv
<1>0. /\ TypeInv /\ iter \in [IterIds -> Iterators \cup {NULL}]
      /\ Allocated(i) => IterType(iter[i]) /\ InOrder(iter[i]) /\ iter[i] \in Iterators
      /\ \A l \in held : lang[l] \in LangType
  BY InUse DEF LifeInv, TypeInv, OrderInv, Allocated
<1>1. CASE UNCHANGED iter
  BY <1>0, <1>1 DEF Allocated
<1>2. CASE LookaheadIterator
  <2>1. PICK k \in IterIds, l \in held, asked \in 0..MaxState :
          lang[l].native # NULL /\ NewIterator(k, l, asked)
    BY <1>2 DEF LookaheadIterator
  <2>2. lang[l].native \in Grammars
    BY <1>0, <2>1 DEF LangType
  <2>3. iter' = [iter EXCEPT ![k] = Started(lang[l].native, asked, l)]
    BY <2>1 DEF NewIterator
  <2>4. InOrder(Started(lang[l].native, asked, l))
    BY <2>2, StartedInOrder
  <2>5. QED
    BY <1>0, <2>3, <2>4 DEF Allocated
<1>3. CASE ResetState \/ Reset
  <2>1. PICK k \in IterIds, g \in Grammars, asked \in 0..MaxState : Restart(k, g, asked)
    <3>1. CASE ResetState
      <4>1. PICK k \in IterIds, asked \in 0..MaxState :
              Allocated(k) /\ Restart(k, iter[k].native, asked)
        BY <3>1 DEF ResetState
      <4>2. iter[k].native \in Grammars
        BY <1>0, <4>1 DEF Allocated, Iterators
      <4>3. QED
        BY <4>1, <4>2
    <3>2. CASE Reset
      <4>1. PICK k \in IterIds, l \in held, asked \in 0..MaxState :
              lang[l].native # NULL /\ Restart(k, lang[l].native, asked)
        BY <3>2 DEF Reset
      <4>2. lang[l].native \in Grammars
        BY <1>0, <4>1 DEF LangType
      <4>3. QED
        BY <4>1, <4>2
    <3>3. QED
      BY <1>3, <3>1, <3>2
  <2>2. InOrder(Started(g, asked, iter[k].cached))
    BY StartedInOrder
  <2>3. iter' = [iter EXCEPT ![k] = Started(g, asked, iter[k].cached)]
    BY <2>1 DEF Restart
  <2>4. QED
    BY <1>0, <2>2, <2>3 DEF Allocated
<1>4. CASE GetLanguage
  <2>1. PICK k \in IterIds : Allocated(k) /\ (GetCached(k) \/ GetNew(k))
    BY <1>4 DEF GetLanguage
  <2>2. CASE i # k
    <3>1. iter'[i] = iter[i]
      BY <1>0, <2>1, <2>2 DEF GetCached, GetNew
    <3>2. QED
      BY <1>0, <3>1 DEF Allocated
  <2>3. CASE i = k
    <3>1. PICK c : iter'[i] = [iter[i] EXCEPT !.cached = c, !.shown = iter[i].native]
      <4>1. CASE GetCached(k)
        BY <1>0, <2>1, <2>3, <4>1 DEF GetCached, IsCurrent, Iterators, Allocated
      <4>2. CASE GetNew(k)
        BY <1>0, <2>1, <2>3, <4>2 DEF GetNew
      <4>3. QED
        BY <2>1, <4>1, <4>2
    <3>2. iter[i] \in Iterators /\ InOrder(iter[i])
      BY <1>0, <2>1, <2>3
    <3>3. QED
      BY <3>1, <3>2 DEF InOrder, SymbolsOf, Iterators
  <2>4. QED
    BY <2>2, <2>3
<1>5. CASE Iterate
  BY <1>0, <1>5, AdvanceInOrder, DrainInOrder DEF Iterate, Allocated
<1>6. CASE DropIterator
  BY <1>0, <1>6 DEF DropIterator, Allocated
<1>7. QED
  BY <1>1, <1>2, <1>3, <1>4, <1>5, <1>6
     DEF Next, vars, NewLanguage, InitAgain, Copy, DropLanguage, AssignLanguage, AssignNone,
         ReadAttribute

LEMMA OrderInvariant == Spec => [](LifeInv /\ OrderInv)
<1>1. Init => OrderInv
  BY DEF Init, OrderInv, Allocated
<1>2. QED
  BY <1>1, LifeInvariant, OrderStep, PTL DEF Spec

(* Whatever mixture of next(), names() and symbols() a program uses, it gets*)
(* each symbol that is valid in the state it asked for once and in order,   *)
(* and all of them before the end is reported, unless the state id wrapped. *)
THEOREM SymbolsInOrder == Spec => []GivenInOrder
<1>1. LifeInv /\ OrderInv => GivenInOrder
  <2> SUFFICES ASSUME LifeInv, OrderInv, NEW i \in IterIds, Allocated(i),
                      iter[i].wanted.state < StateModulus
               PROVE  LET expected == Valid[iter[i].wanted.grammar][iter[i].wanted.state + 1]
                      IN  /\ IsPrefix(iter[i].got, expected)
                          /\ iter[i].ended => iter[i].got = expected
    BY DEF GivenInOrder
  <2> DEFINE it == iter[i]
             all == SymbolsOf(it)
  <2>1. IterType(it) /\ InOrder(it)
    BY DEF LifeInv, TypeInv, OrderInv
  <2>2. all \in Seq(Symbols) /\ it.pos \in 0..Len(all) /\ Len(all) \in Nat
    BY <2>1, SymbolsType
  <2>3. all = Valid[it.wanted.grammar][it.wanted.state + 1]
    <3>1. StateOf(it.wanted.state) = it.wanted.state
      BY <2>1, SmallState DEF InOrder
    <3>2. QED
      BY <2>1, <3>1 DEF InOrder, SymbolsOf
  <2>4. Len(it.got) = it.pos
    <3>1. \A n \in 1..it.pos : all[n] \in Symbols
      BY <2>2, ElementOfSeq
    <3>2. Len(SubSeq(all, 1, it.pos)) = IF 1 <= it.pos THEN it.pos - 1 + 1 ELSE 0
      BY <2>2, <3>1, SubSeqProperties
    <3>3. QED
      BY <2>1, <2>2, <3>2 DEF InOrder
  <2>5. SubSeq(it.got, 1, Len(it.got)) = it.got
    <3>1. it.got \in Seq(Symbols)
      BY <2>1 DEF IterType, Iterators
    <3>2. QED
      BY <3>1, SubSeqFull
  <2>6. IsPrefix(it.got, all)
    BY <2>1, <2>2, <2>4, <2>5 DEF InOrder, IsPrefix
  <2>7. it.ended => it.got = all
    BY <2>1, <2>2, SubSeqFull DEF InOrder
  <2> HIDE DEF all
  <2>8. QED
    BY <2>3, <2>6, <2>7
<1>2. QED
  BY <1>1, OrderInvariant, PTL

(* The language attribute of an iterator names the language whose symbols   *)
(* it gives, after any resets to others and whatever became of the cached   *)
(* object.                                                                  *)
THEOREM LanguageShown == Spec => []ShownIsIterated
<1>1. OrderInv => ShownIsIterated
  BY DEF OrderInv, InOrder, ShownIsIterated
<1>2. QED
  BY <1>1, OrderInvariant, PTL

-----------------------------------------------------------------------------
(* Parser.language.  While the attribute keeps an object, a step leaves the *)
(* object alone or initialises it again: TypeOK' says it is not freed.      *)
LEMMA AttributeObject ==
  ASSUME LifeInv, TypeOK', [Next]_vars, parser.language # NULL,
         parser'.language = parser.language
  PROVE  \/ lang'[parser.language] = lang[parser.language]
         \/ lang'[parser.language].again
<1> DEFINE p == parser.language
<1>0. TypeInv /\ p \in LangIds /\ lang[p] # NULL /\ p \notin Unused /\ lang'[p] # NULL
  BY InUse DEF LifeInv, TypeInv, TypeOK, Unused
<1>1. ASSUME NEW objs, NEW counts, Count(objs, counts), objs[p] = lang[p]
      PROVE  lang'[p] = lang[p]
  BY <1>0, <1>1 DEF Count
<1>2. ASSUME NEW c \in Unused, NEW object, NEW counts, NewObject(c, object, counts)
      PROVE  lang'[p] = lang[p]
  <2>1. c # p /\ [lang EXCEPT ![c] = object][p] = lang[p]
    BY <1>0 DEF TypeInv
  <2>2. QED
    BY <1>1, <1>2, <2>1 DEF NewObject
<1>3. CASE NewLanguage \/ Copy
  BY <1>2, <1>3 DEF NewLanguage, Copy
<1>4. CASE InitAgain
  BY <1>0, <1>4 DEF InitAgain, TypeInv, Initialised, LangType
<1>5. CASE DropLanguage \/ LookaheadIterator \/ DropIterator \/ ReadAttribute
  BY <1>1, <1>5 DEF DropLanguage, LookaheadIterator, NewIterator, DropIterator, ReadAttribute
<1>6. CASE GetLanguage
  BY <1>1, <1>2, <1>6 DEF GetLanguage, GetCached, GetNew
<1>7. CASE ResetState \/ Reset \/ Iterate \/ AssignNone \/ UNCHANGED vars
  BY <1>7 DEF ResetState, Reset, Iterate, AssignNone, vars
<1>8. CASE AssignLanguage
  BY <1>1, <1>8 DEF AssignLanguage, SetLanguage
<1>9. QED
  BY <1>3, <1>4, <1>5, <1>6, <1>7, <1>8 DEF Next

LEMMA AttributeStep ==
  LifeInv /\ TypeOK' /\ AttributeHonest /\ [Next]_vars => AttributeHonest'
<1> SUFFICES ASSUME LifeInv, TypeOK', AttributeHonest, [Next]_vars,
                    parser'.language # NULL, ~lang'[parser'.language].again
             PROVE  parser'.native \in {NULL, lang'[parser'.language].native}
  BY DEF AttributeHonest
<1>0. TypeInv
  BY DEF LifeInv
<1>1. CASE UNCHANGED parser
  BY <1>1, AttributeObject DEF AttributeHonest
<1>2. CASE AssignLanguage
  <2>1. PICK l \in held : SetLanguage(l)
    BY <1>2 DEF AssignLanguage
  <2>2. CASE /\ parser' = [language |-> l, native |-> lang[l].native]
             /\ Count(lang, Incref(Decref(rc, parser.language), l))
    <3>1. l \in LangIds /\ lang'[l] # NULL
      BY <1>0, <2>2 DEF TypeInv, TypeOK
    <3>2. lang'[l] = lang[l]
      BY <2>2, <3>1 DEF Count
    <3>3. QED
      BY <2>2, <3>2
  <2>3. CASE parser' \in {parser, [parser EXCEPT !.native = NULL]} /\ UNCHANGED <<lang, rc>>
    BY <1>0, <2>3 DEF AttributeHonest, TypeInv
  <2>4. QED
    BY <2>1, <2>2, <2>3 DEF SetLanguage
<1>3. CASE AssignNone
  BY <1>0, <1>3 DEF AssignNone, TypeInv
<1>4. QED
  BY <1>1, <1>2, <1>3
     DEF Next, vars, NewLanguage, InitAgain, Copy, DropLanguage, LookaheadIterator, ResetState,
         Reset, GetLanguage, Iterate, DropIterator, ReadAttribute

(* A Parser that shows a Language parses with its native language or has    *)
(* none: neither a refused assignment nor the end of any other reference to *)
(* the object makes the attribute lie.  An object whose __init__() ran again*)
(* is excepted.                                                             *)
THEOREM AttributeTrue == Spec => []AttributeHonest
<1>1. Init => AttributeHonest
  BY DEF Init, AttributeHonest
<1>2. QED
  BY <1>1, LifeInvariant, TypeCorrect, AttributeStep, PTL DEF Spec
=============================================================================
