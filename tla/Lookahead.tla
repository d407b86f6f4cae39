------------------------------ MODULE Lookahead ------------------------------
(***************************************************************************)
(* Language and LookaheadIterator (language.c and lookahead_iterator.c of  *)
(* src/tree_sitter/binding), and the language attribute of a Parser.       *)
(*                                                                         *)
(* A Language wraps a native language and remembers the ABI version that   *)
(* language_init() asked it for.  Objects made in the two other ways,      *)
(* copy() and an iterator's language attribute, do not go through there.   *)
(* A method of a Language without a native language ends the process in    *)
(* the library: no action is such a call.                                  *)
(***************************************************************************)
EXTENDS Integers, Sequences, SequencesExt, FiniteSets

CONSTANTS
  LangIds, IterIds,    \* the Language objects and the iterators
  Grammars,            \* the native languages
  Abi,                 \* Abi[g]: the ABI version of g
  AbiMin, AbiMax,      \* the versions the library accepts
  StrayAbi,            \* what an abi_version nobody set may hold
  Symbols,             \* their symbols
  Valid,               \* Valid[g][s + 1]: the symbols valid in state s of g, in order
  ErrorSymbol,         \* the symbol of an iterator that has not advanced
  StateModulus,        \* one more than the largest state id, 2^16 in the code
  MaxState,            \* bound: the largest state id a program asks for
  MaxLost,             \* bound: how many references are never dropped
  NULL

Compatible(g) == Abi[g] \in AbiMin..AbiMax

(* The contents of a Language and of a LookaheadIterator.                   *)
LangType == [native : Grammars \cup {NULL}, abi : Nat, again : BOOLEAN]

Iterators ==
  [native : Grammars, state : Nat, pos : Nat, wanted : [grammar : Grammars, state : Nat],
   got : Seq(Symbols), ended : BOOLEAN, shown : Grammars \cup {NULL}, cached : LangIds]

ASSUME LookaheadAssumption ==
  /\ NULL \notin LangIds \cup Grammars \cup LangType \cup Iterators
  /\ Abi \in [Grammars -> Nat] /\ AbiMin \in Nat /\ AbiMax \in Nat /\ StrayAbi \subseteq Nat
  /\ StateModulus \in Nat \ {0} /\ MaxState \in Nat /\ MaxLost \in Nat
  /\ Valid \in [Grammars -> Seq(Seq(Symbols))]
  /\ \A g \in Grammars : Len(Valid[g]) <= StateModulus
  /\ IsFiniteSet(IterIds)

VARIABLES
  lang,    \* lang[l]: its native language and abi_version, and was it initialised
           \* again; NULL when it is not allocated
  rc,      \* rc[l]: its ob_refcnt
  held,    \* the Languages the program has a reference to
  lost,    \* the objects to which a holder was overwritten, one entry for each time
  iter,    \* the iterators, NULL when not allocated
  parser   \* the language attribute of a Parser and the native parser's language

vars == <<lang, rc, held, lost, iter, parser>>

Init ==
  /\ lang = [l \in LangIds |-> NULL] /\ rc = [l \in LangIds |-> 0] /\ held = {}
  /\ lost = <<>>
  /\ iter = [i \in IterIds |-> NULL]
  /\ parser = [language |-> NULL, native |-> NULL]

-----------------------------------------------------------------------------
(* References.  Count(objs, counts) frees what nobody refers to.            *)
Count(objs, counts) ==
  /\ rc' = counts
  /\ lang' = [l \in LangIds |-> IF counts[l] = 0 THEN NULL ELSE objs[l]]

Incref(counts, l) == [counts EXCEPT ![l] = @ + 1]

Decref(counts, l) == IF l = NULL THEN counts ELSE [counts EXCEPT ![l] = @ - 1]

(* The program receives l; of two references to one object it keeps one.    *)
Receive(counts, l) == IF l \in held THEN counts ELSE Incref(counts, l)

Keep(l) == held' = held \cup {l}

Allocated(i) == iter[i] # NULL

(* A reference that is overwritten and not dropped.                         *)
Lose(l) ==
  IF l = NULL THEN UNCHANGED lost
  ELSE /\ Len(lost) < MaxLost
       /\ lost' = Append(lost, l)

NewObject(c, object, counts) == Count([lang EXCEPT ![c] = object], counts)

Unused == {l \in LangIds : lang[l] = NULL}

-----------------------------------------------------------------------------
(* Language                                                                 *)

(* language_init() of a capsule or an address.                              *)
Initialised(g, again) == [native |-> g, abi |-> Abi[g], again |-> again]

NewLanguage ==
  /\ \E c \in Unused, g \in Grammars : NewObject(c, Initialised(g, FALSE), Incref(rc, c)) /\ Keep(c)
  /\ UNCHANGED <<lost, iter, parser>>

(* __init__() once more, with a good argument or with a capsule of another  *)
(* kind, whose NULL is stored before the error is raised.                   *)
InitAgain ==
  /\ \E l \in held :
       \/ \E g \in Grammars : lang' = [lang EXCEPT ![l] = Initialised(g, TRUE)]
       \/ lang' = [lang EXCEPT ![l].native = NULL, ![l].again = TRUE]
  /\ UNCHANGED <<rc, held, lost, iter, parser>>

(* language_copy(): PyObject_New() memory, only the native language is set. *)
Copy ==
  /\ \E l \in held, c \in Unused, stray \in StrayAbi :
       /\ NewObject(c, [native |-> lang[l].native, abi |-> stray, again |-> FALSE], Incref(rc, c))
       /\ Keep(c)
  /\ UNCHANGED <<lost, iter, parser>>

DropLanguage ==
  /\ \E l \in held : held' = held \ {l} /\ Count(lang, Decref(rc, l))
  /\ UNCHANGED <<lost, iter, parser>>

-----------------------------------------------------------------------------
(* LookaheadIterator                                                        *)

(* "H" arguments keep the low bits of what the program passed.              *)
StateOf(asked) == asked % StateModulus

(* The native iterator for a state; a state the language does not have is   *)
(* refused: lookahead_iterator() returns None and reset() False.            *)
HasState(g, s) == s < Len(Valid[g])

Started(g, asked, l) ==
  [native |-> g, state |-> StateOf(asked), pos |-> 0,
   wanted |-> [grammar |-> g, state |-> asked], got |-> <<>>, ended |-> FALSE, shown |-> NULL,
   cached |-> l]

SymbolsOf(it) == Valid[it.native][it.state + 1]

CurrentSymbol(it) == IF it.pos = 0 THEN ErrorSymbol ELSE SymbolsOf(it)[it.pos]

NewIterator_BorrowsLanguage(i, l, asked) ==
  /\ iter' = [iter EXCEPT ![i] = Started(lang[l].native, asked, l)]
  /\ UNCHANGED <<rc, lang>>

NewIterator(i, l, asked) ==
  /\ iter' = [iter EXCEPT ![i] = Started(lang[l].native, asked, l)]
  /\ Count(lang, Incref(rc, l))

LookaheadIterator ==
  /\ \E i \in IterIds, l \in held, asked \in 0..MaxState :
       /\ ~Allocated(i) /\ lang[l].native # NULL
       /\ HasState(lang[l].native, StateOf(asked))
       /\ NewIterator(i, l, asked)
  /\ UNCHANGED <<held, lost, parser>>

(* reset(state) keeps the native language, reset(state, language) takes     *)
(* another; the cached Language object stays as it is.                      *)
Restart(i, g, asked) ==
  iter' = [iter EXCEPT ![i] = Started(g, asked, @.cached)]

ResetState ==
  /\ \E i \in IterIds, asked \in 0..MaxState :
       /\ Allocated(i) /\ HasState(iter[i].native, StateOf(asked))
       /\ Restart(i, iter[i].native, asked)
  /\ UNCHANGED <<lang, rc, held, lost, parser>>

Reset ==
  /\ \E i \in IterIds, l \in held, asked \in 0..MaxState :
       /\ Allocated(i) /\ lang[l].native # NULL
       /\ HasState(lang[l].native, StateOf(asked))
       /\ Restart(i, lang[l].native, asked)
  /\ UNCHANGED <<lang, rc, held, lost, parser>>

(* The language attribute: the cached object while it wraps the native      *)
(* language of the iterator, otherwise a new one that takes its place.      *)
IsCurrent_AnyCached(it) == it.cached # NULL

IsCurrent(it) == it.cached # NULL /\ lang[it.cached].native = it.native

GetCached(i) ==
  /\ IsCurrent(iter[i])
  /\ iter' = [iter EXCEPT ![i].shown = lang[iter[i].cached].native]
  /\ Count(lang, Receive(rc, iter[i].cached)) /\ Keep(iter[i].cached)
  /\ UNCHANGED lost

(* Nothing drops the reference to the one that is replaced.                 *)
GetNew(i) ==
  /\ ~IsCurrent(iter[i])
  /\ \E c \in Unused :
       /\ NewObject(c, [native |-> iter[i].native, abi |-> Abi[iter[i].native],
                        again |-> FALSE], Receive(Incref(rc, c), c))
       /\ iter' = [iter EXCEPT ![i].cached = c, ![i].shown = iter[i].native]
       /\ Keep(c)
  /\ Lose(iter[i].cached)

GetLanguage ==
  /\ \E i \in IterIds : Allocated(i) /\ (GetCached(i) \/ GetNew(i))
  /\ UNCHANGED parser

(* next(): one symbol, or StopIteration.                                    *)
Advance(it) ==
  IF it.pos = Len(SymbolsOf(it)) THEN [it EXCEPT !.ended = TRUE]
  ELSE LET moved == [it EXCEPT !.pos = @ + 1]
       IN  [moved EXCEPT !.got = Append(@, CurrentSymbol(moved))]

(* names() and symbols() go on to the end from where the iterator is.       *)
Drain_KeepsCurrent(it) ==
  [it EXCEPT !.pos = Len(SymbolsOf(it)), !.ended = TRUE,
             !.got = Append(@, CurrentSymbol(it)) \o SubSeq(SymbolsOf(it), it.pos + 1, Len(SymbolsOf(it)))]

Drain(it) ==
  [it EXCEPT !.pos = Len(SymbolsOf(it)), !.ended = TRUE,
             !.got = @ \o SubSeq(SymbolsOf(it), it.pos + 1, Len(SymbolsOf(it)))]

Iterate ==
  /\ \E i \in IterIds : /\ Allocated(i)
                        /\ \/ iter' = [iter EXCEPT ![i] = Advance(@)]
                           \/ iter' = [iter EXCEPT ![i] = Drain(@)]
  /\ UNCHANGED <<lang, rc, held, lost, parser>>

DropIterator ==
  /\ \E i \in IterIds : /\ Allocated(i)
                        /\ iter' = [iter EXCEPT ![i] = NULL]
                        /\ Count(lang, Decref(rc, iter[i].cached))
  /\ UNCHANGED <<held, lost, parser>>

-----------------------------------------------------------------------------
(* Parser.language                                                          *)

(* parser_set_language() checks the abi_version of the object, and then the *)
(* library that of the native language; it takes none as well.              *)
Accepts(l) == lang[l].native \in {NULL} \cup {g \in Grammars : Compatible(g)}

SetLanguage_IgnoresRefusal(l) ==
  /\ parser' = [language |-> l, native |-> IF Accepts(l) THEN lang[l].native ELSE parser.native]
  /\ Count(lang, Incref(Decref(rc, parser.language), l))

SetLanguage_KeepsOld(l) ==
  /\ Accepts(l)
  /\ parser' = [language |-> l, native |-> lang[l].native]
  /\ Count(lang, Incref(rc, l))

SetLanguage(l) ==
  \/ /\ Accepts(l)
     /\ parser' = [language |-> l, native |-> lang[l].native]
     /\ Count(lang, Incref(Decref(rc, parser.language), l))
  \/ /\ ~Accepts(l)
     /\ parser' \in {parser, [parser EXCEPT !.native = NULL]}
     /\ UNCHANGED <<lang, rc>>

AssignLanguage ==
  /\ \E l \in held : lang[l].abi \in AbiMin..AbiMax /\ SetLanguage(l)
  /\ UNCHANGED <<held, lost, iter>>

(* The reference of the attribute is overwritten.                           *)
AssignNone ==
  /\ Lose(parser.language)
  /\ parser' = [parser EXCEPT !.language = NULL]
  /\ UNCHANGED <<lang, rc, held, iter>>

ReadAttribute ==
  /\ parser.language # NULL
  /\ Count(lang, Receive(rc, parser.language)) /\ Keep(parser.language)
  /\ UNCHANGED <<lost, iter, parser>>

Next ==
  \/ NewLanguage \/ InitAgain \/ Copy \/ DropLanguage
  \/ LookaheadIterator \/ ResetState \/ Reset \/ GetLanguage \/ Iterate \/ DropIterator
  \/ AssignLanguage \/ AssignNone \/ ReadAttribute

Spec == Init /\ [][Next]_vars

-----------------------------------------------------------------------------
IterType(it) ==
  /\ it \in Iterators
  /\ HasState(it.native, it.state) /\ it.pos <= Len(SymbolsOf(it))

(* Types: a native iterator always stands in a state of its language, and a *)
(* Language that the program, an iterator or the parser can use is          *)
(* allocated, whatever was dropped before.                                  *)
TypeOK ==
  /\ \A l \in LangIds : lang[l] = NULL \/ lang[l] \in LangType
  /\ \A i \in IterIds : Allocated(i) => IterType(iter[i]) /\ lang[iter[i].cached] # NULL
  /\ \A l \in held : lang[l] # NULL
  /\ parser.language # NULL => lang[parser.language] # NULL
  /\ parser.native \in Grammars \cup {NULL}

(* Every reference to a Language is accounted for: one for the program, for *)
(* each iterator that caches it and for the parser's attribute, and those   *)
(* that were lost when a getter or None overwrote them.                     *)
RefcountExact ==
  \A l \in LangIds :
    rc[l] = (IF l \in held THEN 1 ELSE 0) + (IF parser.language = l THEN 1 ELSE 0)
            + Cardinality({n \in DOMAIN lost : lost[n] = l})
            + Cardinality({i \in IterIds : Allocated(i) /\ iter[i].cached = l})

(* "The current language" of an iterator is the one its symbols come from,  *)
(* after any resets to others and after the cached object was initialised   *)
(* again as another language.                                               *)
ShownIsIterated ==
  \A i \in IterIds : Allocated(i) => iter[i].shown \in {NULL, iter[i].wanted.grammar}

(* next(), names() and symbols(), in any order and through any number of    *)
(* uses of the one position they share, give each symbol that is valid in   *)
(* the state asked for once and in order, and all of them by the time they  *)
(* report the end; a state id that does not wrap around is meant.           *)
GivenInOrder ==
  \A i \in IterIds :
    Allocated(i) /\ iter[i].wanted.state < StateModulus =>
      LET expected == Valid[iter[i].wanted.grammar][iter[i].wanted.state + 1]
      IN  /\ IsPrefix(iter[i].got, expected)
          /\ iter[i].ended => iter[i].got = expected

(* A Parser that shows a Language parses with it or, after the library      *)
(* refused a copy with a stray abi_version, not at all; an object that was  *)
(* initialised again meanwhile is excepted.                                 *)
AttributeHonest ==
  parser.language # NULL /\ ~lang[parser.language].again =>
    parser.native \in {NULL, lang[parser.language].native}
=============================================================================
