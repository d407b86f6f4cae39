--------------------------- MODULE QueryPredicates ---------------------------
(***************************************************************************)
(* The text predicates of a query: what query_satisfies_predicates() of    *)
(* src/tree_sitter/binding/query_predicates.c decides for a match, and the *)
(* meaning the predicates' names stand for, written down independently.    *)
(***************************************************************************)
EXTENDS Naturals, Sequences, FiniteSets, SequencesExt

CONSTANTS
  TextOf,       \* the text of each node
  Finds,        \* the pairs <<regular expression, text>> in which search() finds something
  Undecodable   \* texts that are not UTF-8: search() raises

(* The members of a sequence that are in a set, in their order.             *)
OnlyUpTo(s, A) ==
  LET upTo[n \in 0..Len(s)] ==
        IF n = 0 THEN <<>> ELSE IF s[n] \in A THEN Append(upTo[n - 1], s[n]) ELSE upTo[n - 1]
  IN  upTo

Only(s, A) == OnlyUpTo(s, A)[Len(s)]

(* A match is a record [pattern, captures]; captures is a sequence of       *)
(* records [index, node], where index is the number of the capture's name.  *)
NodesForCapture(index, match) ==
  LET of == Only(match.captures, {c \in ToSet(match.captures) : c.index = index})
  IN  [i \in DOMAIN of |-> of[i].node]

TextsFor(index, match) ==
  LET nodes == NodesForCapture(index, match)
  IN  [i \in DOMAIN nodes |-> TextOf[nodes[i]]]

(* PREDICATE_CMP: == for a positive predicate, != for a negative one.       *)
Compare(text1, text2, positive) == (text1 = text2) <=> positive

(* A loop with PREDICATE_BREAK: it stops at the first result that decides,  *)
(* and what counts is the last result it saw; without nodes it is satisfied.*)
LoopResult_Inverted(results, any) ==
  LET stop == SelectInSeq(results, LAMBDA r : r # any)
  IN  results = <<>> \/ results[IF stop = 0 THEN Len(results) ELSE stop]

LoopResult(results, any) ==
  LET stop == SelectInSeq(results, LAMBDA r : r = any)
  IN  results = <<>> \/ results[IF stop = 0 THEN Len(results) ELSE stop]

-----------------------------------------------------------------------------
(* The predicates as Query objects hold them, by kind.                      *)

SatisfiesAnyOf(p, match) ==
  LET texts == TextsFor(p.capture, match)
  IN  \A i \in DOMAIN texts :
        \E j \in DOMAIN p.values : Compare(texts[i], p.values[j], p.positive)

SatisfiesEqCapture(p, match) ==
  LET texts1 == TextsFor(p.capture, match)
      texts2 == TextsFor(p.other, match)
      l == IF Len(texts1) < Len(texts2) THEN Len(texts1) ELSE Len(texts2)
  IN  LoopResult([i \in 1..l |-> Compare(texts1[i], texts2[i], p.positive)], p.any)

SatisfiesEqString(p, match) ==
  LET texts == TextsFor(p.capture, match)
  IN  LoopResult([i \in DOMAIN texts |-> Compare(texts[i], p.string, p.positive)], p.any)

(* search() fails, and is taken to have found nothing, for a text it cannot *)
(* decode and whenever an exception is pending already.                     *)
Failing(texts, n, pending) ==
  pending \/ \E i \in 1..n : texts[i] \in Undecodable

MatchResults(p, match, pending) ==
  LET texts == TextsFor(p.capture, match)
  IN  [i \in DOMAIN texts |->
        (~Failing(texts, i, pending) /\ <<p.pattern, texts[i]>> \in Finds) <=> p.positive]

SatisfiesMatch(p, match, pending) == LoopResult(MatchResults(p, match, pending), p.any)

(* Does the predicate leave an exception behind?                            *)
MatchRaises(p, match, pending) ==
  LET results == MatchResults(p, match, pending)
      stop == SelectInSeq(results, LAMBDA r : r = p.any)
  IN  Failing(TextsFor(p.capture, match), IF stop = 0 THEN Len(results) ELSE stop, pending)

Satisfies(p, match, pending) ==
  CASE p.kind = "any-of"     -> SatisfiesAnyOf(p, match)
    [] p.kind = "eq capture" -> SatisfiesEqCapture(p, match)
    [] p.kind = "eq string"  -> SatisfiesEqString(p, match)
    [] p.kind = "match"      -> SatisfiesMatch(p, match, pending)

Raises(p, match, pending) ==
  IF p.kind = "match" THEN MatchRaises(p, match, pending) ELSE pending

-----------------------------------------------------------------------------
(* What the names say: a predicate holds of all nodes of its capture, or,   *)
(* with any-, of some if there are nodes; not- negates it for each node.    *)
(* not-any-of? is the exception: it negates for each value, so that a text  *)
(* has to differ from one of the values.  That is not to be any of them only*)
(* when there is one value; with two different values every text passes.    *)

Quantified(any, indices, Holds(_)) ==
  IF any /\ indices # {}
  THEN \E i \in indices : Holds(i)
  ELSE \A i \in indices : Holds(i)

AnyNames == {"any-eq?", "any-not-eq?", "any-match?", "any-not-match?"}
NotNames == {"not-eq?", "any-not-eq?", "not-match?", "any-not-match?", "not-any-of?"}
EqNames == {"eq?", "not-eq?", "any-eq?", "any-not-eq?"}
MatchNames == {"match?", "not-match?", "any-match?", "any-not-match?"}
AnyOfNames == {"any-of?", "not-any-of?"}

(* The meaning of a predicate of the query's source: its name and arguments,*)
(* each argument a record [type, value].                                    *)
Meaning(pred, match) ==
  LET texts == TextsFor(pred.args[1].value, match)
      second == pred.args[2]
      others == TextsFor(second.value, match)
      any == pred.name \in AnyNames
      Affirm(P) == IF pred.name \in NotNames THEN ~P ELSE P
  IN  /\ pred.name \in EqNames /\ second.type = "capture" =>
           Quantified(any, DOMAIN texts \cap DOMAIN others, LAMBDA i : Affirm(texts[i] = others[i]))
      /\ pred.name \in EqNames /\ second.type = "string" =>
           Quantified(any, DOMAIN texts, LAMBDA i : Affirm(texts[i] = second.value))
      /\ pred.name \in MatchNames =>
           Quantified(any, DOMAIN texts, LAMBDA i : Affirm(<<second.value, texts[i]>> \in Finds))
      /\ pred.name \in AnyOfNames =>
           Quantified(FALSE, DOMAIN texts,
             LAMBDA i : \E j \in 2..Len(pred.args) : Affirm(texts[i] = pred.args[j].value))
=============================================================================
