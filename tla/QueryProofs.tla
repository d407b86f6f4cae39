----------------------------- MODULE QueryProofs -----------------------------
(***************************************************************************)
(* Proofs about QueryPredicates and QueryCursor, for every value of their  *)
(* constants.                                                              *)
(***************************************************************************)
EXTENDS QueryBuildProofs, SequenceTheorems, WellFoundedInduction, TLAPS

-----------------------------------------------------------------------------
(* The loops that PREDICATE_BREAK leaves compute quantifiers.               *)

LEMMA UpTo ==
  ASSUME NEW n \in Nat
  PROVE  1..n = {} <=> n = 0
<1>1. CASE n = 0
  BY <1>1
<1>2. CASE n # 0
  <2>1. 1 \in 1..n
    BY <1>2
  <2>. QED  BY <1>2, <2>1
<1>. QED  BY <1>1, <1>2

LEMMA CommonUpTo ==
  ASSUME NEW m \in Nat, NEW n \in Nat
  PROVE  (1..m) \cap (1..n) = 1..(IF m < n THEN m ELSE n)
<1>1. CASE m < n
  <2>1. \A i : i \in (1..m) \cap (1..n) <=> i \in 1..m
    BY <1>1
  <2>. QED  BY <1>1, <2>1
<1>2. CASE ~(m < n)
  <2>1. \A i : i \in (1..m) \cap (1..n) <=> i \in 1..n
    BY <1>2
  <2>. QED  BY <1>2, <2>1
<1>. QED  BY <1>1, <1>2

LEMMA LeastElement ==
  ASSUME NEW T, T \subseteq Nat, T # {}
  PROVE  Min(T) \in T /\ \A y \in T : Min(T) <= y
<1>1. PICK x \in T : \A y \in T : ~(<<y, x>> \in OpToRel(<, Nat))
  BY NatLessThanWellFounded, WFMin
<1>2. ASSUME NEW y \in T, y < x  PROVE  FALSE
  <2>1. <<y, x>> \in Nat \X Nat /\ <<y, x>>[1] < <<y, x>>[2]
    BY <1>2
  <2>. QED  BY <1>1, <2>1 DEF OpToRel
<1>3. \A y \in T : x <= y
  BY <1>2
<1>. QED  BY <1>3 DEF Min

LEMMA FirstIndex ==
  ASSUME NEW s \in Seq(BOOLEAN), NEW any \in BOOLEAN
  PROVE  LET stop == SelectInSeq(s, LAMBDA r : r = any)
         IN  /\ stop = 0 => \A i \in 1..Len(s) : s[i] # any
             /\ stop # 0 => stop \in 1..Len(s) /\ s[stop] = any
<1>. DEFINE I == {i \in 1..Len(s) : s[i] = any}
<1>1. I # {} => Min(I) \in I
  <2>1. I \subseteq Nat
    OBVIOUS
  <2>. HIDE DEF I
  <2>. QED  BY <2>1, LeastElement
<1>2. SelectInSeq(s, LAMBDA r : r = any) = IF I # {} THEN Min(I) ELSE 0
  BY DEF SelectInSeq
<1>. QED  BY <1>1, <1>2

LEMMA LoopIsQuantifier ==
  ASSUME NEW s \in Seq(BOOLEAN), NEW any \in BOOLEAN
  PROVE  LoopResult(s, any) <=>
           IF any /\ s # <<>> THEN \E i \in 1..Len(s) : s[i] ELSE \A i \in 1..Len(s) : s[i]
<1>. DEFINE stop == SelectInSeq(s, LAMBDA r : r = any)
<1>1. /\ stop = 0 => \A i \in 1..Len(s) : s[i] # any
      /\ stop # 0 => stop \in 1..Len(s) /\ s[stop] = any
  BY FirstIndex
<1>2. LoopResult(s, any) <=> s = <<>> \/ s[IF stop = 0 THEN Len(s) ELSE stop]
  BY DEF LoopResult
<1>3. s # <<>> => Len(s) \in 1..Len(s)
  OBVIOUS
<1>4. \A i \in 1..Len(s) : s[i] \in BOOLEAN
  OBVIOUS
<1>. HIDE DEF stop
<1>. QED  BY <1>1, <1>2, <1>3, <1>4

LEMMA LoopOver ==
  ASSUME NEW n \in Nat, NEW h \in [1..n -> BOOLEAN], NEW any \in BOOLEAN
  PROVE  LoopResult(h, any) <=>
           IF any /\ n # 0 THEN \E i \in 1..n : h[i] ELSE \A i \in 1..n : h[i]
<1>1. h \in Seq(BOOLEAN) /\ Len(h) = n
  OBVIOUS
<1>2. h = <<>> <=> n = 0
  BY <1>1
<1>. QED  BY <1>1, <1>2, LoopIsQuantifier

-----------------------------------------------------------------------------
(* The predicate objects mean what the names in the query say.              *)

LEMMA ObjectNames ==
  ASSUME NEW p, NEW pred, ObjectOf(p, pred)
  PROVE  /\ p.positive \in BOOLEAN /\ (p.positive <=> pred.name \notin NotNames)
         /\ p.kind # "any-of" => p.any \in BOOLEAN /\ (p.any <=> pred.name \in AnyNames)
<1>1. p.positive \in BOOLEAN
  BY DEF ObjectOf
<1>2. p.kind # "any-of" => p.any \in BOOLEAN /\ (p.any <=> pred.name \in AnyNames)
  BY DEF ObjectOf
<1>3. CASE pred.name \in EqNames
  <2>1. p.positive <=> pred.name \in {"eq?", "any-eq?"}
    BY <1>3 DEF ObjectOf, EqNames, MatchNames, AnyOfNames
  <2>. QED  BY <1>1, <1>2, <1>3, <2>1 DEF EqNames, NotNames
<1>4. CASE pred.name \in MatchNames
  <2>1. p.positive <=> pred.name \in {"match?", "any-match?"}
    BY <1>4 DEF ObjectOf, EqNames, MatchNames, AnyOfNames
  <2>. QED  BY <1>1, <1>2, <1>4, <2>1 DEF MatchNames, NotNames
<1>5. CASE pred.name \in AnyOfNames
  <2>1. p.positive <=> pred.name = "any-of?"
    BY <1>5 DEF ObjectOf, EqNames, MatchNames, AnyOfNames
  <2>. QED  BY <1>1, <1>2, <1>5, <2>1 DEF AnyOfNames, NotNames
<1>. QED  BY <1>3, <1>4, <1>5 DEF ObjectOf

LEMMA EqStringMeaning ==
  ASSUME NEW p, NEW pred, NEW match, NEW S,
         ObjectOf(p, pred), p.kind = "eq string", TextsFor(p.capture, match) \in Seq(S)
  PROVE  SatisfiesEqString(p, match) <=> Meaning(pred, match)
<1>. DEFINE texts == TextsFor(p.capture, match)
            results == [i \in 1..Len(texts) |-> Compare(texts[i], p.string, p.positive)]
            Holds(i) == IF pred.name \in NotNames THEN ~(texts[i] = pred.args[2].value)
                        ELSE texts[i] = pred.args[2].value
<1>1. /\ pred.name \in EqNames /\ pred.args[2].type = "string"
      /\ p.string = pred.args[2].value /\ p.capture = pred.args[1].value
  BY DEF ObjectOf
<1>2. /\ p.positive \in BOOLEAN /\ (p.positive <=> pred.name \notin NotNames)
      /\ p.any \in BOOLEAN /\ (p.any <=> pred.name \in AnyNames)
  BY ObjectNames
<1>3. Meaning(pred, match) <=>
        IF pred.name \in AnyNames /\ DOMAIN texts # {}
        THEN \E i \in DOMAIN texts : Holds(i)
        ELSE \A i \in DOMAIN texts : Holds(i)
  <2>1. pred.args[2].type # "capture"
    BY <1>1
  <2>2. TextsFor(p.capture, match) = TextsFor(pred.args[1].value, match)
    BY <1>1
  <2>3. pred.name \notin MatchNames \cup AnyOfNames
    BY <1>1 DEF EqNames, MatchNames, AnyOfNames
  <2>. QED  BY <1>1, <2>1, <2>2, <2>3 DEF Meaning, Quantified
<1>4. Len(texts) \in Nat /\ DOMAIN texts = 1..Len(texts)
  <2>1. texts \in Seq(S)
    OBVIOUS
  <2>. HIDE DEF texts
  <2>. QED  BY <2>1, LenProperties
<1>5. results \in [1..Len(texts) -> BOOLEAN]
  BY DEF Compare
<1>6. SatisfiesEqString(p, match) <=> LoopResult(results, p.any)
  BY <1>4 DEF SatisfiesEqString
<1>7. LoopResult(results, p.any) <=>
        IF p.any /\ Len(texts) # 0 THEN \E i \in 1..Len(texts) : results[i]
        ELSE \A i \in 1..Len(texts) : results[i]
  <2>. HIDE DEF results
  <2>. QED  BY <1>2, <1>4, <1>5, LoopOver
<1>8. \A i \in 1..Len(texts) : results[i] <=> Holds(i)
  BY <1>1, <1>2 DEF Compare
<1>. HIDE DEF results, texts, Holds
<1>. QED  BY <1>2, <1>3, <1>4, <1>6, <1>7, <1>8, UpTo

(* search() may fail for a text behind the one that decides.                *)
LEMMA MatchMeaning ==
  ASSUME NEW p, NEW pred, NEW match, NEW S,
         ObjectOf(p, pred), p.kind = "match", TextsFor(p.capture, match) \in Seq(S),
         ~MatchRaises(p, match, FALSE)
  PROVE  SatisfiesMatch(p, match, FALSE) <=> Meaning(pred, match)
<1>. DEFINE texts == TextsFor(p.capture, match)
            results == MatchResults(p, match, FALSE)
            stop == SelectInSeq(results, LAMBDA r : r = p.any)
            seen == IF stop = 0 THEN Len(results) ELSE stop
            Holds(i) == IF pred.name \in NotNames
                        THEN ~(<<pred.args[2].value, texts[i]>> \in Finds)
                        ELSE <<pred.args[2].value, texts[i]>> \in Finds
<1>1. /\ pred.name \in MatchNames
      /\ p.pattern = pred.args[2].value /\ p.capture = pred.args[1].value
  BY DEF ObjectOf
<1>2. /\ p.positive \in BOOLEAN /\ (p.positive <=> pred.name \notin NotNames)
      /\ p.any \in BOOLEAN /\ (p.any <=> pred.name \in AnyNames)
  BY ObjectNames
<1>3. Meaning(pred, match) <=>
        IF pred.name \in AnyNames /\ DOMAIN texts # {}
        THEN \E i \in DOMAIN texts : Holds(i)
        ELSE \A i \in DOMAIN texts : Holds(i)
  <2>1. TextsFor(p.capture, match) = TextsFor(pred.args[1].value, match)
    BY <1>1
  <2>2. pred.name \notin EqNames \cup AnyOfNames
    BY <1>1 DEF EqNames, MatchNames, AnyOfNames
  <2>. QED  BY <1>1, <2>1, <2>2 DEF Meaning, Quantified
<1>4. Len(texts) \in Nat /\ DOMAIN texts = 1..Len(texts)
  <2>1. texts \in Seq(S)
    OBVIOUS
  <2>. HIDE DEF texts
  <2>. QED  BY <2>1, LenProperties
<1>. DEFINE l == Len(texts)
            Res(i) == (~Failing(texts, i, FALSE) /\ <<p.pattern, texts[i]>> \in Finds) <=> p.positive
<1>5. results = [i \in 1..l |-> Res(i)]
  BY <1>4 DEF MatchResults
<1>6. results \in Seq(BOOLEAN) /\ Len(results) = l /\ \A i \in 1..l : results[i] = Res(i)
  <2>1. \A i \in 1..l : Res(i) \in BOOLEAN
    OBVIOUS
  <2>. HIDE DEF Res, texts, results
  <2>. QED  BY <1>4, <1>5, <2>1
<1>7. /\ stop = 0 => \A i \in 1..l : results[i] # p.any
      /\ stop # 0 => stop \in 1..l /\ results[stop] = p.any
  <2>. HIDE DEF results
  <2>. QED  BY <1>2, <1>6, FirstIndex
<1>8. ~Failing(texts, seen, FALSE)
  BY DEF MatchRaises
<1>9. SatisfiesMatch(p, match, FALSE) <=> LoopResult(results, p.any)
  BY DEF SatisfiesMatch
<1>10. LoopResult(results, p.any) <=>
         IF p.any /\ l # 0 THEN \E i \in 1..l : results[i] ELSE \A i \in 1..l : results[i]
  <2>1. results = <<>> <=> l = 0
    <3>. HIDE DEF results, texts
    <3>. QED  BY <1>6
  <2>2. LoopResult(results, p.any) <=>
          IF p.any /\ results # <<>> THEN \E i \in 1..Len(results) : results[i]
          ELSE \A i \in 1..Len(results) : results[i]
    <3>. HIDE DEF results
    <3>. QED  BY <1>2, <1>6, LoopIsQuantifier
  <2>. HIDE DEF results, texts
  <2>. QED  BY <1>6, <2>1, <2>2
<1>. HIDE DEF stop, results
<1>11. ASSUME NEW i \in 1..l, i <= seen  PROVE  results[i] <=> Holds(i)
  <2>1. seen \in 0..l
    BY <1>4, <1>6, <1>7
  <2>2. ~Failing(texts, i, FALSE)
    <3>1. \A x \in 1..i : x \in 1..seen
      BY <1>4, <1>11, <2>1
    <3>. QED  BY <1>8, <3>1 DEF Failing
  <2>. QED  BY <1>1, <1>2, <1>6, <2>2
<1>. HIDE DEF Holds, Res, texts
<1>12. CASE stop = 0
  <2>1. \A i \in 1..l : i <= seen
    BY <1>4, <1>6, <1>12
  <2>2. \A i \in 1..l : results[i] <=> Holds(i)
    BY <1>11, <2>1
  <2>. QED  BY <1>2, <1>3, <1>4, <1>9, <1>10, <2>2, UpTo
<1>13. CASE stop # 0
  <2>1. stop \in 1..l /\ (results[stop] <=> Holds(stop)) /\ results[stop] = p.any
    BY <1>4, <1>7, <1>11, <1>13
  <2>2. DOMAIN texts # {} /\ l # 0 /\ stop \in DOMAIN texts
    BY <1>4, <2>1
  <2>. QED  BY <1>2, <1>3, <1>4, <1>9, <1>10, <2>1, <2>2
<1>. QED  BY <1>12, <1>13

LEMMA EqCaptureMeaning ==
  ASSUME NEW p, NEW pred, NEW match, NEW S,
         ObjectOf(p, pred), p.kind = "eq capture",
         TextsFor(p.capture, match) \in Seq(S), TextsFor(p.other, match) \in Seq(S)
  PROVE  SatisfiesEqCapture(p, match) <=> Meaning(pred, match)
<1>. DEFINE texts == TextsFor(p.capture, match)
            others == TextsFor(p.other, match)
            l == IF Len(texts) < Len(others) THEN Len(texts) ELSE Len(others)
            results == [i \in 1..l |-> Compare(texts[i], others[i], p.positive)]
            Holds(i) == IF pred.name \in NotNames THEN ~(texts[i] = others[i]) ELSE texts[i] = others[i]
<1>1. /\ pred.name \in EqNames /\ pred.args[2].type = "capture"
      /\ p.other = pred.args[2].value /\ p.capture = pred.args[1].value
  BY DEF ObjectOf
<1>2. /\ p.positive \in BOOLEAN /\ (p.positive <=> pred.name \notin NotNames)
      /\ p.any \in BOOLEAN /\ (p.any <=> pred.name \in AnyNames)
  BY ObjectNames
<1>3. Meaning(pred, match) <=>
        IF pred.name \in AnyNames /\ DOMAIN texts \cap DOMAIN others # {}
        THEN \E i \in DOMAIN texts \cap DOMAIN others : Holds(i)
        ELSE \A i \in DOMAIN texts \cap DOMAIN others : Holds(i)
  <2>1. pred.args[2].type # "string"
    BY <1>1
  <2>2. /\ TextsFor(p.capture, match) = TextsFor(pred.args[1].value, match)
        /\ TextsFor(p.other, match) = TextsFor(pred.args[2].value, match)
    BY <1>1
  <2>3. pred.name \notin MatchNames \cup AnyOfNames
    BY <1>1 DEF EqNames, MatchNames, AnyOfNames
  <2>. QED  BY <1>1, <2>1, <2>2, <2>3 DEF Meaning, Quantified
<1>4. l \in Nat /\ DOMAIN texts \cap DOMAIN others = 1..l
  <2>1. texts \in Seq(S) /\ others \in Seq(S)
    OBVIOUS
  <2>. HIDE DEF texts, others
  <2>2. /\ Len(texts) \in Nat /\ DOMAIN texts = 1..Len(texts)
        /\ Len(others) \in Nat /\ DOMAIN others = 1..Len(others)
    BY <2>1, LenProperties
  <2>. QED  BY <2>2, CommonUpTo
<1>5. (DOMAIN texts \cap DOMAIN others = {}) <=> l = 0
  <2>. HIDE DEF texts, others, l
  <2>. QED  BY <1>4, UpTo
<1>6. results \in [1..l -> BOOLEAN]
  BY DEF Compare
<1>7. SatisfiesEqCapture(p, match) <=> LoopResult(results, p.any)
  BY DEF SatisfiesEqCapture
<1>8. LoopResult(results, p.any) <=>
        IF p.any /\ l # 0 THEN \E i \in 1..l : results[i] ELSE \A i \in 1..l : results[i]
  <2>. HIDE DEF results, l
  <2>. QED  BY <1>2, <1>4, <1>6, LoopOver
<1>9. \A i \in 1..l : results[i] <=> Holds(i)
  <2>. HIDE DEF l, texts, others
  <2>. QED  BY <1>2, <1>4 DEF Compare
<1>. HIDE DEF results, texts, others, l, Holds
<1>. QED  BY <1>2, <1>3, <1>4, <1>5, <1>7, <1>8, <1>9

LEMMA AnyOfMeaning ==
  ASSUME NEW p, NEW pred, NEW match, NEW S,
         ObjectOf(p, pred), p.kind = "any-of",
         Len(pred.args) \in Nat \ {0}, TextsFor(p.capture, match) \in Seq(S)
  PROVE  SatisfiesAnyOf(p, match) <=> Meaning(pred, match)
<1>. DEFINE texts == TextsFor(p.capture, match)
            Holds(x, m) == IF pred.name \in NotNames THEN ~(x = pred.args[m].value)
                           ELSE x = pred.args[m].value
            Fits(i) == \E m \in 2..Len(pred.args) : Holds(texts[i], m)
            Some(i) == \E m \in DOMAIN p.values : Compare(texts[i], p.values[m], p.positive)
<1>1. /\ pred.name \in AnyOfNames /\ p.capture = pred.args[1].value
      /\ p.values = [i \in 1..Len(pred.args)-1 |-> pred.args[i + 1].value]
      /\ p.positive \in BOOLEAN
  BY DEF ObjectOf
<1>2. p.positive <=> pred.name \notin NotNames
  BY ObjectNames
<1>3. Meaning(pred, match) <=> \A i \in DOMAIN texts : Fits(i)
  <2>1. TextsFor(p.capture, match) = TextsFor(pred.args[1].value, match)
    BY <1>1
  <2>2. pred.name \notin EqNames \cup MatchNames
    BY <1>1 DEF EqNames, MatchNames, AnyOfNames
  <2>. QED  BY <1>1, <2>1, <2>2 DEF Meaning, Quantified
<1>4. DOMAIN p.values = 1..Len(pred.args)-1
  BY <1>1
<1>5. \A x : \A m \in DOMAIN p.values : Compare(x, p.values[m], p.positive) <=> Holds(x, m + 1)
  BY <1>1, <1>2, <1>4 DEF Compare
<1>6. ASSUME NEW i \in DOMAIN texts  PROVE  Some(i) <=> Fits(i)
  <2>. HIDE DEF texts, Holds
  <2>1. ASSUME NEW m \in 2..Len(pred.args)
        PROVE  m - 1 \in DOMAIN p.values /\ (m - 1) + 1 = m
    BY <1>4
  <2>2. ASSUME NEW m \in DOMAIN p.values  PROVE  m + 1 \in 2..Len(pred.args)
    BY <1>4
  <2>3. Some(i) => Fits(i)
    BY <1>5, <2>2
  <2>4. ASSUME Fits(i)  PROVE  Some(i)
    <3>1. PICK m \in 2..Len(pred.args) : Holds(texts[i], m)
      BY <2>4
    <3>2. PICK o \in DOMAIN p.values : o = m - 1 /\ o + 1 = m
      BY <2>1
    <3>. QED  BY <1>5, <3>1, <3>2
  <2>. QED  BY <2>3, <2>4
<1>7. SatisfiesAnyOf(p, match) <=> \A i \in DOMAIN texts : Some(i)
  BY DEF SatisfiesAnyOf
<1>. HIDE DEF texts, Fits, Some
<1>. QED  BY <1>3, <1>6, <1>7

(* An object of the walk decides as the name in the query means it, for all *)
(* captures and texts, unless search() raises: with any- some node is       *)
(* enough, a capture without nodes satisfies all, and not-any-of? holds of a*)
(* text that differs from one of its values.                                *)
THEOREM PredicateMeaning ==
  ASSUME NEW p, NEW pred, NEW match, NEW S,
         ObjectOf(p, pred), Len(pred.args) \in Nat \ {0},
         \A index : TextsFor(index, match) \in Seq(S), ~Raises(p, match, FALSE)
  PROVE  Satisfies(p, match, FALSE) <=> Meaning(pred, match)
<1>1. CASE p.kind = "eq string"
  BY <1>1, EqStringMeaning DEF Satisfies
<1>2. CASE p.kind = "eq capture"
  BY <1>2, EqCaptureMeaning DEF Satisfies
<1>3. CASE p.kind = "match"
  BY <1>3, MatchMeaning DEF Satisfies, Raises
<1>4. CASE p.kind = "any-of"
  BY <1>4, AnyOfMeaning DEF Satisfies
<1>. QED  BY <1>1, <1>2, <1>3, <1>4 DEF ObjectOf

-----------------------------------------------------------------------------
(* The exception of a callback stays pending until the call returns.        *)

(* While a call runs, an exception that was raised is still pending; when it*)
(* has returned, none is, and it has reported the one there was.            *)
ExceptionInv ==
  /\ pending \in BOOLEAN /\ raised \in BOOLEAN
  /\ pc \in {"native", "predicates", "callable"} => (raised <=> pending)
  /\ pc = "idle" => ~pending
  /\ pc = "idle" /\ outcome # "error" => ~raised

LEMMA RaisesKeepsPending ==
  ASSUME NEW p, NEW match
  PROVE  Raises(p, match, TRUE)
BY DEF Raises, MatchRaises, Failing

LEMMA ReturnStep ==
  ASSUME ExceptionInv, pc \in {"native", "predicates"}, NEW how,
         pending => how = "error", Return(how)
  PROVE  ExceptionInv'
BY DEF ExceptionInv, Return, callVars

LEMMA ExceptionStep ==
  ASSUME ~Catching, ExceptionInv, [Next]_vars
  PROVE  ExceptionInv'
<1>1. CASE Build
  BY <1>1 DEF Build, ExceptionInv, callVars
<1>2. CASE RejectArguments
  BY <1>2 DEF RejectArguments, ExceptionInv, callVars
<1>3. CASE Execute
  BY <1>3 DEF Execute, ExceptionInv
<1>4. CASE DropResult
  BY <1>4 DEF DropResult, ExceptionInv
<1>5. CASE Run
  <2>1. CASE NextMatch
    BY <2>1 DEF NextMatch, ExceptionInv, callVars
  <2>2. CASE Exhausted
    BY <2>2, ReturnStep DEF Exhausted, ExceptionInv
  <2>3. CASE ProgressContinues
    BY <2>3 DEF ProgressContinues, CallReturns, ExceptionInv, callVars
  <2>4. CASE ProgressCancels
    BY <2>4 DEF ProgressCancels, CallReturns, ExceptionInv
  <2>5. CASE ProgressRaises
    BY <2>5 DEF ProgressRaises, Fault, ExceptionInv, callVars
  <2>6. CASE TextPredicate
    <3>1. pc = "predicates" /\ (pc' = "predicates" \/ pc' = "native")
      BY <2>6 DEF TextPredicate, IsBuiltIn, Checking, Satisfied, Unsatisfied
    <3>2. pending => Raises(Objects[k], item.match, pending)
      BY RaisesKeepsPending DEF ExceptionInv
    <3>3. pending' = Raises(Objects[k], item.match, pending) /\ raised' = (raised \/ pending')
      BY <2>6 DEF TextPredicate
    <3>4. pending' \in BOOLEAN /\ (pending => pending')
      <4>1. pending' = pending \/ pending' = MatchRaises(Objects[k], item.match, pending)
        BY <3>3 DEF Raises
      <4>2. MatchRaises(Objects[k], item.match, pending) \in BOOLEAN
        BY Zenon DEF MatchRaises, Failing
      <4>. QED  BY <3>2, <3>3, <4>1, <4>2 DEF ExceptionInv
    <3>. QED  BY <3>1, <3>3, <3>4 DEF ExceptionInv
  <2>7. CASE TextFails
    BY <2>7 DEF TextFails, Fault, ExceptionInv, callVars
  <2>8. CASE WithoutCallable
    BY <2>8 DEF WithoutCallable, Checking, Satisfied, ExceptionInv, callVars
  <2>9. CASE CallPredicate
    BY <2>9 DEF CallPredicate, Checking, ExceptionInv, callVars
  <2>10. CASE PredicateAccepts
    BY <2>10 DEF PredicateAccepts, CallReturns, Satisfied, ExceptionInv
  <2>11. CASE PredicateRefuses
    BY <2>11 DEF PredicateRefuses, CallReturns, Unsatisfied, ExceptionInv
  <2>12. CASE PredicateUntestable
    BY <2>12 DEF PredicateUntestable, Satisfied, ExceptionInv
  <2>13. CASE PredicateRaises
    BY <2>13 DEF PredicateRaises, Unsatisfied, ExceptionInv
  <2>14. CASE PredicateReenters
    BY <2>14 DEF PredicateReenters, ExceptionInv
  <2>15. CASE PredicateMovesCaptures
    BY <2>15 DEF PredicateMovesCaptures, Fault, ExceptionInv, callVars
  <2>16. CASE Collect
    <3>1. CASE call.mode = "captures" /\ pending
      BY <2>16, <3>1, ReturnStep DEF Collect
    <3>2. CASE ~(call.mode = "captures" /\ pending)
      BY <2>16, <3>2 DEF Collect, ExceptionInv, callVars
    <3>. QED  BY <3>1, <3>2
  <2>. QED  BY <1>5, <2>1, <2>2, <2>3, <2>4, <2>5, <2>6, <2>7, <2>8, <2>9, <2>10,
                <2>11, <2>12, <2>13, <2>14, <2>15, <2>16 DEF Run
<1>6. CASE UNCHANGED vars
  BY <1>6 DEF vars, callVars, ExceptionInv
<1>. QED  BY <1>1, <1>2, <1>3, <1>4, <1>5, <1>6 DEF Next

(* If no callback handles an exception of its own while another is pending, *)
(* a call in which a callback, search() or a truth test raised ends with an *)
(* exception: the collected matches are never returned in its place.        *)
THEOREM ExceptionSafety == Spec => [](Catching \/ ExceptionReported)
<1>1. Init => ExceptionInv
  BY DEF Init, ExceptionInv
<1>2. ~Catching /\ ExceptionInv /\ [Next]_vars => ExceptionInv'
  BY ExceptionStep
<1>3. ExceptionInv => ExceptionReported
  BY DEF ExceptionInv, ExceptionReported, Returned
<1>4. CASE Catching
  BY <1>4, PTL
<1>5. CASE ~Catching
  BY <1>1, <1>2, <1>3, <1>5, PTL DEF Spec
<1>. QED  BY <1>4, <1>5

-----------------------------------------------------------------------------
(* What Only() keeps of a sequence: its recursion, solved on every prefix.  *)

LEMMA UpToInduction ==
  ASSUME NEW n \in Nat, NEW T, 0 \in T, \A i \in 1..n : i - 1 \in T => i \in T
  PROVE  \A i \in 0..n : i \in T
<1>. DEFINE Bad == {i \in 0..n : i \notin T}
<1>1. SUFFICES ASSUME Bad # {}  PROVE  FALSE
  OBVIOUS
<1>2. Bad \subseteq Nat
  OBVIOUS
<1>3. \A i : i \in Bad <=> i \in 0..n /\ i \notin T
  OBVIOUS
<1>. HIDE DEF Bad
<1>4. PICK x \in Bad : \A y \in Bad : x <= y
  BY <1>1, <1>2, LeastNumber
<1>5. x \in 1..n /\ x - 1 \in 0..n
  BY <1>3, <1>4
<1>6. x - 1 \notin Bad
  BY <1>4, <1>5
<1>. QED  BY <1>3, <1>4, <1>5, <1>6

(* Both recursions have a solution on every prefix: else on a shortest one  *)
(* there is none, and the solution on the one before can be extended.       *)
LEMMA OnlyRecursion ==
  ASSUME NEW s, Len(s) \in Nat, NEW A
  PROVE  /\ OnlyUpTo(s, A)[0] = <<>>
         /\ \A n \in 1..Len(s) :
              OnlyUpTo(s, A)[n] = IF s[n] \in A THEN Append(OnlyUpTo(s, A)[n - 1], s[n])
                                  ELSE OnlyUpTo(s, A)[n - 1]
<1>. DEFINE Rec(f, n) == IF n = 0 THEN <<>>
                         ELSE IF s[n] \in A THEN Append(f[n - 1], s[n]) ELSE f[n - 1]
            Solves(f, n) == f = [i \in 0..n |-> Rec(f, i)]
            T == {n \in Nat : \E f : Solves(f, n)}
<1>1. 0 \in T
  <2>. DEFINE f == [i \in 0..0 |-> <<>>]
  <2>1. \A i \in 0..0 : Rec(f, i) = <<>>
    OBVIOUS
  <2>2. Solves(f, 0)
    BY <2>1
  <2>. QED  BY <2>2
<1>2. ASSUME NEW n \in Nat, n \in T  PROVE  n + 1 \in T
  <2>1. PICK f : Solves(f, n)
    BY <1>2
  <2>. DEFINE g == [i \in 0..(n + 1) |-> IF i = n + 1 THEN Rec(f, n + 1) ELSE f[i]]
  <2>2. \A i \in 0..n : g[i] = f[i]
    OBVIOUS
  <2>3. \A i \in 0..(n + 1) : i # 0 => g[i - 1] = f[i - 1]
    <3>1. \A i \in 0..(n + 1) : i # 0 => i - 1 \in 0..n
      OBVIOUS
    <3>. HIDE DEF g
    <3>. QED  BY <3>1, <2>2
  <2>4. \A i \in 0..(n + 1) : Rec(g, i) = Rec(f, i)
    <3>. HIDE DEF g
    <3>. QED  BY <2>3
  <2>5. \A i \in 0..n : f[i] = Rec(f, i)
    <3>. HIDE DEF Rec
    <3>. QED  BY <2>1
  <2>6. \A i \in 0..(n + 1) : g[i] = Rec(f, i)
    <3>. HIDE DEF Rec
    <3>1. \A i \in 0..(n + 1) : i = n + 1 \/ i \in 0..n
      OBVIOUS
    <3>. QED  BY <2>2, <2>5, <3>1
  <2>7. Solves(g, n + 1)
    <3>1. g = [i \in 0..(n + 1) |-> g[i]]
      OBVIOUS
    <3>. HIDE DEF Rec, g
    <3>. QED  BY <3>1, <2>4, <2>6
  <2>. HIDE DEF Solves, g
  <2>. QED  BY <2>7
<1>3. Len(s) \in T
  <2>1. Len(s) \in Nat
    OBVIOUS
  <2>. HIDE DEF T
  <2>2. \A i \in 1..Len(s) : i - 1 \in T => i \in T
    <3>1. \A i \in 1..Len(s) : i - 1 \in Nat /\ (i - 1) + 1 = i
      OBVIOUS
    <3>. QED  BY <3>1, <1>2
  <2>3. Len(s) \in 0..Len(s)
    BY <2>1
  <2>. QED  BY <1>1, <2>1, <2>2, <2>3, UpToInduction
<1>. DEFINE upTo == CHOOSE f : Solves(f, Len(s))
<1>4. Solves(upTo, Len(s))
  <2>. HIDE DEF Solves
  <2>. QED  BY <1>3
<1>5. OnlyUpTo(s, A) = upTo
  BY DEF OnlyUpTo
<1>6. \A n \in 0..Len(s) : upTo[n] = Rec(upTo, n)
  <2>. HIDE DEF Rec, upTo
  <2>. QED  BY <1>4
<1>7. 0 \in 0..Len(s) /\ \A n \in 1..Len(s) : n \in 0..Len(s) /\ n # 0
  OBVIOUS
<1>8. /\ upTo[0] = <<>>
      /\ \A n \in 1..Len(s) :
           upTo[n] = IF s[n] \in A THEN Append(upTo[n - 1], s[n]) ELSE upTo[n - 1]
  <2>. HIDE DEF upTo
  <2>. QED  BY <1>6, <1>7, Zenon
<1>. HIDE DEF upTo
<1>. QED  BY <1>5, <1>8

LEMMA OnlyType ==
  ASSUME NEW S, NEW s \in Seq(S), NEW A, NEW n \in 0..Len(s)
  PROVE  OnlyUpTo(s, A)[n] \in Seq(S \cap A)
<1>. DEFINE f == OnlyUpTo(s, A)
            T == {i \in Nat : f[i] \in Seq(S \cap A)}
<1>1. 0 \in T
  <2>1. f[0] = <<>>
    BY OnlyRecursion
  <2>2. <<>> \in Seq(S \cap A)
    OBVIOUS
  <2>. QED  BY <2>1, <2>2, Zenon
<1>2. ASSUME NEW i \in 1..Len(s), i - 1 \in T  PROVE  i \in T
  <2>1. f[i] = IF s[i] \in A THEN Append(f[i - 1], s[i]) ELSE f[i - 1]
    BY OnlyRecursion
  <2>2. s[i] \in S /\ i \in Nat /\ f[i - 1] \in Seq(S \cap A)
    BY <1>2
  <2>. HIDE DEF f
  <2>3. f[i] \in Seq(S \cap A)
    BY <2>1, <2>2
  <2>. QED  BY <2>2, <2>3
<1>3. n \in T
  <2>1. Len(s) \in Nat
    OBVIOUS
  <2>. HIDE DEF T
  <2>. QED  BY <1>1, <1>2, <2>1, UpToInduction
<1>. QED  BY <1>3

(* It depends on which of the members so far are in the set.                *)
LEMMA OnlyAgrees ==
  ASSUME NEW s, Len(s) \in Nat, NEW A, NEW B, NEW n \in 0..Len(s),
         \A i \in 1..n : s[i] \in A <=> s[i] \in B
  PROVE  OnlyUpTo(s, A)[n] = OnlyUpTo(s, B)[n]
<1>. DEFINE f == OnlyUpTo(s, A)
            g == OnlyUpTo(s, B)
            T == {i \in Nat : f[i] = g[i]}
<1>1. 0 \in T
  <2>1. f[0] = <<>> /\ g[0] = <<>>
    BY OnlyRecursion
  <2>. QED  BY <2>1, Zenon
<1>2. ASSUME NEW i \in 1..n, i - 1 \in T  PROVE  i \in T
  <2>0. i \in 1..Len(s) /\ i \in Nat
    OBVIOUS
  <2>1. f[i] = IF s[i] \in A THEN Append(f[i - 1], s[i]) ELSE f[i - 1]
    BY <2>0, OnlyRecursion
  <2>2. g[i] = IF s[i] \in B THEN Append(g[i - 1], s[i]) ELSE g[i - 1]
    BY <2>0, OnlyRecursion
  <2>3. f[i - 1] = g[i - 1]
    BY <1>2
  <2>. HIDE DEF f, g
  <2>4. f[i] = g[i]
    BY <2>1, <2>2, <2>3
  <2>. QED  BY <2>0, <2>4
<1>3. n \in T
  <2>1. n \in Nat /\ n \in 0..n
    OBVIOUS
  <2>. HIDE DEF T
  <2>. QED  BY <1>1, <1>2, <2>1, UpToInduction
<1>. QED  BY <1>3

(* What is selected of a prefix is a prefix of what is selected.            *)
LEMMA OnlyPrefix ==
  ASSUME NEW S, NEW s \in Seq(S), NEW A, NEW n \in 0..Len(s)
  PROVE  \E m \in 0..Len(Only(s, A)) : OnlyUpTo(s, A)[n] = SubSeq(Only(s, A), 1, m)
<1>. DEFINE f == OnlyUpTo(s, A)
            U == S \cap A
            Fine(i) == Len(f[n]) <= Len(f[i]) /\ \A x \in 1..Len(f[n]) : f[i][x] = f[n][x]
            T == {i \in Nat : i >= n => Fine(i)}
<1>1. \A i \in 0..Len(s) : f[i] \in Seq(U)
  BY OnlyType
<1>2. \A i \in 1..Len(s) : f[i] = f[i - 1] \/ (f[i] = Append(f[i - 1], s[i]) /\ s[i] \in U)
  <2>1. SUFFICES ASSUME NEW i \in 1..Len(s)
                 PROVE  f[i] = f[i - 1] \/ (f[i] = Append(f[i - 1], s[i]) /\ s[i] \in U)
    OBVIOUS
  <2>2. f[i] = IF s[i] \in A THEN Append(f[i - 1], s[i]) ELSE f[i - 1]
    BY OnlyRecursion
  <2>3. s[i] \in S
    OBVIOUS
  <2>. HIDE DEF f
  <2>. QED  BY <2>2, <2>3
<1>. HIDE DEF f, U
<1>3. \A i \in 0..Len(s) : Len(f[i]) \in Nat
  BY <1>1
<1>4. Fine(n)
  BY <1>3
<1>5. 0 \in T
  <2>1. 0 >= n => n = 0
    OBVIOUS
  <2>. HIDE DEF Fine
  <2>. QED  BY <1>4, <2>1
<1>6. ASSUME NEW i \in 1..Len(s), i - 1 \in T  PROVE  i \in T
  <2>1. SUFFICES ASSUME i >= n  PROVE  Fine(i)
    OBVIOUS
  <2>2. CASE i = n
    BY <1>4, <2>2
  <2>3. CASE i # n
    <3>1. i - 1 >= n /\ i - 1 \in 0..Len(s)
      BY <2>1, <2>3
    <3>2. Fine(i - 1)
      BY <1>6, <3>1
    <3>3. Len(f[i - 1]) <= Len(f[i]) /\ \A x \in 1..Len(f[i - 1]) : f[i][x] = f[i - 1][x]
      <4>1. f[i - 1] \in Seq(U)
        BY <1>1, <3>1
      <4>2. CASE f[i] = f[i - 1]
        BY <4>1, <4>2
      <4>3. CASE f[i] = Append(f[i - 1], s[i]) /\ s[i] \in U
        BY <4>1, <4>3, AppendProperties
      <4>. QED  BY <1>2, <4>2, <4>3
    <3>4. \A x \in 1..Len(f[n]) : x \in 1..Len(f[i - 1])
      BY <1>3, <3>1, <3>2
    <3>5. Len(f[n]) <= Len(f[i])
      BY <1>3, <3>1, <3>2, <3>3
    <3>. QED  BY <3>2, <3>3, <3>4, <3>5
  <2>. QED  BY <2>2, <2>3
<1>7. Fine(Len(s))
  <2>1. Len(s) \in Nat /\ Len(s) \in 0..Len(s) /\ Len(s) >= n
    OBVIOUS
  <2>2. \A i \in T : i >= n => Fine(i)
    OBVIOUS
  <2>. HIDE DEF T, Fine
  <2>3. Len(s) \in T
    BY <1>5, <1>6, <2>1, UpToInduction
  <2>. QED  BY <2>1, <2>2, <2>3
<1>. DEFINE all == f[Len(s)]
            m == Len(f[n])
<1>8. all \in Seq(U) /\ m \in 0..Len(all) /\ f[n] \in Seq(U)
  <2>1. Len(s) \in 0..Len(s)
    OBVIOUS
  <2>. QED  BY <1>1, <1>3, <1>7, <2>1
<1>9. f[n] = SubSeq(all, 1, m)
  <2>. HIDE DEF all
  <2>1. \A i \in 1..m : all[i] \in U
    BY <1>8
  <2>2. m \in Int /\ 1 \in Int
    BY <1>8
  <2>3. /\ SubSeq(all, 1, m) \in Seq(U) /\ Len(SubSeq(all, 1, m)) = m
        /\ \A i \in 1..m : SubSeq(all, 1, m)[i] = all[i]
    <3>1. /\ SubSeq(all, 1, m) \in Seq(U)
          /\ Len(SubSeq(all, 1, m)) = IF 1 <= m THEN m - 1 + 1 ELSE 0
          /\ \A i \in 1..m - 1 + 1 : SubSeq(all, 1, m)[i] = all[1 + i - 1]
      BY <2>1, <2>2, SubSeqProperties
    <3>. HIDE DEF m
    <3>. QED  BY <1>8, <3>1
  <2>4. \A i \in 1..m : all[i] = f[n][i]
    BY <1>7 DEF all
  <2>. QED  BY <1>8, <2>3, <2>4, SeqEqual
<1>10. Only(s, A) = all
  BY DEF Only, f
<1>. HIDE DEF all, m
<1>. QED  BY <1>8, <1>9, <1>10 DEF f

-----------------------------------------------------------------------------
(* The items that the native cursor hands out.                              *)

FlattenUpTo(seqs) ==
  LET flatten[i \in 1..Len(seqs)] ==
        IF i = 1 THEN seqs[i] ELSE flatten[i-1] \o seqs[i]
  IN  flatten

LEMMA FlattenRecursion ==
  ASSUME NEW S, NEW seqs \in Seq(S), NEW n \in 1..Len(seqs)
  PROVE  FlattenUpTo(seqs)[n] =
           IF n = 1 THEN seqs[n] ELSE FlattenUpTo(seqs)[n - 1] \o seqs[n]
<1>. DEFINE Rec(f, x) == IF x = 1 THEN seqs[x] ELSE f[x - 1] \o seqs[x]
            Solves(f, x) == f = [i \in 1..x |-> Rec(f, i)]
            T == {x \in Nat : \E f : Solves(f, x)}
<1>1. 0 \in T
  <2>. DEFINE f == [i \in 1..0 |-> <<>>]
  <2>1. \A i \in 1..0 : FALSE
    OBVIOUS
  <2>2. Solves(f, 0)
    BY <2>1
  <2>. QED  BY <2>2
<1>2. ASSUME NEW x \in Nat, x \in T  PROVE  x + 1 \in T
  <2>1. PICK f : Solves(f, x)
    BY <1>2
  <2>. DEFINE g == [i \in 1..(x + 1) |-> IF i = x + 1 THEN Rec(f, x + 1) ELSE f[i]]
  <2>2. \A i \in 1..x : g[i] = f[i]
    OBVIOUS
  <2>3. \A i \in 1..(x + 1) : i # 1 => g[i - 1] = f[i - 1]
    <3>1. \A i \in 1..(x + 1) : i # 1 => i - 1 \in 1..x
      OBVIOUS
    <3>. HIDE DEF g
    <3>. QED  BY <3>1, <2>2
  <2>4. \A i \in 1..(x + 1) : Rec(g, i) = Rec(f, i)
    <3>. HIDE DEF g
    <3>. QED  BY <2>3
  <2>5. \A i \in 1..x : f[i] = Rec(f, i)
    <3>. HIDE DEF Rec
    <3>. QED  BY <2>1
  <2>6. \A i \in 1..(x + 1) : g[i] = Rec(f, i)
    <3>. HIDE DEF Rec
    <3>1. \A i \in 1..(x + 1) : i = x + 1 \/ i \in 1..x
      OBVIOUS
    <3>. QED  BY <2>2, <2>5, <3>1
  <2>7. Solves(g, x + 1)
    <3>1. g = [i \in 1..(x + 1) |-> g[i]]
      OBVIOUS
    <3>. HIDE DEF Rec, g
    <3>. QED  BY <3>1, <2>4, <2>6
  <2>. HIDE DEF Solves, g
  <2>. QED  BY <2>7
<1>3. Len(seqs) \in T
  <2>1. Len(seqs) \in Nat
    OBVIOUS
  <2>. HIDE DEF T
  <2>2. \A i \in 1..Len(seqs) : i - 1 \in T => i \in T
    <3>1. \A i \in 1..Len(seqs) : i - 1 \in Nat /\ (i - 1) + 1 = i
      OBVIOUS
    <3>. QED  BY <3>1, <1>2
  <2>3. Len(seqs) \in 0..Len(seqs)
    BY <2>1
  <2>. QED  BY <1>1, <2>1, <2>2, <2>3, UpToInduction
<1>. DEFINE upTo == CHOOSE f : Solves(f, Len(seqs))
<1>4. Solves(upTo, Len(seqs))
  <2>. HIDE DEF Solves
  <2>. QED  BY <1>3
<1>5. FlattenUpTo(seqs) = upTo
  BY DEF FlattenUpTo
<1>6. \A i \in 1..Len(seqs) : upTo[i] = Rec(upTo, i)
  <2>. HIDE DEF Rec, upTo
  <2>. QED  BY <1>4
<1>7. upTo[n] = IF n = 1 THEN seqs[n] ELSE upTo[n - 1] \o seqs[n]
  <2>. HIDE DEF upTo
  <2>. QED  BY <1>6, Zenon
<1>. HIDE DEF upTo
<1>. QED  BY <1>5, <1>7

MatchRecord == [pattern : Nat \ {0}, captures : Seq([index : Nat, node : DOMAIN TextOf])]

ItemRecord == [match : MatchRecord, capture : Nat, nth : Nat]

(* Items of the first matches of a run, each once.                          *)
ItemsWithin(its, run, n) ==
  /\ its \in Seq(ItemRecord)
  /\ \A a \in 1..Len(its) : its[a].nth \in 1..n /\ its[a].match = run[its[a].nth]
  /\ \A a, b \in 1..Len(its) :
       its[a].nth = its[b].nth /\ its[a].capture = its[b].capture => a = b

LEMMA ItemsOfMatch ==
  ASSUME NEW run \in Seq(MatchRecord), NEW n \in 1..Len(run)
  PROVE  LET its == [c \in DOMAIN run[n].captures |-> [match |-> run[n], capture |-> c, nth |-> n]]
         IN  /\ its \in Seq(ItemRecord)
             /\ \A a \in 1..Len(its) : its[a] = [match |-> run[n], capture |-> a, nth |-> n]
<1>. DEFINE l == Len(run[n].captures)
            It(c) == [match |-> run[n], capture |-> c, nth |-> n]
<1>1. run[n] \in MatchRecord
  OBVIOUS
<1>2. run[n].captures \in Seq([index : Nat, node : DOMAIN TextOf])
  BY <1>1 DEF MatchRecord
<1>3. l \in Nat /\ DOMAIN run[n].captures = 1..l
  BY <1>2
<1>4. \A c \in 1..l : It(c) \in ItemRecord
  BY <1>1, <1>3 DEF ItemRecord
<1>. HIDE DEF It, l
<1>5. [c \in 1..l |-> It(c)] \in Seq(ItemRecord) /\ Len([c \in 1..l |-> It(c)]) = l
  BY <1>3, <1>4
<1>. QED  BY <1>3, <1>5 DEF It

(* The native cursor hands out each match, or each capture of each match,   *)
(* once.                                                                    *)
LEMMA ItemsAre ==
  ASSUME NEW run \in Seq(MatchRecord), NEW mode \in {"matches", "captures"}
  PROVE  ItemsWithin(ItemsOf(mode, run), run, Len(run))
<1>. DEFINE its == ItemsOf(mode, run)
            l == Len(run)
<1>1. l \in Nat /\ DOMAIN run = 1..l
  OBVIOUS
<1>2. CASE mode = "matches"
  <2>. DEFINE It(n) == [match |-> run[n], capture |-> 0, nth |-> n]
  <2>1. its = [n \in 1..l |-> It(n)]
    BY <1>1, <1>2 DEF ItemsOf
  <2>2. \A n \in 1..l : It(n) \in ItemRecord
    BY DEF ItemRecord
  <2>3. its \in Seq(ItemRecord) /\ Len(its) = l
    <3>. HIDE DEF It, l, its
    <3>. QED  BY <1>1, <2>1, <2>2
  <2>4. \A a \in 1..l : its[a] = It(a)
    <3>. HIDE DEF It, its, l
    <3>. QED  BY <2>1
  <2>5. ASSUME NEW a \in 1..l  PROVE  its[a].nth = a /\ its[a].match = run[a]
    <3>1. its[a] = It(a)
      BY <2>4
    <3>. HIDE DEF its
    <3>. QED  BY <3>1
  <2>. HIDE DEF its, l
  <2>. QED  BY <2>3, <2>5 DEF ItemsWithin, its, l
<1>3. CASE mode = "captures"
  <2>. DEFINE Part(n) == [c \in DOMAIN run[n].captures |-> [match |-> run[n], capture |-> c, nth |-> n]]
              parts == [n \in 1..l |-> Part(n)]
              f == FlattenUpTo(parts)
              T == {n \in Nat : n # 0 => ItemsWithin(f[n], run, n)}
  <2>1. \A n \in 1..l : /\ Part(n) \in Seq(ItemRecord)
                        /\ \A a \in 1..Len(Part(n)) :
                             Part(n)[a] = [match |-> run[n], capture |-> a, nth |-> n]
    BY ItemsOfMatch
  <2>. HIDE DEF Part
  <2>2. parts \in Seq(Seq(ItemRecord)) /\ Len(parts) = l /\ \A n \in 1..l : parts[n] = Part(n)
    <3>. HIDE DEF l
    <3>. QED  BY <1>1, <2>1
  <2>3. its = FlattenSeq(parts)
    BY <1>1, <1>3 DEF ItemsOf, Part
  <2>4. its = IF l = 0 THEN parts ELSE f[l]
    BY <2>2, <2>3 DEF FlattenSeq, FlattenUpTo
  <2>. HIDE DEF parts, its
  <2>5. 0 \in T
    OBVIOUS
  <2>6. ASSUME NEW n \in 1..l, n - 1 \in T  PROVE  n \in T
    <3>. DEFINE p == Part(n)
    <3>1. /\ p \in Seq(ItemRecord) /\ Len(p) \in Nat
          /\ \A a \in 1..Len(p) : p[a] = [match |-> run[n], capture |-> a, nth |-> n]
      BY <2>1
    <3>2. f[n] = IF n = 1 THEN p ELSE f[n - 1] \o p
      <4>1. n \in 1..Len(parts) /\ parts[n] = p
        BY <2>2
      <4>2. f[n] = IF n = 1 THEN parts[n] ELSE f[n - 1] \o parts[n]
        BY <2>2, <4>1, FlattenRecursion
      <4>. HIDE DEF f, p
      <4>. QED  BY <4>1, <4>2
    <3>. HIDE DEF p, f
    <3>3. ASSUME NEW a \in 1..Len(p)
          PROVE  p[a].match = run[n] /\ p[a].capture = a /\ p[a].nth = n
      <4>1. p[a] = [match |-> run[n], capture |-> a, nth |-> n]
        BY <3>1
      <4>. QED  BY <4>1
    <3>4. CASE n = 1
      <4>1. ItemsWithin(p, run, n)
        BY <3>1, <3>3, <3>4 DEF ItemsWithin
      <4>2. n \in Nat /\ ItemsWithin(f[n], run, n)
        BY <3>2, <3>4, <4>1
      <4>. QED  BY <4>2
    <3>5. CASE n # 1
      <4>. DEFINE h == f[n - 1]
                  q == h \o p
      <4>1. ItemsWithin(h, run, n - 1) /\ n - 1 \in Nat
        BY <2>6, <3>5
      <4>2. h \in Seq(ItemRecord) /\ Len(h) \in Nat
        BY <4>1 DEF ItemsWithin
      <4>. HIDE DEF h
      <4>3. /\ q \in Seq(ItemRecord) /\ Len(q) = Len(h) + Len(p)
            /\ \A i \in 1..Len(h) + Len(p) : q[i] = IF i <= Len(h) THEN h[i] ELSE p[i - Len(h)]
        BY <3>1, <4>2, ConcatProperties
      <4>. HIDE DEF q
      <4>4. \A a \in 1..Len(q) : a <= Len(h) =>
              a \in 1..Len(h) /\ q[a] = h[a] /\ q[a].nth \in 1..n - 1 /\ q[a].match = run[q[a].nth]
        BY <4>1, <4>2, <4>3, <3>1 DEF ItemsWithin
      <4>5. \A a \in 1..Len(q) : ~(a <= Len(h)) =>
              /\ a - Len(h) \in 1..Len(p) /\ q[a] = p[a - Len(h)]
              /\ q[a].nth = n /\ q[a].match = run[n] /\ q[a].capture = a - Len(h)
        <5>1. \A a \in 1..Len(q) : ~(a <= Len(h)) => a - Len(h) \in 1..Len(p) /\ q[a] = p[a - Len(h)]
          BY <4>2, <4>3, <3>1
        <5>. QED  BY <5>1, <3>3
      <4>6. ASSUME NEW a \in 1..Len(q)  PROVE  q[a].nth \in 1..n /\ q[a].match = run[q[a].nth]
        BY <4>4, <4>5
      <4>7. ASSUME NEW a \in 1..Len(q), NEW b \in 1..Len(q),
                   q[a].nth = q[b].nth, q[a].capture = q[b].capture
            PROVE  a = b
        <5>1. a <= Len(h) /\ b <= Len(h) => a = b
          BY <4>1, <4>4, <4>7 DEF ItemsWithin
        <5>2. ~(a <= Len(h)) /\ ~(b <= Len(h)) => a = b
          BY <4>2, <4>3, <3>1, <4>5, <4>7
        <5>3. (a <= Len(h) <=> b <= Len(h))
          BY <4>4, <4>5, <4>7
        <5>. QED  BY <5>1, <5>2, <5>3
      <4>8. ItemsWithin(q, run, n)
        BY <4>3, <4>6, <4>7 DEF ItemsWithin
      <4>9. f[n] = q
        BY <3>2, <3>5 DEF q, h
      <4>10. ItemsWithin(f[n], run, n)
        BY <4>8, <4>9
      <4>11. n \in Nat
        BY <1>1
      <4>. QED  BY <4>10, <4>11
    <3>. QED  BY <3>4, <3>5
  <2>7. l \in T
    <3>1. l \in 0..l
      BY <1>1
    <3>. HIDE DEF T, l
    <3>. QED  BY <1>1, <2>5, <2>6, <3>1, UpToInduction
  <2>8. CASE l = 0
    <3>1. its \in Seq(ItemRecord) /\ Len(its) = 0
      <4>1. \A i \in 1..0 : FALSE
        OBVIOUS
      <4>2. its \in Seq(Seq(ItemRecord)) /\ Len(its) = 0
        BY <2>2, <2>4, <2>8
      <4>. QED  BY <4>1, <4>2
    <3>2. \A i \in 1..Len(its) : FALSE
      BY <3>1
    <3>. QED  BY <3>1, <3>2 DEF ItemsWithin, its
  <2>9. CASE l # 0
    BY <2>4, <2>7, <2>9 DEF its
  <2>. QED  BY <2>8, <2>9
<1>. QED  BY <1>2, <1>3

-----------------------------------------------------------------------------
(* What is left of them, and the types of a call's variables.               *)

LEMMA SuffixIs ==
  ASSUME NEW S, NEW s \in Seq(S), NEW n \in 0..Len(s)
  PROVE  IsSuffix(SubSeq(s, n + 1, Len(s)), s)
<1>. DEFINE t == SubSeq(s, n + 1, Len(s))
            l == Len(s)
            m == Len(t)
<1>1. l \in Nat
  OBVIOUS
<1>2. t \in Seq(S) /\ m = l - n /\ \A i \in 1..l - n : t[i] = s[n + i]
  <2>1. n + 1 \in Int /\ l \in Int
    BY <1>1
  <2>2. \A i \in n + 1..l : s[i] \in S
    <3>1. \A i \in n + 1..l : i \in 1..l
      BY <1>1
    <3>. QED  BY <3>1
  <2>3. /\ t \in Seq(S) /\ Len(t) = IF n + 1 <= l THEN l - (n + 1) + 1 ELSE 0
        /\ \A i \in 1..l - (n + 1) + 1 : t[i] = s[n + 1 + i - 1]
    BY <2>1, <2>2, SubSeqProperties
  <2>. HIDE DEF t, l
  <2>4. l - (n + 1) + 1 = l - n /\ (n + 1 <= l \/ n = l) /\ \A i \in 1..l - n : n + 1 + i - 1 = n + i
    BY <1>1 DEF l
  <2>5. Len(t) = l - n
    BY <1>1, <2>3, <2>4
  <2>. QED  BY <2>3, <2>4, <2>5
<1>3. m \in Nat /\ m <= l
  BY <1>1, <1>2
<1>. HIDE DEF t, m
<1>4. Len(Reverse(t)) = m /\ Len(Reverse(s)) = l
  BY <1>1, <1>3 DEF Reverse, m
<1>5. \A i \in 1..m : Reverse(t)[i] = Reverse(s)[i]
  <2>1. SUFFICES ASSUME NEW i \in 1..m  PROVE  Reverse(t)[i] = Reverse(s)[i]
    OBVIOUS
  <2>2. Reverse(t)[i] = t[(m - i) + 1] /\ Reverse(s)[i] = s[(l - i) + 1]
    BY <1>1, <1>3 DEF Reverse, m
  <2>3. (m - i) + 1 \in 1..l - n /\ n + ((m - i) + 1) = (l - i) + 1
    BY <1>1, <1>2, <1>3
  <2>. QED  BY <1>2, <2>2, <2>3
<1>6. SubSeq(Reverse(t), 1, m) = SubSeq(Reverse(s), 1, m)
  <2>1. \A i \in 1..m : Reverse(t)[i] \in S /\ Reverse(s)[i] \in S
    <3>1. SUFFICES ASSUME NEW i \in 1..m  PROVE  Reverse(s)[i] \in S
      BY <1>5
    <3>2. Reverse(s)[i] = s[(l - i) + 1] /\ (l - i) + 1 \in 1..l
      BY <1>1, <1>3 DEF Reverse
    <3>. QED  BY <3>2
  <2>2. 1 \in Int /\ m \in Int /\ m - 1 + 1 = m
    BY <1>3
  <2>3. \A x : (\A i \in 1..m : x[i] \in S) =>
          /\ SubSeq(x, 1, m) \in Seq(S) /\ Len(SubSeq(x, 1, m)) = m
          /\ \A i \in 1..m : SubSeq(x, 1, m)[i] = x[i]
    <3>1. SUFFICES ASSUME NEW x, \A i \in 1..m : x[i] \in S
                   PROVE  /\ SubSeq(x, 1, m) \in Seq(S) /\ Len(SubSeq(x, 1, m)) = m
                          /\ \A i \in 1..m : SubSeq(x, 1, m)[i] = x[i]
      OBVIOUS
    <3>2. /\ SubSeq(x, 1, m) \in Seq(S)
          /\ Len(SubSeq(x, 1, m)) = IF 1 <= m THEN m - 1 + 1 ELSE 0
          /\ \A i \in 1..m - 1 + 1 : SubSeq(x, 1, m)[i] = x[1 + i - 1]
      BY <2>2, <3>1, SubSeqProperties
    <3>. QED  BY <1>3, <3>2
  <2>4. /\ SubSeq(Reverse(t), 1, m) \in Seq(S) /\ SubSeq(Reverse(s), 1, m) \in Seq(S)
        /\ Len(SubSeq(Reverse(t), 1, m)) = Len(SubSeq(Reverse(s), 1, m))
        /\ \A i \in 1..Len(SubSeq(Reverse(t), 1, m)) :
             SubSeq(Reverse(t), 1, m)[i] = SubSeq(Reverse(s), 1, m)[i]
    BY <1>5, <2>1, <2>3
  <2>. QED  BY <2>4, SeqEqual
<1>. QED  BY <1>3, <1>4, <1>6 DEF IsSuffix, IsPrefix, t

(* What remains behind some of its members, when one more is taken.         *)
LEMMA RestTail ==
  ASSUME NEW S, NEW s \in Seq(S), NEW n \in 0..Len(s), SubSeq(s, n + 1, Len(s)) # <<>>
  PROVE  /\ n + 1 \in 1..Len(s)
         /\ Head(SubSeq(s, n + 1, Len(s))) = s[n + 1]
         /\ Tail(SubSeq(s, n + 1, Len(s))) = SubSeq(s, (n + 1) + 1, Len(s))
<1>1. Len(s) \in Nat
  OBVIOUS
<1>2. n # Len(s)
  <2>1. SUFFICES ASSUME n = Len(s)  PROVE  FALSE
    OBVIOUS
  <2>2. n + 1 \in Int /\ Len(s) \in Int /\ Len(s) < n + 1
    BY <1>1, <2>1
  <2>. QED  BY <2>2, SubSeqEmpty
<1>3. n + 1 \in 1..Len(s) /\ Len(s) \in n + 1..Len(s)
  BY <1>1, <1>2
<1>. QED  BY <1>3, HeadTailOfSubSeq

Items == ItemsOf(call.mode, call.run)

Running == pc \in {"native", "predicates", "callable"}

(* What the native cursor still has to find is a rest of the run the call   *)
(* began, or of one its callable began.                                     *)
RestOf(run) ==
  LET its == ItemsOf(call.mode, run)
  IN  \E n \in 0..Len(its) : left = SubSeq(its, n + 1, Len(its))

RunsBegun == IF inner = 0 THEN {call.run} ELSE InnerRuns

RestType == left = <<>> \/ \E run \in RunsBegun : RestOf(run)

RunType ==
  /\ pc \in {"idle", "native", "predicates", "callable", "faulted"}
  /\ call \in [mode : {"matches", "captures"}, run : Runs \cup {<<>>}, source : Sources \cup {"bytes"},
               callable : BOOLEAN]
  /\ k \in Nat \ {0} /\ outcome \in {"none", "ok", "error"}
  /\ cancelled \in BOOLEAN /\ inner \in Nat
  /\ pending \in BOOLEAN /\ raised \in BOOLEAN /\ (pending => raised)
  /\ pc = "callable" => Objects[k].kind = "generic" /\ call.callable
  /\ Running => built = "built"
  /\ pc = "idle" => left = <<>> /\ ~pending
  /\ pc = "idle" /\ outcome = "none" => inner = 0
  /\ RestType

(* A source that is wrong has no patterns.                                  *)
NoPatterns == built = "failed" => query = <<>> /\ stored = <<>> /\ step = 1 /\ j = 0

LEMMA ItemsType ==
  ASSUME NEW mode \in {"matches", "captures"}, NEW run \in Runs \cup {<<>>}
  PROVE  ItemsOf(mode, run) \in Seq(ItemRecord) /\ ItemsWithin(ItemsOf(mode, run), run, Len(run))
<1>1. run \in Seq(MatchRecord)
  <2>1. <<>> \in Seq(MatchRecord)
    OBVIOUS
  <2>2. Runs \subseteq Seq(MatchRecord)
    BY RunAssumption DEF MatchRecord
  <2>. QED  BY <2>1, <2>2
<1>2. ItemsWithin(ItemsOf(mode, run), run, Len(run))
  BY <1>1, ItemsAre
<1>. QED  BY <1>2 DEF ItemsWithin

LEMMA BuildWhileIdle ==
  ASSUME Build
  PROVE  /\ built # "built"
         /\ UNCHANGED <<pc, left, item, k, result, outcome, pending, callVars>>
BY DEF Build, BuildNext, RejectEq, AddEqCapture, AddEqString, RejectMatch, AddMatch, RejectAnyOf,
       AddAnyOf, RejectAssertion, AddAssertion, RejectSetting, AddSetting, AddGeneric,
       IsEq, IsMatch, IsAnyOf, IsAssertion, IsSetting, IsGeneric, Reading,
       StorePattern, ReturnQuery, Report

LEMMA NoPatternsStep == NoPatterns /\ [Next]_vars => NoPatterns'
<1>1. SUFFICES ASSUME NoPatterns, [Next]_vars  PROVE  NoPatterns'
  OBVIOUS
<1>2. CASE Build
  <2>1. CASE built = "failed"
    <3>1. Report
      BY <1>2, <2>1 DEF Build, BuildNext, RejectEq, AddEqCapture, AddEqString, RejectMatch, AddMatch,
         RejectAnyOf, AddAnyOf, RejectAssertion, AddAssertion, RejectSetting, AddSetting, AddGeneric,
         IsEq, IsMatch, IsAnyOf, IsAssertion, IsSetting, IsGeneric, Reading,
         StorePattern, ReturnQuery
    <3>. QED  BY <1>1, <2>1, <3>1 DEF Report, NoPatterns
  <2>2. CASE built # "failed"
    <3>1. built' # "failed"
      BY <1>2, <2>2 DEF Build, BuildNext, RejectEq, AddEqCapture, AddEqString, RejectMatch, AddMatch,
         RejectAnyOf, AddAnyOf, RejectAssertion, AddAssertion, RejectSetting, AddSetting, AddGeneric,
         Reject, Keep, KeepPredicate, StorePattern, ReturnQuery, Report
    <3>. QED  BY <3>1 DEF NoPatterns
  <2>. QED  BY <2>1, <2>2
<1>3. CASE RejectArguments \/ Execute \/ DropResult \/ Run \/ UNCHANGED vars
  BY <1>1, <1>3, UnbuiltSteps DEF buildVars, NoPatterns
<1>. QED  BY <1>1, <1>2, <1>3 DEF Next

(* The runs of a call are among those the constants list, or empty.        *)
LEMMA RunsBegunType ==
  ASSUME RunType
  PROVE  RunsBegun \subseteq Runs \cup {<<>>}
BY RunAssumption DEF RunType, RunsBegun

LEMMA RestStep ==
  ASSUME RunType, call' = call, inner' = inner,
         left' = left \/ left' = <<>> \/ (left # <<>> /\ left' = Tail(left))
  PROVE  RestType'
<1>1. RunsBegun' = RunsBegun
  BY DEF RunsBegun
<1>2. CASE left' = <<>>
  BY <1>2 DEF RestType
<1>3. CASE left' = left
  BY <1>1, <1>3 DEF RunType, RestType, RestOf
<1>4. CASE left # <<>> /\ left' = Tail(left)
  <2>1. PICK run \in RunsBegun : RestOf(run)
    BY <1>4 DEF RunType, RestType
  <2>. DEFINE its == ItemsOf(call.mode, run)
  <2>2. PICK n \in 0..Len(its) : left = SubSeq(its, n + 1, Len(its))
    BY <2>1 DEF RestOf
  <2>3. call.mode \in {"matches", "captures"} /\ run \in Runs \cup {<<>>}
    BY RunsBegunType DEF RunType
  <2>4. its \in Seq(ItemRecord)
    BY <2>3, ItemsType
  <2>5. ItemsOf(call.mode, run)' = its
    OBVIOUS
  <2>. HIDE DEF its
  <2>6. n + 1 \in 1..Len(its) /\ Tail(left) = SubSeq(its, (n + 1) + 1, Len(its))
    BY <1>4, <2>2, <2>4, RestTail
  <2>7. n + 1 \in 0..Len(its)
    BY <2>6
  <2>8. \E x \in 0..Len(its) : left' = SubSeq(its, x + 1, Len(its))
    BY <1>4, <2>6, <2>7
  <2>9. RestOf(run)'
    BY <2>5, <2>8 DEF RestOf
  <2>. QED  BY <1>1, <2>9 DEF RestType
<1>. QED  BY <1>2, <1>3, <1>4

(* What a step of a call that changes neither the query nor the arguments   *)
(* has to show.                                                             *)
LEMMA CallStep ==
  ASSUME RunType, Running, UNCHANGED <<buildVars, call>>,
         left' = left \/ left' = <<>> \/ (left # <<>> /\ left' = Tail(left)),
         pc' \in {"native", "predicates", "callable", "faulted"},
         k' \in Nat \ {0}, outcome' = outcome, inner' = inner,
         cancelled' \in BOOLEAN, pending' \in BOOLEAN, raised' \in BOOLEAN, pending' => raised',
         pc' = "callable" => Objects'[k'].kind = "generic" /\ call.callable
  PROVE  RunType'
<1>1. RestType'
  BY RestStep
<1>2. built' = built
  BY DEF buildVars
<1>. QED  BY <1>1, <1>2 DEF RunType, Running

LEMMA ReturnType ==
  ASSUME RunType, Running, NEW how \in {"ok", "error"}, Return(how)
  PROVE  RunType'
<1>1. RestType'
  BY DEF Return, RestType
<1>2. /\ pc' = "idle" /\ outcome' = how /\ pending' = FALSE /\ left' = <<>> /\ k' = 1
      /\ call' = call /\ raised' = raised
      /\ cancelled' = cancelled /\ inner' = inner
  BY DEF Return, callVars
<1>3. /\ call \in [mode : {"matches", "captures"}, run : Runs \cup {<<>>},
                  source : Sources \cup {"bytes"}, callable : BOOLEAN]
      /\ cancelled \in BOOLEAN /\ inner \in Nat /\ raised \in BOOLEAN
  BY DEF RunType
<1>4. pending' \in BOOLEAN /\ ~pending'
  BY <1>2, Zenon
<1>5. k' \in Nat \ {0}
  BY <1>2
<1>6. pc' = "idle" /\ pc' # "callable" /\ ~Running' /\ outcome' \in {"none", "ok", "error"}
  BY <1>2 DEF Running
<1>. QED  BY <1>1, <1>2, <1>3, <1>4, <1>5, <1>6, Zenon DEF RunType

LEMMA RaisesType ==
  ASSUME NEW p, NEW match, pending \in BOOLEAN
  PROVE  Raises(p, match, pending) \in BOOLEAN
BY Zenon DEF Raises, MatchRaises, Failing

LEMMA RunTypeStep == RunType /\ [Next]_vars => RunType'
<1>1. SUFFICES ASSUME RunType, [Next]_vars  PROVE  RunType'
  OBVIOUS
<1>2. CASE Build
  <2>1. /\ built # "built"
        /\ UNCHANGED <<pc, left, item, k, result, outcome, pending, callVars>>
    BY <1>2, BuildWhileIdle
  <2>2. ~Running /\ pc # "callable" /\ ~Running'
    BY <1>1, <2>1 DEF RunType, Running
  <2>3. call' = call /\ UNCHANGED <<raised, cancelled, inner>> /\ pending' = pending /\ left' = left
        /\ pc' = pc /\ k' = k /\ outcome' = outcome
    BY <2>1 DEF callVars
  <2>4. RestType'
    BY <1>1, <2>3, RestStep
  <2>. QED  BY <1>1, <2>2, <2>3, <2>4 DEF RunType
<1>3. CASE RejectArguments
  <2>1. /\ call' = call /\ UNCHANGED <<raised, cancelled, inner>> /\ pending' = pending /\ left' = left
        /\ pc' = pc /\ k' = k /\ outcome' = "error" /\ pc = "idle"
    BY <1>3 DEF RejectArguments, callVars
  <2>2. RestType'
    BY <1>1, <2>1, RestStep
  <2>. QED  BY <1>1, <2>1, <2>2 DEF RunType, Running
<1>4. CASE Execute
  <2>1. PICK mode \in {"matches", "captures"}, run \in Runs, source \in Sources, callable \in BOOLEAN :
          /\ call' = [mode |-> mode, run |-> run, source |-> source, callable |-> callable]
          /\ left' = ItemsOf(mode, run)
    BY <1>4 DEF Execute
  <2>2. /\ pc = "idle" /\ pc' = "native" /\ built = "built" /\ built' = built /\ k' = k
        /\ outcome' = outcome /\ pending' = pending /\ UNCHANGED <<raised, cancelled, inner>>
    BY <1>4 DEF Execute, buildVars
  <2>3. RestType'
    <3>. DEFINE its == ItemsOf(mode, run)
    <3>1. inner' = 0
      BY <1>1, <1>4, <2>2 DEF Execute, RunType
    <3>2. call'.mode = mode /\ call'.run = run
      BY <2>1
    <3>3. RunsBegun' = {run}
      BY <3>1, <3>2 DEF RunsBegun
    <3>4. its \in Seq(ItemRecord)
      BY ItemsType
    <3>5. ItemsOf(call.mode, run)' = its /\ left' = its
      BY <2>1, <3>2
    <3>. HIDE DEF its
    <3>6. SubSeq(its, 0 + 1, Len(its)) = its /\ 0 \in 0..Len(its)
      <4>1. SubSeq(its, 1, Len(its)) = its
        BY <3>4, SubSeqFull
      <4>2. Len(its) \in Nat
        BY <3>4
      <4>. QED  BY <4>1, <4>2
    <3>7. RestOf(run)'
      BY <3>5, <3>6 DEF RestOf
    <3>. QED  BY <3>3, <3>7 DEF RestType
  <2>4. call' \in [mode : {"matches", "captures"}, run : Runs \cup {<<>>}, source : Sources \cup {"bytes"},
                   callable : BOOLEAN]
    BY <2>1
  <2>. QED  BY <1>1, <2>2, <2>3, <2>4 DEF RunType, Running
<1>5. CASE DropResult
  <2>1. /\ pc = "idle" /\ pc' = pc /\ left' = left /\ k' = k /\ pending' = pending
        /\ outcome' = "none" /\ call' = NoCall /\ raised' = FALSE
        /\ cancelled' = FALSE /\ inner' = 0
    BY <1>5 DEF DropResult
  <2>2. call' \in [mode : {"matches", "captures"}, run : Runs \cup {<<>>}, source : Sources \cup {"bytes"},
                   callable : BOOLEAN]
    BY <2>1 DEF NoCall
  <2>3. RestType'
    BY <1>1, <2>1 DEF RunType, RestType
  <2>. QED  BY <1>1, <2>1, <2>2, <2>3 DEF RunType, Running
<1>6. CASE Run
  <2>0. k \in Nat \ {0} /\ k + 1 \in Nat \ {0} /\ 1 \in Nat \ {0} /\ pending \in BOOLEAN
    BY <1>1 DEF RunType
  <2>1. CASE NextMatch
    BY <1>1, <2>1, CallStep DEF NextMatch, RunType, Running, callVars
  <2>2. CASE Exhausted
    BY <1>1, <2>2, ReturnType DEF Exhausted, Running
  <2>3. CASE ProgressContinues
    BY <1>1, <2>3, CallStep DEF ProgressContinues, RunType, Running, callVars
  <2>4. CASE ProgressCancels
    BY <1>1, <2>4, CallStep DEF ProgressCancels, RunType, Running
  <2>5. CASE ProgressRaises
    BY <1>1, <2>5, CallStep DEF ProgressRaises, Fault, RunType, Running, callVars
  <2>6. CASE TextPredicate
    <3>1. pc = "predicates" /\ pc' \in {"predicates", "native"}
      BY <2>6 DEF TextPredicate, IsBuiltIn, Checking, Satisfied, Unsatisfied
    <3>2. pending' \in BOOLEAN
      BY <2>0, <2>6, RaisesType DEF TextPredicate
    <3>3. raised' = (raised \/ pending') /\ UNCHANGED <<call, cancelled, inner>>
      BY <2>6 DEF TextPredicate
    <3>4. UNCHANGED buildVars /\ left' = left /\ k' \in {k, k + 1} /\ outcome' = outcome
      BY <2>6 DEF TextPredicate, Satisfied, Unsatisfied
    <3>5. raised' \in BOOLEAN /\ (pending' => raised')
      BY <1>1, <3>2, <3>3 DEF RunType
    <3>. QED  BY <1>1, <2>0, <3>1, <3>2, <3>3, <3>4, <3>5, CallStep DEF RunType, Running
  <2>7. CASE TextFails
    BY <1>1, <2>7, CallStep DEF TextFails, IsBuiltIn, Checking, Fault, RunType, Running, callVars
  <2>8. CASE WithoutCallable
    BY <1>1, <2>0, <2>8, CallStep DEF WithoutCallable, Checking, Satisfied, RunType, Running, callVars
  <2>9. CASE CallPredicate
    <3>1. /\ pc = "predicates" /\ pc' = "callable" /\ Objects[k].kind = "generic" /\ call.callable
          /\ UNCHANGED buildVars /\ left' = left /\ k' = k /\ outcome' = outcome
          /\ pending' = pending /\ call' = call /\ UNCHANGED <<raised, cancelled, inner>> /\ item' = item
      BY <2>9 DEF CallPredicate, Checking, callVars
    <3>2. Objects' = Objects
      BY <3>1 DEF Objects, buildVars
    <3>. QED  BY <1>1, <3>1, <3>2, CallStep DEF RunType, Running
  <2>10. CASE PredicateAccepts
    BY <1>1, <2>0, <2>10, CallStep DEF PredicateAccepts, Satisfied, RunType, Running
  <2>11. CASE PredicateRefuses
    BY <1>1, <2>11, CallStep DEF PredicateRefuses, Unsatisfied, RunType, Running
  <2>12. CASE PredicateUntestable
    BY <1>1, <2>0, <2>12, CallStep DEF PredicateUntestable, Satisfied, RunType, Running
  <2>13. CASE PredicateRaises
    BY <1>1, <2>13, CallStep DEF PredicateRaises, Unsatisfied, RunType, Running
  <2>14. CASE PredicateReenters
    <3>1. PICK run \in InnerRuns :
            /\ \E n \in 0..Len(ItemsOf(call.mode, run)) :
                 left' = SubSeq(ItemsOf(call.mode, run), n + 1, Len(ItemsOf(call.mode, run)))
            /\ \E captures \in Overwritten(item.match.captures, run) :
                 item' = [match |-> [pattern |-> item.match.pattern, captures |-> captures],
                          capture |-> item.capture, nth |-> item.nth]
      BY <2>14 DEF PredicateReenters
    <3>2. /\ pc = "callable" /\ pc' = pc /\ UNCHANGED buildVars /\ k' = k
          /\ outcome' = outcome /\ pending' = pending /\ UNCHANGED <<call, raised, cancelled>>
          /\ inner' = inner + 1
      BY <2>14 DEF PredicateReenters
    <3>3. inner' \in Nat /\ inner' # 0
      BY <1>1, <3>2 DEF RunType
    <3>4. RestType'
      BY <3>1, <3>2, <3>3 DEF RestType, RestOf, RunsBegun
    <3>5. Objects' = Objects
      <4>1. item.match.pattern = item'.match.pattern
        BY <3>1
      <4>. QED  BY <3>2, <4>1 DEF Objects, buildVars
    <3>. QED  BY <1>1, <3>2, <3>3, <3>4, <3>5 DEF RunType, Running, buildVars
  <2>15. CASE PredicateMovesCaptures
    BY <1>1, <2>15, CallStep DEF PredicateMovesCaptures, Fault, RunType, Running, callVars
  <2>16. CASE Collect
    <3>1. CASE call.mode = "captures" /\ pending
      BY <1>1, <2>16, <3>1, ReturnType DEF Collect, Running
    <3>2. CASE ~(call.mode = "captures" /\ pending)
      <4>1. /\ pc = "predicates" /\ pc' = "native"
            /\ UNCHANGED buildVars /\ left' = left /\ k' = k /\ outcome' = outcome
            /\ pending' = pending /\ call' = call /\ UNCHANGED <<raised, cancelled, inner>>
        BY <2>16, <3>2 DEF Collect, callVars
      <4>. QED  BY <1>1, <4>1, CallStep DEF RunType, Running
    <3>. QED  BY <3>1, <3>2
  <2>. QED  BY <1>6, <2>1, <2>2, <2>3, <2>4, <2>5, <2>6, <2>7, <2>8, <2>9, <2>10,
                <2>11, <2>12, <2>13, <2>14, <2>15, <2>16 DEF Run
<1>7. CASE UNCHANGED vars
  <2>1. /\ UNCHANGED buildVars /\ pc' = pc /\ left' = left /\ k' = k /\ item' = item
        /\ outcome' = outcome /\ pending' = pending /\ call' = call /\ UNCHANGED <<raised, cancelled, inner>>
    BY <1>7 DEF vars, callVars
  <2>2. Objects' = Objects /\ built' = built
    BY <2>1 DEF Objects, buildVars
  <2>3. RestType'
    BY <1>1, <2>1, RestStep
  <2>. QED  BY <1>1, <2>1, <2>2, <2>3 DEF RunType, Running
<1>. QED  BY <1>1, <1>2, <1>3, <1>4, <1>5, <1>6, <1>7 DEF Next

LEMMA RunTypeInit == Init => RunType
<1>1. SUFFICES ASSUME Init  PROVE  RunType
  OBVIOUS
<1>2. call \in [mode : {"matches", "captures"}, run : Runs \cup {<<>>},
               source : Sources \cup {"bytes"}, callable : BOOLEAN]
  BY <1>1 DEF Init, NoCall
<1>3. /\ pc = "idle" /\ left = <<>> /\ k = 1 /\ outcome = "none" /\ pending = FALSE
      /\ raised = FALSE /\ cancelled = FALSE /\ inner = 0
  BY <1>1 DEF Init
<1>4. pending \in BOOLEAN /\ ~pending /\ raised \in BOOLEAN
  BY <1>3, Zenon
<1>5. k \in Nat \ {0}
  BY <1>3
<1>6. RestType /\ (Running => built = "built")
  BY <1>3 DEF RestType, Running
<1>. QED  BY <1>2, <1>3, <1>4, <1>5, <1>6, Zenon DEF RunType

(* Every variable of Query.__new__, of matches() and of captures() keeps its*)
(* type; the walk over a pattern's steps ends each predicate at its own step*)
(* of type Done, so its pointer and its counter agree; and what the native  *)
(* cursor still has to find is always a rest of the run.                    *)
THEOREM CursorTypes == Spec => []TypeOK
<1>. DEFINE Inv == RunType /\ NoPatterns /\ WalkInv /\ ScanInv
<1>1. Init => Inv
  <2>1. Init => NoPatterns
    BY DEF Init, BuildInit, NoPatterns
  <2>. QED  BY <2>1, RunTypeInit, WalkInit, ScanBegins
<1>2. Inv /\ [Next]_vars => Inv'
  BY RunTypeStep, NoPatternsStep, WalkStep, ScanStep
<1>3. Inv => TypeOK
  <2>1. SUFFICES ASSUME Inv  PROVE  TypeOK
    OBVIOUS
  <2>2. left = <<>> \/ \E run \in RunsBegun : IsSuffix(left, ItemsOf(call.mode, run))
    <3>1. SUFFICES ASSUME left # <<>>
                   PROVE  \E run \in RunsBegun : IsSuffix(left, ItemsOf(call.mode, run))
      OBVIOUS
    <3>2. PICK run \in RunsBegun : RestOf(run)
      BY <2>1, <3>1 DEF RunType, RestType
    <3>3. ItemsOf(call.mode, run) \in Seq(ItemRecord)
      <4>1. call.mode \in {"matches", "captures"} /\ run \in Runs \cup {<<>>}
        BY <2>1, RunsBegunType DEF RunType
      <4>. QED  BY <4>1, ItemsType
    <3>4. IsSuffix(left, ItemsOf(call.mode, run))
      BY <3>2, <3>3, SuffixIs DEF RestOf
    <3>. QED  BY <3>4
  <2>3. \/ query \in Queries /\ built \in {"reading", "built", "rejected"}
        \/ query = <<>> /\ built = "failed" /\ scan.at <= Len(scan.text)
    BY <2>1 DEF WalkInv, NoPatterns, ScanInv, ScanType
  <2>4. Len(stored) <= Len(query) /\ (built = "built" => Len(stored) = Len(query))
    <3>1. Len(<<>>) = 0 /\ 0 <= 0
      OBVIOUS
    <3>. QED  BY <2>1, <3>1 DEF WalkInv, NoPatterns
  <2>5. /\ step \in Nat \ {0} /\ j = step - 1
        /\ step # 1 => j <= Len(steps) /\ steps[j].type = "done"
    <3>1. CASE built = "failed"
      BY <2>1, <3>1 DEF NoPatterns
    <3>2. CASE built # "failed" /\ ~(Len(stored) < Len(query))
      BY <2>1, <3>2 DEF WalkInv, Place
    <3>3. CASE built # "failed" /\ Len(stored) < Len(query)
      <4>. DEFINE preds == query[Len(stored) + 1]
      <4>1. PICK m \in 0..Len(preds) : Between(preds, m)
        BY <2>1, <3>3 DEF WalkInv, Place
      <4>2. preds \in Seq(Preds)
        <5>1. query \in Queries /\ Len(stored) \in Nat
          BY <2>1, <3>3 DEF WalkInv
        <5>2. Len(stored) + 1 \in 1..Len(query)
          BY <3>3, <5>1, QueryType
        <5>. QED  BY <5>1, <5>2, QueryType
      <4>3. j = Len(StepsUpTo(preds)[m]) /\ step = j + 1
        BY <4>1 DEF Between
      <4>4. steps = Steps(preds)
        BY DEF steps
      <4>. HIDE DEF preds
      <4>5. CASE m = 0
        <5>1. StepsUpTo(preds)[0] = <<>> /\ Len(<<>>) = 0
          BY <4>2, StepsRecursion
        <5>2. j = 0
          BY <4>3, <4>5, <5>1
        <5>. QED  BY <4>3, <5>2
      <4>6. CASE m # 0
        <5>. DEFINE b == Len(StepsUpTo(preds)[m - 1])
                    a == Len(preds[m].args)
        <5>1. m \in 1..Len(preds)
          BY <4>6
        <5>2. /\ b \in Nat /\ a \in Nat /\ Len(StepsUpTo(preds)[m]) = b + a + 2
              /\ b + a + 2 <= Len(Steps(preds)) /\ Steps(preds)[b + a + 2].type = "done"
          BY <4>2, <5>1, AtPredicate
        <5>. HIDE DEF a, b
        <5>. QED  BY <4>3, <4>4, <5>2
      <4>. QED  BY <4>5, <4>6
    <3>. QED  BY <3>1, <3>2, <3>3
  <2>. QED  BY <2>1, <2>2, <2>3, <2>4, <2>5 DEF TypeOK, RunType, RunsBegun
<1>. QED  BY <1>1, <1>2, <1>3, PTL DEF Spec

-----------------------------------------------------------------------------
(* The predicates' objects decide as the names in the query mean.           *)

TextNames == EqNames \cup MatchNames \cup AnyOfNames

(* The object decides for the match as the predicate in the query means it. *)
Decides(o, p, match) ==
  /\ o.kind # "generic"
  /\ ~Raises(o, match, FALSE) => (Satisfies(o, match, FALSE) <=> Meaning(p, match))

LEMMA TextsType ==
  ASSUME NEW match \in MatchRecord, NEW index
  PROVE  TextsFor(index, match) \in Seq({TextOf[x] : x \in DOMAIN TextOf})
<1>. DEFINE R == [index : Nat, node : DOMAIN TextOf]
            S == {TextOf[x] : x \in DOMAIN TextOf}
            A == {c \in ToSet(match.captures) : c.index = index}
            of == Only(match.captures, A)
            nodes == NodesForCapture(index, match)
<1>1. match.captures \in Seq(R)
  BY DEF MatchRecord
<1>2. of \in Seq(R)
  <2>. HIDE DEF R, A
  <2>1. Len(match.captures) \in 0..Len(match.captures)
    <3>1. Len(match.captures) \in Nat
      BY <1>1
    <3>. QED  BY <3>1
  <2>2. of \in Seq(R \cap A)
    BY <1>1, <2>1, OnlyType DEF Only
  <2>3. Seq(R \cap A) \subseteq Seq(R)
    <3>1. R \cap A \subseteq R
      OBVIOUS
    <3>. QED  BY <3>1, SeqMonotonic
  <2>. QED  BY <2>2, <2>3
<1>3. nodes = [i \in DOMAIN of |-> of[i].node]
  BY DEF NodesForCapture
<1>. HIDE DEF of
<1>4. DOMAIN of = 1..Len(of) /\ Len(of) \in Nat /\ \A i \in 1..Len(of) : of[i].node \in DOMAIN TextOf
  <2>1. DOMAIN of = 1..Len(of) /\ Len(of) \in Nat /\ \A i \in 1..Len(of) : of[i] \in R
    <3>. HIDE DEF R
    <3>. QED  BY <1>2
  <2>. QED  BY <2>1
<1>5. DOMAIN nodes = 1..Len(of) /\ \A i \in 1..Len(of) : nodes[i] \in DOMAIN TextOf
  <2>. HIDE DEF nodes
  <2>. QED  BY <1>3, <1>4
<1>6. TextsFor(index, match) = [i \in DOMAIN nodes |-> TextOf[nodes[i]]]
  BY DEF TextsFor
<1>. HIDE DEF nodes
<1>7. \A i \in 1..Len(of) : TextOf[nodes[i]] \in S
  BY <1>5
<1>. HIDE DEF S
<1>8. [i \in 1..Len(of) |-> TextOf[nodes[i]]] \in Seq(S)
  BY <1>4, <1>7
<1>. QED  BY <1>5, <1>6, <1>8 DEF S

(* Every text predicate of a pattern has an object that decides as it means,*)
(* every predicate with a name of its own one that the callable is asked    *)
(* about, and there are no other objects.                                   *)
LEMMA ObjectsDecide ==
  ASSUME WholeNames, WalkInv, built = "built",
         NEW match \in MatchRecord, match.pattern \in DOMAIN query
  PROVE  LET objects == stored[match.pattern].predicates
             preds == query[match.pattern]
         IN  /\ preds \in Seq(Preds)
             /\ \A o \in 1..Len(objects) : \E n \in 1..Len(preds) :
                  Decides(objects[o], preds[n], match) \/ GenericOf(objects[o], preds[n])
             /\ \A n \in 1..Len(preds) : preds[n].name \in TextNames =>
                  \E o \in 1..Len(objects) : Decides(objects[o], preds[n], match)
             /\ \A n \in 1..Len(preds) : preds[n].name \notin BuiltIn =>
                  \E o \in 1..Len(objects) : GenericOf(objects[o], preds[n])
<1>. DEFINE i == match.pattern
            objects == stored[i].predicates
            preds == query[i]
<1>1. query \in Queries /\ Len(stored) = Len(query) /\ \A x \in 1..Len(stored) : ListsOf(stored[x], query[x])
  BY DEF WalkInv
<1>2. DOMAIN query = 1..Len(query) /\ i \in 1..Len(query)
  BY <1>1, QueryType
<1>3. preds \in Seq(Preds) /\ DOMAIN preds = 1..Len(preds)
  BY <1>1, <1>2, QueryType
<1>4. ObjectsOf(objects, preds) /\ Accepted(preds)
  BY <1>1, <1>2 DEF ListsOf
<1>. HIDE DEF preds, objects
<1>5. ASSUME NEW o, NEW n \in 1..Len(preds), ObjectOf(o, preds[n])
      PROVE  Decides(o, preds[n], match) /\ preds[n].name \in TextNames
  <2>1. preds[n].name \in TextNames /\ o.kind # "generic"
    BY <1>5 DEF ObjectOf, TextNames
  <2>2. preds[n] \in Preds
    BY <1>3
  <2>3. WellFormed(preds[n])
    BY <1>3, <1>4 DEF Accepted
  <2>4. Len(preds[n].args) \in Nat \ {0}
    <3>. DEFINE a == Len(preds[n].args)
                nm == preds[n].name
    <3>1. a \in Nat
      BY <2>2, PredType
    <3>2. nm \in EqNames \cup MatchNames => a = 2
      BY <2>2, <2>3, WellFormedCases
    <3>3. nm \in AnyOfNames => a >= 2
      BY <2>2, <2>3, WellFormedCases
    <3>4. nm \in EqNames \cup MatchNames \/ nm \in AnyOfNames
      BY <2>1 DEF TextNames
    <3>. HIDE DEF a, nm
    <3>5. a \in Nat \ {0}
      BY <3>1, <3>2, <3>3, <3>4
    <3>. QED  BY <3>5 DEF a
  <2>5. \A index : TextsFor(index, match) \in Seq({TextOf[x] : x \in DOMAIN TextOf})
    BY TextsType
  <2>6. ASSUME ~Raises(o, match, FALSE)  PROVE  Satisfies(o, match, FALSE) <=> Meaning(preds[n], match)
    BY <1>5, <2>4, <2>5, <2>6, PredicateMeaning
  <2>. QED  BY <2>1, <2>6 DEF Decides
<1>6. ASSUME NEW o, NEW n \in 1..Len(preds), GenericOf(o, preds[n])
      PROVE  preds[n].name \notin BuiltIn
  BY <1>6 DEF GenericOf
<1>7. TextNames \subseteq BuiltIn /\ TextNames \cap (Is \cup {"set!"}) = {}
      /\ BuiltIn = TextNames \cup Is \cup {"set!"}
  BY DEF TextNames, BuiltIn, EqNames, MatchNames, AnyOfNames, Is
<1>8. /\ \A o \in 1..Len(objects) : \E n \in 1..Len(preds) : MadeOf(objects[o], preds[n])
      /\ \A n \in 1..Len(preds) : preds[n].name \notin Is \cup {"set!"} =>
           \E o \in 1..Len(objects) : MadeOf(objects[o], preds[n])
  BY <1>4 DEF ObjectsOf
<1>9. ASSUME NEW o, NEW n \in 1..Len(preds), MadeOf(o, preds[n])
       PROVE  ObjectOf(o, preds[n]) \/ GenericOf(o, preds[n])
  BY <1>9 DEF MadeOf
<1>10. \A o \in 1..Len(objects) : \E n \in 1..Len(preds) :
         Decides(objects[o], preds[n], match) \/ GenericOf(objects[o], preds[n])
  BY <1>5, <1>8, <1>9
<1>11. ASSUME NEW n \in 1..Len(preds), preds[n].name \in TextNames
       PROVE  \E o \in 1..Len(objects) : Decides(objects[o], preds[n], match)
  <2>1. PICK o \in 1..Len(objects) : MadeOf(objects[o], preds[n])
    BY <1>7, <1>8, <1>11
  <2>2. ObjectOf(objects[o], preds[n])
    BY <1>6, <1>7, <1>9, <1>11, <2>1
  <2>. QED  BY <1>5, <2>2
<1>12. ASSUME NEW n \in 1..Len(preds), preds[n].name \notin BuiltIn
       PROVE  \E o \in 1..Len(objects) : GenericOf(objects[o], preds[n])
  <2>1. PICK o \in 1..Len(objects) : MadeOf(objects[o], preds[n])
    BY <1>7, <1>8, <1>12
  <2>2. GenericOf(objects[o], preds[n])
    BY <1>5, <1>7, <1>9, <1>12, <2>1
  <2>. QED  BY <2>2
<1>. QED  BY <1>3, <1>10, <1>11, <1>12 DEF preds, objects

-----------------------------------------------------------------------------
(* The result of a call is the selection.                                   *)

SelectedSet == {it \in ToSet(Items) : Selected(it.nth, it.capture)}

(* What of the first items the program should be given.                     *)
Found(n) == OnlyUpTo(Items, SelectedSet)[n]

Passed(o) ==
  IF o.kind = "generic"
  THEN call.callable => <<item.nth, item.capture, o.predicate, o.arguments>> \in accepted
  ELSE Satisfies(o, item.match, FALSE) /\ ~Raises(o, item.match, FALSE)

Passing ==
  /\ call.source # "None" => \A o \in 1..k-1 : Passed(Objects[o])
  /\ \A q \in refused : ~(q[1] = item.nth /\ q[2] = item.capture)
  /\ pc = "callable" => call.source # "None" /\ k <= Len(Objects)

AskedOf(n) ==
  \A q \in accepted \cup refused : \E i \in 1..n : q[1] = Items[i].nth /\ q[2] = Items[i].capture

(* While a call runs, nothing has raised and the callable has not run the   *)
(* cursor itself, it has looked at the first n   *)
(* items of its run: it has collected those that are selected, or all but   *)
(* the last of them, whose predicates up to the one at hand have let it     *)
(* pass; and the callable was asked about these items only.                 *)
Progress(n) ==
  /\ left = SubSeq(Items, n + 1, Len(Items)) \/ (cancelled /\ left = <<>>)
  /\ AskedOf(n)
  /\ IF pc = "native" THEN result = Gathered(Found(n))
     ELSE /\ n # 0 /\ item = Items[n] /\ result = Gathered(Found(n - 1)) /\ Passing

SelectionInv == Running /\ ~raised /\ inner = 0 => \E n \in 0..Len(Items) : Progress(n)

CallInv ==
  /\ Running => call.run \in Runs /\ \A n \in DOMAIN call.run : call.run[n].pattern \in DOMAIN query
  /\ pc = "idle" /\ outcome = "none" => accepted = {} /\ refused = {}
  /\ Returned => built = "built"

LEMMA CallInvStep ==
  ASSUME CallInv, RunType, [Next]_vars
  PROVE  CallInv'
<1>1. CASE Build
  <2>1. /\ built # "built"
        /\ pc' = pc /\ outcome' = outcome /\ accepted' = accepted /\ refused' = refused
    BY <1>1, BuildWhileIdle DEF callVars
  <2>2. ~Running /\ ~Running' /\ ~Returned /\ ~Returned'
    BY <2>1 DEF RunType, Running, CallInv, Returned
  <2>. QED  BY <2>1, <2>2 DEF CallInv
<1>2. CASE RejectArguments
  BY <1>2 DEF RejectArguments, CallInv, Running, Returned
<1>3. CASE Execute
  <2>1. PICK mode \in {"matches", "captures"}, run \in Runs, source \in Sources, callable \in BOOLEAN :
          /\ \A n \in DOMAIN run : run[n].pattern \in DOMAIN query
          /\ call' = [mode |-> mode, run |-> run, source |-> source, callable |-> callable]
    BY <1>3 DEF Execute
  <2>2. call'.run = run /\ query' = query /\ pc' = "native"
    BY <1>3, <2>1 DEF Execute, buildVars
  <2>. QED  BY <2>1, <2>2 DEF CallInv, Returned
<1>4. CASE DropResult
  BY <1>4 DEF DropResult, CallInv, Running, Returned
<1>5. CASE Run
  <2>1. Running /\ UNCHANGED buildVars
    <3>1. Running
      BY <1>5 DEF Run, Running, NextMatch, Exhausted, ProgressContinues, ProgressCancels,
         ProgressRaises, TextPredicate, TextFails, IsBuiltIn, Checking, WithoutCallable,
         CallPredicate, PredicateAccepts, PredicateRefuses, PredicateUntestable,
         PredicateRaises, PredicateReenters, PredicateMovesCaptures,
         Collect
    <3>. QED  BY <1>5, <3>1, UnbuiltSteps
  <2>2. call' = call
    BY <1>5 DEF Run, NextMatch, Exhausted, Return, ProgressContinues, ProgressCancels, ProgressRaises,
       Fault, TextPredicate, TextFails, WithoutCallable, CallPredicate, PredicateAccepts,
       PredicateRefuses, PredicateUntestable, PredicateRaises, PredicateReenters, PredicateMovesCaptures,
         Collect, callVars
  <2>3. pc' = "idle" => outcome' \in {"ok", "error"}
    BY <1>5 DEF Run, NextMatch, Exhausted, Return, ProgressContinues, ProgressCancels, ProgressRaises,
       Fault, TextPredicate, TextFails, WithoutCallable, CallPredicate, PredicateAccepts,
       PredicateRefuses, PredicateUntestable, PredicateRaises, PredicateReenters, PredicateMovesCaptures,
         Collect,
       Satisfied, Unsatisfied
  <2>4. query' = query /\ built' = "built"
    BY <2>1 DEF RunType, buildVars
  <2>. QED  BY <2>1, <2>2, <2>3, <2>4 DEF CallInv, Returned
<1>6. CASE UNCHANGED vars
  BY <1>6 DEF vars, callVars, buildVars, CallInv, Running, Returned
<1>. QED  BY <1>1, <1>2, <1>3, <1>4, <1>5, <1>6 DEF Next

(* The items of the run.                                                    *)
LEMMA RunItems ==
  ASSUME RunType, CallInv, Running
  PROVE  /\ Items \in Seq(ItemRecord) /\ Len(Items) \in Nat /\ DOMAIN Items = 1..Len(Items)
         /\ \A n \in 1..Len(Items) :
              /\ Items[n].match \in MatchRecord /\ Items[n].match = call.run[Items[n].nth]
              /\ Items[n].match.pattern \in DOMAIN query
         /\ \A a, b \in 1..Len(Items) :
              Items[a].nth = Items[b].nth /\ Items[a].capture = Items[b].capture => a = b
<1>1. call.mode \in {"matches", "captures"} /\ call.run \in Runs
  BY DEF RunType, CallInv
<1>2. call.run \in Seq(MatchRecord)
  BY <1>1, RunAssumption DEF MatchRecord
<1>3. ItemsWithin(Items, call.run, Len(call.run))
  BY <1>1, <1>2, ItemsAre DEF Items
<1>4. Items \in Seq(ItemRecord)
  BY <1>3 DEF ItemsWithin
<1>5. Len(Items) \in Nat /\ DOMAIN Items = 1..Len(Items)
  BY <1>4, LenProperties
<1>6. ASSUME NEW n \in 1..Len(Items)
      PROVE  /\ Items[n].match \in MatchRecord /\ Items[n].match = call.run[Items[n].nth]
             /\ Items[n].match.pattern \in DOMAIN query
  <2>1. Items[n].nth \in 1..Len(call.run) /\ Items[n].match = call.run[Items[n].nth]
    BY <1>3 DEF ItemsWithin
  <2>2. Items[n].nth \in DOMAIN call.run /\ call.run[Items[n].nth] \in MatchRecord
    BY <1>2, <2>1
  <2>. QED  BY <2>1, <2>2 DEF CallInv
<1>7. \A a, b \in 1..Len(Items) :
        Items[a].nth = Items[b].nth /\ Items[a].capture = Items[b].capture => a = b
  BY <1>3 DEF ItemsWithin
<1>. QED  BY <1>4, <1>5, <1>6, <1>7

(* Whether an item is selected depends on the answers about it alone.       *)
LEMMA SelectedAgrees ==
  ASSUME NEW n, NEW c, query' = query, call' = call,
         \A x, y : <<n, c, x, y>> \in accepted' <=> <<n, c, x, y>> \in accepted,
         \A x, y : <<n, c, x, y>> \in refused' <=> <<n, c, x, y>> \in refused
  PROVE  Selected(n, c)' <=> Selected(n, c)
<1>. DEFINE match == call.run[n]
            preds == query[match.pattern]
            generics == {p \in ToSet(preds) : p.name \notin
                     EqNames \cup MatchNames \cup AnyOfNames \cup {"is?", "is-not?", "set!"}}
            Said(p) == <<n, c, p.name, p.args>> \in accepted /\ <<n, c, p.name, p.args>> \notin refused
            SaidThen(p) == <<n, c, p.name, p.args>> \in accepted' /\ <<n, c, p.name, p.args>> \notin refused'
            Means == \A p \in ToSet(preds) : Meaning(p, match)
<1>1. Selected(n, c) <=>
        (call.source # "None" => Means /\ (call.callable => \A p \in generics : Said(p)))
  BY DEF Selected
<1>2. Selected(n, c)' <=>
        (call.source # "None" => Means /\ (call.callable => \A p \in generics : SaidThen(p)))
  BY DEF Selected
<1>3. \A p : Said(p) <=> SaidThen(p)
  OBVIOUS
<1>. HIDE DEF Said, SaidThen, Means, generics
<1>. QED  BY <1>1, <1>2, <1>3

LEMMA FoundStep ==
  ASSUME RunType, CallInv, Running, NEW n \in 1..Len(Items)
  PROVE  /\ Found(n) = IF Selected(Items[n].nth, Items[n].capture)
                       THEN Append(Found(n - 1), Items[n]) ELSE Found(n - 1)
         /\ Found(n - 1) \in Seq(ItemRecord) /\ Items[n] \in ItemRecord
<1>1. Items \in Seq(ItemRecord) /\ DOMAIN Items = 1..Len(Items)
  BY RunItems
<1>. HIDE DEF Items
<1>2. Found(n) = IF Items[n] \in SelectedSet THEN Append(Found(n - 1), Items[n]) ELSE Found(n - 1)
  BY <1>1, OnlyRecursion DEF Found
<1>3. Items[n] \in SelectedSet <=> Selected(Items[n].nth, Items[n].capture)
  BY <1>1 DEF SelectedSet, ToSet
<1>4. Found(n - 1) \in Seq(ItemRecord)
  <2>1. n - 1 \in 0..Len(Items)
    OBVIOUS
  <2>2. Found(n - 1) \in Seq(ItemRecord \cap SelectedSet)
    BY <1>1, <2>1, OnlyType DEF Found
  <2>3. Seq(ItemRecord \cap SelectedSet) \subseteq Seq(ItemRecord)
    <3>1. ItemRecord \cap SelectedSet \subseteq ItemRecord
      OBVIOUS
    <3>. QED  BY <3>1, SeqMonotonic
  <2>. QED  BY <2>2, <2>3
<1>. QED  BY <1>1, <1>2, <1>3, <1>4

LEMMA GatheredGrows ==
  ASSUME NEW s \in Seq(ItemRecord), NEW it \in ItemRecord, call.mode \in {"matches", "captures"}
  PROVE  Gathered(Append(s, it)) = Collected(call.mode, it, Gathered(s))
<1>. DEFINE l == Len(s)
            t == Append(s, it)
            V(x) == <<x.match.pattern, CapturesForMatch(x.match)>>
            C(x) == x.match.captures[x.capture]
<1>1. l \in Nat /\ DOMAIN s = 1..l /\ \A i \in 1..l : s[i] \in ItemRecord
  OBVIOUS
<1>2. /\ t \in Seq(ItemRecord) /\ Len(t) = l + 1 /\ DOMAIN t = 1..l + 1
      /\ t[l + 1] = it /\ \A i \in 1..l : t[i] = s[i]
  <2>1. /\ t \in Seq(ItemRecord) /\ Len(t) = l + 1
        /\ t[l + 1] = it /\ \A i \in 1..l : t[i] = s[i]
    BY AppendProperties
  <2>. HIDE DEF t
  <2>. QED  BY <2>1
<1>. HIDE DEF t
<1>3. CASE call.mode = "matches"
  <2>. DEFINE W == {V(x) : x \in ItemRecord}
              new == [n \in 1..l + 1 |-> V(t[n])]
              old == [n \in 1..l |-> V(s[n])]
  <2>1. Gathered(t) = new
    BY <1>2, <1>3 DEF Gathered
  <2>2. Gathered(s) = old
    BY <1>1, <1>3 DEF Gathered
  <2>3. Collected(call.mode, it, Gathered(s)) = Append(old, V(it))
    BY <1>3, <2>2 DEF Collected
  <2>. HIDE DEF V
  <2>4. \A i \in 1..l : V(s[i]) \in W
    BY <1>1
  <2>5. \A i \in 1..l + 1 : V(t[i]) \in W
    <3>1. \A i \in 1..l + 1 : t[i] \in ItemRecord
      BY <1>2
    <3>. QED  BY <3>1
  <2>6. V(it) \in W
    OBVIOUS
  <2>. HIDE DEF W, l
  <2>7. new \in Seq(W) /\ Len(new) = l + 1 /\ \A i \in 1..l + 1 : new[i] = V(t[i])
    BY <1>1, <2>5
  <2>8. old \in Seq(W) /\ Len(old) = l /\ \A i \in 1..l : old[i] = V(s[i])
    BY <1>1, <2>4
  <2>. HIDE DEF new, old
  <2>9. /\ Append(old, V(it)) \in Seq(W) /\ Len(Append(old, V(it))) = l + 1
        /\ Append(old, V(it))[l + 1] = V(it) /\ \A i \in 1..l : Append(old, V(it))[i] = old[i]
    BY <2>6, <2>8, AppendProperties
  <2>10. \A i \in 1..Len(new) : new[i] = Append(old, V(it))[i]
    <3>1. \A i \in 1..l + 1 : i = l + 1 \/ i \in 1..l
      BY <1>1
    <3>. QED  BY <1>2, <2>7, <2>8, <2>9, <3>1
  <2>11. new = Append(old, V(it))
    BY <2>7, <2>9, <2>10, SeqEqual
  <2>. QED  BY <2>1, <2>3, <2>11 DEF t
<1>4. CASE call.mode = "captures"
  <2>1. Gathered(t) = {C(t[n]) : n \in 1..l + 1}
    BY <1>2, <1>4 DEF Gathered
  <2>2. Gathered(s) = {C(s[n]) : n \in 1..l}
    BY <1>1, <1>4 DEF Gathered
  <2>3. Collected(call.mode, it, Gathered(s)) = Gathered(s) \cup {C(it)}
    BY <1>4 DEF Collected
  <2>. HIDE DEF C, l
  <2>4. {C(t[n]) : n \in 1..l + 1} = {C(s[n]) : n \in 1..l} \cup {C(it)}
    <3>1. \A i : i \in 1..l + 1 <=> i = l + 1 \/ i \in 1..l
      BY <1>1
    <3>2. {C(t[n]) : n \in 1..l + 1} \subseteq {C(s[n]) : n \in 1..l} \cup {C(it)}
      BY <1>2, <3>1
    <3>3. {C(s[n]) : n \in 1..l} \subseteq {C(t[n]) : n \in 1..l + 1}
      BY <1>2, <3>1
    <3>4. C(it) \in {C(t[n]) : n \in 1..l + 1}
      BY <1>2, <3>1
    <3>. QED  BY <3>2, <3>3, <3>4
  <2>. QED  BY <2>1, <2>2, <2>3, <2>4 DEF t
<1>. QED  BY <1>3, <1>4

(* What a step in which the callable is not asked leaves as it was.         *)
LEMMA SameFound ==
  ASSUME UNCHANGED <<buildVars, call, accepted, refused>>
  PROVE  /\ Items' = Items
         /\ \A n : Found(n)' = Found(n) /\ Gathered(Found(n))' = Gathered(Found(n))
         /\ \A n : AskedOf(n)' <=> AskedOf(n)
<1>1. query' = query
  BY DEF buildVars
<1>2. Items' = Items
  BY DEF Items
<1>3. \A n, c : Selected(n, c)' <=> Selected(n, c)
  BY <1>1, SelectedAgrees
<1>4. SelectedSet' = SelectedSet
  BY <1>2, <1>3 DEF SelectedSet
<1>5. ASSUME NEW n  PROVE  Found(n)' = Found(n)
  BY <1>2, <1>4 DEF Found
<1>6. ASSUME NEW n  PROVE  Gathered(Found(n))' = Gathered(Found(n))
  BY <1>5 DEF Gathered
<1>7. ASSUME NEW n  PROVE  AskedOf(n)' <=> AskedOf(n)
  BY <1>2 DEF AskedOf
<1>. QED  BY <1>2, <1>5, <1>6, <1>7

LEMMA SelectedOf ==
  ASSUME NEW its, Len(its) \in Nat, NEW n \in 0..Len(its),
         \A i \in 1..n : its[i] \in SelectedSet <=> its[i] \in SelectedSet'
  PROVE  OnlyUpTo(its, SelectedSet)[n] = OnlyUpTo(its, SelectedSet')[n]
BY OnlyAgrees

(* What an answer about the item at hand leaves as it was.                  *)
LEMMA NewAnswer ==
  ASSUME RunType, CallInv, Running, NEW n \in 1..Len(Items), item = Items[n],
         UNCHANGED <<buildVars, call>>, AskedOf(n),
         NEW question, question[1] = item.nth, question[2] = item.capture,
         accepted' = accepted \/ accepted' = accepted \cup {question},
         refused' = refused \/ refused' = refused \cup {question}
  PROVE  /\ Items' = Items /\ AskedOf(n)' /\ Found(n - 1)' = Found(n - 1)
         /\ Gathered(Found(n - 1))' = Gathered(Found(n - 1))
<1>1. query' = query /\ Items' = Items
  BY DEF buildVars, Items
<1>. DEFINE its == Items
<1>2. /\ its \in Seq(ItemRecord) /\ Len(its) \in Nat /\ DOMAIN its = 1..Len(its)
      /\ \A a, b \in 1..Len(its) :
           its[a].nth = its[b].nth /\ its[a].capture = its[b].capture => a = b
  BY RunItems
<1>. HIDE DEF its
<1>3. AskedOf(n)'
  <2>1. \A q \in accepted \cup refused : \E i \in 1..n : q[1] = its[i].nth /\ q[2] = its[i].capture
    BY DEF AskedOf, its
  <2>2. n \in 1..n /\ question[1] = its[n].nth /\ question[2] = its[n].capture
    BY DEF its
  <2>3. \A q \in accepted' \cup refused' : q \in accepted \cup refused \/ q = question
    OBVIOUS
  <2>4. \A q \in accepted' \cup refused' : \E i \in 1..n : q[1] = its[i].nth /\ q[2] = its[i].capture
    BY <2>1, <2>2, <2>3
  <2>. QED  BY <1>1, <2>4 DEF AskedOf, its
<1>4. ASSUME NEW i \in 1..n - 1
      PROVE  its[i] \in SelectedSet' <=> its[i] \in SelectedSet
  <2>1. PICK it : it = its[i]
    OBVIOUS
  <2>2. i \in 1..Len(its) /\ n \in 1..Len(its) /\ i # n
    BY <1>2 DEF its
  <2>3. ~(it.nth = item.nth /\ it.capture = item.capture)
    BY <1>2, <2>1, <2>2 DEF its
  <2>4. \A u, v : <<it.nth, it.capture, u, v>> # question
    BY <2>3
  <2>5. Selected(it.nth, it.capture)' <=> Selected(it.nth, it.capture)
    <3>1. \A u, v : <<it.nth, it.capture, u, v>> \in accepted' <=> <<it.nth, it.capture, u, v>> \in accepted
      BY <2>4
    <3>2. \A u, v : <<it.nth, it.capture, u, v>> \in refused' <=> <<it.nth, it.capture, u, v>> \in refused
      BY <2>4
    <3>. QED  BY <1>1, <3>1, <3>2, SelectedAgrees
  <2>6. it \in ToSet(its)
    BY <1>2, <2>1, <2>2 DEF ToSet
  <2>7. it \in SelectedSet <=> Selected(it.nth, it.capture)
    BY <2>6 DEF SelectedSet, its
  <2>8. it \in SelectedSet' <=> Selected(it.nth, it.capture)'
    BY <1>1, <2>6 DEF SelectedSet, its
  <2>. QED  BY <2>1, <2>5, <2>7, <2>8
<1>5. Found(n - 1)' = Found(n - 1)
  <2>1. PICK s : s = its
    OBVIOUS
  <2>2. PICK m : m = n - 1
    OBVIOUS
  <2>3. Len(s) \in Nat /\ m \in 0..Len(s)
    BY <1>2, <2>1, <2>2 DEF its
  <2>4. \A i \in 1..m : s[i] \in SelectedSet <=> s[i] \in SelectedSet'
    BY <1>4, <2>1, <2>2
  <2>5. OnlyUpTo(s, SelectedSet)[m] = OnlyUpTo(s, SelectedSet')[m]
    BY <2>3, <2>4, SelectedOf
  <2>6. Items = s /\ Items' = s
    BY <1>1, <2>1 DEF its
  <2>. QED  BY <2>2, <2>5, <2>6 DEF Found
<1>6. Gathered(Found(n - 1))' = Gathered(Found(n - 1))
  BY <1>5 DEF Gathered
<1>. QED  BY <1>1, <1>3, <1>5, <1>6

(* What is known of the item at hand and its pattern.                       *)
LEMMA ItemAtHand ==
  ASSUME RunType, CallInv, WalkInv, WholeNames, Running,
         NEW n \in 1..Len(Items), item = Items[n]
  PROVE  /\ item.match \in MatchRecord /\ item.match = call.run[item.nth]
         /\ query[item.match.pattern] \in Seq(Preds)
         /\ \A o \in 1..Len(Objects) : \E m \in 1..Len(query[item.match.pattern]) :
              \/ Decides(Objects[o], query[item.match.pattern][m], item.match)
              \/ GenericOf(Objects[o], query[item.match.pattern][m])
         /\ \A m \in 1..Len(query[item.match.pattern]) :
              /\ query[item.match.pattern][m].name \in TextNames =>
                   \E o \in 1..Len(Objects) :
                     Decides(Objects[o], query[item.match.pattern][m], item.match)
              /\ query[item.match.pattern][m].name \notin BuiltIn =>
                   \E o \in 1..Len(Objects) :
                     GenericOf(Objects[o], query[item.match.pattern][m])
<1>1. item.match \in MatchRecord /\ item.match = call.run[item.nth] /\ item.match.pattern \in DOMAIN query
  BY RunItems
<1>2. built = "built"
  BY DEF RunType
<1>3. PICK match : match = item.match
  OBVIOUS
<1>4. match \in MatchRecord /\ match.pattern \in DOMAIN query
  BY <1>1, <1>3
<1>5. /\ query[match.pattern] \in Seq(Preds)
      /\ \A o \in 1..Len(stored[match.pattern].predicates) : \E m \in 1..Len(query[match.pattern]) :
           \/ Decides(stored[match.pattern].predicates[o], query[match.pattern][m], match)
           \/ GenericOf(stored[match.pattern].predicates[o], query[match.pattern][m])
      /\ \A m \in 1..Len(query[match.pattern]) : query[match.pattern][m].name \in TextNames =>
           \E o \in 1..Len(stored[match.pattern].predicates) :
             Decides(stored[match.pattern].predicates[o], query[match.pattern][m], match)
      /\ \A m \in 1..Len(query[match.pattern]) : query[match.pattern][m].name \notin BuiltIn =>
           \E o \in 1..Len(stored[match.pattern].predicates) :
             GenericOf(stored[match.pattern].predicates[o], query[match.pattern][m])
  BY <1>2, <1>4, ObjectsDecide
<1>. QED  BY <1>1, <1>3, <1>5 DEF Objects

(* A predicate that does not compare texts says nothing of a match.         *)
LEMMA OtherMeaning ==
  ASSUME NEW p, NEW match, p.name \notin TextNames
  PROVE  Meaning(p, match)
BY DEF Meaning, TextNames

(* An item that no predicate of its pattern stopped is selected.            *)
LEMMA ItemPasses ==
  ASSUME RunType, CallInv, WalkInv, WholeNames, Running,
         NEW n \in 1..Len(Items), item = Items[n],
         Passing, call.source = "None" \/ k > Len(Objects), Len(Objects) \in Nat
  PROVE  Selected(Items[n].nth, Items[n].capture)
<1>. DEFINE match == item.match
            preds == query[match.pattern]
            generics == {p \in ToSet(preds) : p.name \notin
                     EqNames \cup MatchNames \cup AnyOfNames \cup {"is?", "is-not?", "set!"}}
            Asked(p) == <<item.nth, item.capture, p.name, p.args>>
<1>1. match = call.run[item.nth] /\ preds \in Seq(Preds)
  BY ItemAtHand
<1>2. CASE call.source = "None"
  BY <1>2 DEF Selected
<1>3. CASE call.source # "None"
  <2>1. \A o \in 1..Len(Objects) : Passed(Objects[o])
    <3>1. k \in Nat
      BY DEF RunType
    <3>2. \A o \in 1..Len(Objects) : o \in 1..k-1
      BY <1>3, <3>1
    <3>. QED  BY <1>3, <3>2 DEF Passing
  <2>. HIDE DEF preds, match
  <2>2. ASSUME NEW m \in 1..Len(preds)
        PROVE  Meaning(preds[m], match)
    <3>1. CASE preds[m].name \in TextNames
      <4>1. PICK o \in 1..Len(Objects) : Decides(Objects[o], preds[m], match)
        BY <3>1, ItemAtHand DEF preds, match
      <4>2. Satisfies(Objects[o], match, FALSE) /\ ~Raises(Objects[o], match, FALSE)
        BY <2>1, <4>1 DEF Decides, Passed, match
      <4>. QED  BY <4>1, <4>2 DEF Decides
    <3>2. CASE preds[m].name \notin TextNames
      BY <3>2, OtherMeaning
    <3>. QED  BY <3>1, <3>2
  <2>3. ASSUME call.callable, NEW m \in 1..Len(preds), preds[m].name \notin BuiltIn
        PROVE  Asked(preds[m]) \in accepted /\ Asked(preds[m]) \notin refused
    <3>1. PICK o \in 1..Len(Objects) : GenericOf(Objects[o], preds[m])
      BY <2>3, ItemAtHand DEF preds, match
    <3>2. <<item.nth, item.capture, Objects[o].predicate, Objects[o].arguments>> \in accepted
      BY <2>1, <2>3, <3>1 DEF GenericOf, Passed
    <3>3. Asked(preds[m]) \in accepted
      BY <3>1, <3>2 DEF GenericOf
    <3>4. Asked(preds[m])[1] = item.nth /\ Asked(preds[m])[2] = item.capture
      OBVIOUS
    <3>5. Asked(preds[m]) \notin refused
      <4>1. \A q \in refused : ~(q[1] = item.nth /\ q[2] = item.capture)
        BY DEF Passing
      <4>. HIDE DEF Asked
      <4>. QED  BY <3>4, <4>1
    <3>. QED  BY <3>3, <3>5
  <2>4. ToSet(preds) = {preds[m] : m \in 1..Len(preds)}
    BY <1>1 DEF ToSet, preds
  <2>5. \A p \in ToSet(preds) : Meaning(p, match)
    BY <2>2, <2>4
  <2>6. \A p \in generics : \E m \in 1..Len(preds) : p = preds[m] /\ preds[m].name \notin BuiltIn
    BY <2>4 DEF BuiltIn, Is
  <2>7. call.callable => \A p \in generics : Asked(p) \in accepted /\ Asked(p) \notin refused
    <3>. HIDE DEF Asked, generics
    <3>. QED  BY <2>3, <2>6
  <2>. QED  BY <1>1, <2>5, <2>7 DEF Selected, preds, match
<1>. QED  BY <1>2, <1>3

(* One that an object does not satisfy is not.                              *)
LEMMA ItemFails ==
  ASSUME RunType, CallInv, WalkInv, WholeNames, Running,
         NEW n \in 1..Len(Items), item = Items[n], call.source # "None",
         NEW o \in 1..Len(Objects), Objects[o].kind # "generic",
         ~Raises(Objects[o], item.match, FALSE), ~Satisfies(Objects[o], item.match, FALSE)
  PROVE  ~Selected(Items[n].nth, Items[n].capture)
<1>. DEFINE match == item.match
            preds == query[match.pattern]
<1>1. match = call.run[item.nth] /\ preds \in Seq(Preds)
  BY ItemAtHand
<1>2. PICK m \in 1..Len(preds) : Decides(Objects[o], preds[m], match)
  <2>1. PICK m \in 1..Len(preds) :
          Decides(Objects[o], preds[m], match) \/ GenericOf(Objects[o], preds[m])
    BY ItemAtHand
  <2>. QED  BY <2>1 DEF GenericOf
<1>. HIDE DEF preds, match
<1>3. ~Meaning(preds[m], match)
  BY <1>2 DEF Decides, match
<1>4. preds[m] \in ToSet(preds)
  BY <1>1 DEF ToSet
<1>. QED  BY <1>1, <1>3, <1>4 DEF Selected, preds, match

(* Nor is one that the callable has refused.                                *)
LEMMA ItemRefused ==
  ASSUME RunType, CallInv, WalkInv, WholeNames, Running,
         NEW n \in 1..Len(Items), item = Items[n], call.source # "None", call.callable,
         NEW o \in 1..Len(Objects), Objects[o].kind = "generic", UNCHANGED <<query, call>>,
         <<item.nth, item.capture, Objects[o].predicate, Objects[o].arguments>> \in refused'
  PROVE  ~Selected(Items[n].nth, Items[n].capture)'
<1>. DEFINE match == item.match
            preds == query[match.pattern]
            generics == {p \in ToSet(preds) : p.name \notin
                     EqNames \cup MatchNames \cup AnyOfNames \cup {"is?", "is-not?", "set!"}}
            Asked(p) == <<item.nth, item.capture, p.name, p.args>>
<1>1. match = call.run[item.nth] /\ preds \in Seq(Preds)
  BY ItemAtHand
<1>2. PICK m \in 1..Len(preds) : GenericOf(Objects[o], preds[m])
  <2>1. PICK m \in 1..Len(preds) :
          Decides(Objects[o], preds[m], match) \/ GenericOf(Objects[o], preds[m])
    BY ItemAtHand
  <2>. QED  BY <2>1 DEF Decides
<1>3. PICK it : it = item
  OBVIOUS
<1>4. Asked(preds[m]) \in refused'
  BY <1>2 DEF GenericOf
<1>. HIDE DEF preds, match
<1>5. preds[m] \in generics
  <2>1. preds[m] \in ToSet(preds)
    BY <1>1 DEF ToSet
  <2>. QED  BY <1>2, <2>1 DEF GenericOf, BuiltIn, Is
<1>6. Items' = Items
  BY DEF Items
<1>7. Items[n]' = it
  BY <1>3, <1>6
<1>8. ~Selected(it.nth, it.capture)'
  BY <1>1, <1>3, <1>4, <1>5 DEF Selected, preds, match
<1>. QED  BY <1>7, <1>8

Known == RunType /\ CallInv /\ WalkInv /\ Running /\ ~raised /\ inner = 0

LEMMA ObjectsAreSequence ==
  ASSUME Known, WholeNames, NEW n \in 1..Len(Items), item = Items[n]
  PROVE  Len(Objects) \in Nat
<1>1. item.match.pattern \in DOMAIN query
  BY RunItems DEF Known
<1>2. built = "built"
  BY DEF Known, RunType
<1>3. query \in Queries /\ Len(stored) = Len(query) /\ \A x \in 1..Len(stored) : ListsOf(stored[x], query[x])
  BY <1>2 DEF Known, WalkInv
<1>4. DOMAIN query = 1..Len(query)
  BY <1>3, QueryType
<1>5. ObjectsOf(stored[item.match.pattern].predicates, query[item.match.pattern])
  BY <1>1, <1>3, <1>4 DEF ListsOf
<1>6. PICK S : Objects \in Seq(S)
  BY <1>5 DEF ObjectsOf, Objects
<1>. QED  BY <1>6, LenProperties

(* The item at hand passes one more of its predicates.                      *)
LEMMA PassesOne ==
  ASSUME Known, NEW n \in 0..Len(Items), Progress(n), pc # "native", k <= Len(Objects),
         UNCHANGED <<buildVars, call, left, item, result, cancelled, refused>>,
         accepted \subseteq accepted', k' = k + 1, pc' = "predicates", NEW p, p = Objects[k], Passed(p)',
         Items' = Items, AskedOf(n)', Gathered(Found(n - 1))' = Gathered(Found(n - 1))
  PROVE  Progress(n)'
<1>1. /\ left = SubSeq(Items, n + 1, Len(Items)) \/ (cancelled /\ left = <<>>)
      /\ n # 0 /\ item = Items[n] /\ result = Gathered(Found(n - 1)) /\ Passing
  BY DEF Progress
<1>2. Objects' = Objects
  BY DEF Objects, buildVars
<1>3. ASSUME call.source # "None", NEW o \in 1..k' - 1
      PROVE  Passed(Objects[o])'
  <2>1. o = k \/ o \in 1..k - 1
    BY DEF Known, RunType
  <2>2. CASE o = k
    BY <1>2, <2>2
  <2>3. CASE o \in 1..k - 1
    <3>1. Passed(Objects[o])
      BY <1>1, <1>3, <2>3 DEF Passing
    <3>2. PICK r : r = Objects[o]
      OBVIOUS
    <3>3. Passed(r)'
      <4>1. Passed(r)
        BY <3>1, <3>2
      <4>. QED  BY <4>1 DEF Passed
    <3>. QED  BY <1>2, <3>2, <3>3
  <2>. QED  BY <2>1, <2>2, <2>3
<1>4. Passing'
  <2>1. \A q \in refused' : ~(q[1] = item'.nth /\ q[2] = item'.capture)
    BY <1>1 DEF Passing
  <2>2. pc' # "callable" /\ call' = call
    OBVIOUS
  <2>. QED  BY <1>3, <2>1, <2>2 DEF Passing
<1>. QED  BY <1>1, <1>4 DEF Progress

(* The item is done with, and the native cursor is asked for the next.      *)
LEMMA GoesBack ==
  ASSUME Known, NEW n \in 0..Len(Items), Progress(n), pc # "native", pc' = "native",
         UNCHANGED <<left, cancelled>>, Items' = Items, AskedOf(n)', result' = Gathered(Found(n))'
  PROVE  Progress(n)'
BY DEF Progress

LEMMA NextMatchStep ==
  ASSUME Known, NEW n \in 0..Len(Items), Progress(n), NextMatch
  PROVE  n + 1 \in 0..Len(Items) /\ Progress(n + 1)'
<1>1. /\ pc = "native" /\ left # <<>> /\ item' = Head(left) /\ left' = Tail(left) /\ k' = 1
      /\ pc' = "predicates" /\ result' = result /\ call' = call /\ refused' = refused
      /\ UNCHANGED <<buildVars, call, accepted, refused>>
  BY DEF NextMatch, callVars
<1>2. left = SubSeq(Items, n + 1, Len(Items)) /\ AskedOf(n) /\ result = Gathered(Found(n))
  BY <1>1 DEF Progress
<1>3. /\ Items \in Seq(ItemRecord) /\ Len(Items) \in Nat
      /\ \A a, b \in 1..Len(Items) :
           Items[a].nth = Items[b].nth /\ Items[a].capture = Items[b].capture => a = b
  BY RunItems DEF Known
<1>4. /\ n + 1 \in 1..Len(Items) /\ item' = Items[n + 1]
      /\ left' = SubSeq(Items, (n + 1) + 1, Len(Items))
  BY <1>1, <1>2, <1>3, RestTail
<1>5. /\ Items' = Items /\ (AskedOf(n + 1)' <=> AskedOf(n + 1))
      /\ Gathered(Found(n))' = Gathered(Found(n))
  BY <1>1, SameFound
<1>6. AskedOf(n + 1)
  <2>1. \A i \in 1..n : i \in 1..n + 1
    OBVIOUS
  <2>. QED  BY <1>2, <2>1 DEF AskedOf
<1>7. \A q \in refused' : ~(q[1] = item'.nth /\ q[2] = item'.capture)
  <2>1. SUFFICES ASSUME NEW q \in refused, q[1] = Items[n + 1].nth, q[2] = Items[n + 1].capture
                 PROVE  FALSE
    BY <1>1, <1>4
  <2>2. PICK i \in 1..n : q[1] = Items[i].nth /\ q[2] = Items[i].capture
    BY <1>2 DEF AskedOf
  <2>3. i \in 1..Len(Items) /\ i # n + 1
    BY <1>4
  <2>. QED  BY <1>3, <1>4, <2>1, <2>2, <2>3
<1>8. Passing'
  <2>1. \A o : o \notin 1..k' - 1
    BY <1>1
  <2>. QED  BY <1>1, <1>7, <2>1 DEF Passing
<1>9. n + 1 # 0 /\ (n + 1) - 1 = n /\ n + 1 \in 0..Len(Items)
  BY <1>4
<1>. HIDE DEF Items, Found, AskedOf, Passing
<1>10. Progress(n + 1)'
  BY <1>1, <1>2, <1>4, <1>5, <1>6, <1>8, <1>9 DEF Progress
<1>. QED  BY <1>9, <1>10

(* The item that is at hand if progress is made but for one.                *)
LEMMA AtHand ==
  ASSUME Known, NEW n \in 0..Len(Items), Progress(n), pc # "native"
  PROVE  /\ n \in 1..Len(Items) /\ item = Items[n] /\ Passing /\ AskedOf(n)
         /\ result = Gathered(Found(n - 1))
<1>1. n # 0 /\ Len(Items) \in Nat
  BY RunItems DEF Known, Progress
<1>2. n \in 1..Len(Items)
  BY <1>1
<1>. QED  BY <1>2 DEF Progress

LEMMA TextPredicateStep ==
  ASSUME Known, WholeNames, NEW n \in 0..Len(Items), Progress(n), TextPredicate, ~raised'
  PROVE  Progress(n)'
<1>1. /\ pc = "predicates" /\ call.source # "None" /\ k <= Len(Objects) /\ Objects[k].kind # "generic"
      /\ pending' = Raises(Objects[k], item.match, pending) /\ raised' = (raised \/ pending')
      /\ UNCHANGED <<buildVars, call, cancelled, accepted, refused, left, item, result>>
  BY DEF TextPredicate, IsBuiltIn, Checking, Satisfied, Unsatisfied
<1>2. n \in 1..Len(Items) /\ item = Items[n] /\ Passing /\ AskedOf(n) /\ result = Gathered(Found(n - 1))
  BY <1>1, AtHand
<1>3. pending \in BOOLEAN /\ ~pending
  BY DEF Known, RunType
<1>4. pending = FALSE
  BY <1>3, Zenon
<1>5. ~Raises(Objects[k], item.match, FALSE)
  BY <1>1, <1>4
<1>6. Len(Objects) \in Nat
  BY <1>2, ObjectsAreSequence
<1>7. k \in 1..Len(Objects)
  BY <1>1, <1>6 DEF Known, RunType
<1>8. /\ Items' = Items /\ AskedOf(n)' /\ Gathered(Found(n))' = Gathered(Found(n))
      /\ Gathered(Found(n - 1))' = Gathered(Found(n - 1))
  BY <1>1, <1>2, SameFound
<1>9. CASE Satisfies(Objects[k], item.match, FALSE)
  <2>1. k' = k + 1 /\ pc' = "predicates"
    BY <1>4, <1>9 DEF TextPredicate, Satisfied
  <2>2. PICK p : p = Objects[k]
    OBVIOUS
  <2>3. Passed(p)'
    BY <1>1, <1>5, <1>9, <2>2 DEF Passed
  <2>. QED  BY <1>1, <1>8, <2>1, <2>2, <2>3, PassesOne
<1>10. CASE ~Satisfies(Objects[k], item.match, FALSE)
  <2>1. pc' = "native"
    BY <1>4, <1>10 DEF TextPredicate, Unsatisfied
  <2>2. ~Selected(Items[n].nth, Items[n].capture)
    BY <1>1, <1>2, <1>5, <1>7, <1>10, ItemFails DEF Known
  <2>3. Found(n) = Found(n - 1)
    BY <1>2, <2>2, FoundStep DEF Known
  <2>4. result' = Gathered(Found(n))'
    BY <1>1, <1>2, <1>8, <2>3
  <2>. QED  BY <1>1, <1>8, <2>1, <2>4, GoesBack
<1>. QED  BY <1>9, <1>10

FoundGrows ==
  \A n : RunType /\ CallInv /\ Running /\ n \in 1..Len(Items) =>
           Found(n) = IF Selected(Items[n].nth, Items[n].capture)
                      THEN Append(Found(n - 1), Items[n]) ELSE Found(n - 1)

LEMMA FoundGrowsNow == FoundGrows
BY FoundStep DEF FoundGrows

LEMMA FoundGrowsLater == FoundGrows'
BY FoundGrowsNow, PTL

LEMMA AcceptsStep ==
  ASSUME Known, WholeNames, NEW n \in 0..Len(Items), Progress(n), PredicateAccepts
  PROVE  Progress(n)'
<1>1. /\ pc = "callable" /\ accepted' = accepted \cup {Question} /\ k' = k + 1 /\ pc' = "predicates"
      /\ UNCHANGED <<buildVars, call, left, item, result, cancelled, refused>>
  BY DEF PredicateAccepts, Satisfied
<1>2. n \in 1..Len(Items) /\ item = Items[n] /\ Passing /\ AskedOf(n) /\ result = Gathered(Found(n - 1))
  BY <1>1, AtHand
<1>3. k <= Len(Objects) /\ Objects[k].kind = "generic"
  BY <1>1, <1>2 DEF Passing, Known, RunType
<1>4. PICK p : p = Objects[k]
  OBVIOUS
<1>5. Question = <<item.nth, item.capture, p.predicate, p.arguments>>
  BY <1>4 DEF Question
<1>6. Passed(p)'
  BY <1>1, <1>3, <1>4, <1>5 DEF Passed
<1>7. Question[1] = item.nth /\ Question[2] = item.capture
  BY DEF Question
<1>8. /\ Items' = Items /\ AskedOf(n)' /\ Found(n - 1)' = Found(n - 1)
      /\ Gathered(Found(n - 1))' = Gathered(Found(n - 1))
  <2>1. PICK q : q = Question
    OBVIOUS
  <2>2. q[1] = item.nth /\ q[2] = item.capture
    BY <1>7, <2>1
  <2>3. accepted' = accepted \/ accepted' = accepted \cup {q}
    BY <1>1, <2>1
  <2>4. refused' = refused \/ refused' = refused \cup {q}
    BY <1>1, <2>1
  <2>. QED  BY <1>1, <1>2, <2>2, <2>3, <2>4, NewAnswer DEF Known
<1>9. accepted \subseteq accepted' /\ pc # "native"
  BY <1>1
<1>. QED  BY <1>1, <1>3, <1>4, <1>6, <1>8, <1>9, PassesOne

LEMMA RefusesStep ==
  ASSUME Known, RunType', CallInv', WholeNames,
         NEW n \in 0..Len(Items), Progress(n), PredicateRefuses
  PROVE  Progress(n)'
<1>1. /\ pc = "callable" /\ refused' = refused \cup {Question} /\ pc' = "native"
      /\ UNCHANGED <<buildVars, call, left, item, result, cancelled, accepted>>
  BY DEF PredicateRefuses, Unsatisfied
<1>2. n \in 1..Len(Items) /\ item = Items[n] /\ Passing /\ AskedOf(n) /\ result = Gathered(Found(n - 1))
  BY <1>1, AtHand
<1>3. /\ k <= Len(Objects) /\ Objects[k].kind = "generic" /\ call.callable /\ call.source # "None"
      /\ k \in Nat \ {0}
  BY <1>1, <1>2 DEF Passing, Known, RunType
<1>4. k \in 1..Len(Objects)
  <2>1. Len(Objects) \in Nat
    BY <1>2, ObjectsAreSequence
  <2>. QED  BY <1>3, <2>1
<1>5. PICK p : p = Objects[k]
  OBVIOUS
<1>6. Question = <<item.nth, item.capture, p.predicate, p.arguments>>
  BY <1>5 DEF Question
<1>7. Question[1] = item.nth /\ Question[2] = item.capture
  BY DEF Question
<1>8. /\ Items' = Items /\ AskedOf(n)' /\ Found(n - 1)' = Found(n - 1)
      /\ Gathered(Found(n - 1))' = Gathered(Found(n - 1))
  <2>1. PICK q : q = Question
    OBVIOUS
  <2>2. q[1] = item.nth /\ q[2] = item.capture
    BY <1>7, <2>1
  <2>3. accepted' = accepted \/ accepted' = accepted \cup {q}
    BY <1>1, <2>1
  <2>4. refused' = refused \/ refused' = refused \cup {q}
    BY <1>1, <2>1
  <2>. QED  BY <1>1, <1>2, <2>2, <2>3, <2>4, NewAnswer DEF Known
<1>9. ~Selected(Items[n].nth, Items[n].capture)'
  <2>1. <<item.nth, item.capture, Objects[k].predicate, Objects[k].arguments>> \in refused'
    BY <1>1, <1>5, <1>6
  <2>2. UNCHANGED <<query, call>>
    BY <1>1 DEF buildVars
  <2>. QED  BY <1>2, <1>3, <1>4, <2>1, <2>2, ItemRefused DEF Known
<1>10. Found(n)' = Found(n - 1)'
  <2>1. Running' /\ n \in 1..Len(Items')
    BY <1>1, <1>2, <1>8 DEF Running
  <2>. QED  BY <1>9, <2>1, FoundGrowsLater DEF FoundGrows
<1>11. Gathered(Found(n))' = Gathered(Found(n - 1))'
  BY <1>10 DEF Gathered
<1>12. result' = Gathered(Found(n))' /\ pc # "native"
  BY <1>1, <1>2, <1>8, <1>11
<1>. QED  BY <1>1, <1>8, <1>12, GoesBack

LEMMA WithoutCallableStep ==
  ASSUME Known, NEW n \in 0..Len(Items), Progress(n), WithoutCallable
  PROVE  Progress(n)'
<1>1. /\ pc = "predicates" /\ k <= Len(Objects) /\ Objects[k].kind = "generic" /\ ~call.callable
      /\ k' = k + 1 /\ pc' = "predicates"
      /\ UNCHANGED <<buildVars, call, left, item, result, cancelled, accepted, refused>>
  BY DEF WithoutCallable, Checking, Satisfied, callVars
<1>2. AskedOf(n)
  BY <1>1, AtHand
<1>3. /\ Items' = Items /\ AskedOf(n)' /\ Gathered(Found(n - 1))' = Gathered(Found(n - 1))
  BY <1>1, <1>2, SameFound
<1>4. PICK p : p = Objects[k]
  OBVIOUS
<1>5. Passed(p)'
  BY <1>1, <1>4 DEF Passed
<1>6. accepted \subseteq accepted' /\ pc # "native"
  BY <1>1
<1>. QED  BY <1>1, <1>3, <1>4, <1>5, <1>6, PassesOne

LEMMA CallPredicateStep ==
  ASSUME Known, NEW n \in 0..Len(Items), Progress(n), CallPredicate
  PROVE  Progress(n)'
<1>1. /\ pc = "predicates" /\ pc' = "callable" /\ k' = k
      /\ UNCHANGED <<buildVars, call, left, item, result, cancelled, accepted, refused>>
      /\ call.source # "None" /\ k <= Len(Objects)
  BY DEF CallPredicate, Checking, callVars
<1>2. n \in 1..Len(Items) /\ item = Items[n] /\ Passing /\ AskedOf(n) /\ result = Gathered(Found(n - 1))
  BY <1>1, AtHand
<1>3. /\ Items' = Items /\ AskedOf(n)' /\ Gathered(Found(n - 1))' = Gathered(Found(n - 1))
  BY <1>1, <1>2, SameFound
<1>4. Objects' = Objects
  BY <1>1 DEF Objects, buildVars
<1>5. Passing'
  <2>1. ASSUME call.source # "None", NEW o \in 1..k' - 1
        PROVE  Passed(Objects[o])'
    <3>1. PICK p : p = Objects[o]
      OBVIOUS
    <3>2. Passed(p)
      BY <1>1, <1>2, <2>1, <3>1 DEF Passing
    <3>3. Passed(p)'
      BY <1>1, <3>2 DEF Passed
    <3>. QED  BY <1>4, <3>1, <3>3
  <2>2. k' <= Len(Objects') /\ call'.source # "None"
    BY <1>1, <1>4
  <2>3. \A q \in refused' : ~(q[1] = item'.nth /\ q[2] = item'.capture)
    BY <1>1, <1>2 DEF Passing
  <2>4. call.source # "None" => \A o \in 1..k' - 1 : Passed(Objects[o])'
    BY <2>1
  <2>5. call' = call
    BY <1>1
  <2>. QED  BY <2>2, <2>3, <2>4, <2>5 DEF Passing
<1>. QED  BY <1>1, <1>2, <1>3, <1>5 DEF Progress

LEMMA CollectStep ==
  ASSUME Known, WholeNames, NEW n \in 0..Len(Items), Progress(n), Collect
  PROVE  Progress(n)'
<1>1. pc = "predicates" /\ (call.source = "None" \/ k > Len(Objects)) /\ ~pending
  BY DEF Collect, Known, RunType
<1>2. /\ result' = Collected(call.mode, item, result) /\ pc' = "native"
      /\ UNCHANGED <<buildVars, left, call, cancelled, accepted, refused>>
  BY <1>1 DEF Collect, callVars
<1>3. n \in 1..Len(Items) /\ item = Items[n] /\ Passing /\ AskedOf(n) /\ result = Gathered(Found(n - 1))
  BY <1>1, AtHand
<1>4. Selected(Items[n].nth, Items[n].capture)
  <2>1. Len(Objects) \in Nat
    BY <1>3, ObjectsAreSequence
  <2>. QED  BY <1>1, <1>3, <2>1, ItemPasses DEF Known
<1>5. /\ Found(n) = Append(Found(n - 1), item)
      /\ Found(n - 1) \in Seq(ItemRecord) /\ item \in ItemRecord
  BY <1>3, <1>4, FoundStep DEF Known
<1>6. Gathered(Found(n)) = result'
  <2>1. PICK s : s = Found(n - 1)
    OBVIOUS
  <2>2. PICK it : it = item
    OBVIOUS
  <2>3. call.mode \in {"matches", "captures"}
    BY DEF Known, RunType
  <2>4. Gathered(Append(s, it)) = Collected(call.mode, it, Gathered(s))
    BY <1>5, <2>1, <2>2, <2>3, GatheredGrows
  <2>. QED  BY <1>2, <1>3, <1>5, <2>1, <2>2, <2>4
<1>7. Items' = Items /\ AskedOf(n)' /\ Gathered(Found(n))' = Gathered(Found(n))
  BY <1>2, <1>3, SameFound
<1>8. result' = Gathered(Found(n))' /\ pc # "native"
  BY <1>1, <1>6, <1>7
<1>. QED  BY <1>2, <1>7, <1>8, GoesBack

LEMMA ProgressStep ==
  ASSUME Known, NEW n \in 0..Len(Items), Progress(n), ProgressContinues \/ ProgressCancels
  PROVE  Progress(n)'
<1>1. /\ pc = "native" /\ pc' = "native" /\ result' = result
      /\ (left' = left /\ cancelled' = cancelled) \/ (left' = <<>> /\ cancelled')
      /\ UNCHANGED <<buildVars, call, accepted, refused>>
  BY DEF ProgressContinues, ProgressCancels, callVars
<1>2. AskedOf(n) /\ result = Gathered(Found(n))
  BY <1>1 DEF Progress
<1>3. Items' = Items /\ AskedOf(n)' /\ Gathered(Found(n))' = Gathered(Found(n))
  BY <1>1, <1>2, SameFound
<1>. QED  BY <1>1, <1>2, <1>3 DEF Progress

(* A call that begins has looked at nothing.                                *)
LEMMA ExecuteStep ==
  ASSUME RunType, CallInv, RunType', CallInv', Execute
  PROVE  Progress(0)' /\ 0 \in 0..Len(Items')
<1>1. PICK mode \in {"matches", "captures"}, run \in Runs, source \in Sources, callable \in BOOLEAN :
        /\ call' = [mode |-> mode, run |-> run, source |-> source, callable |-> callable]
        /\ left' = ItemsOf(mode, run) /\ result' = Empty(mode)
  BY DEF Execute
<1>2. /\ pc' = "native" /\ accepted' = accepted /\ refused' = refused
      /\ accepted = {} /\ refused = {}
  BY DEF Execute, CallInv
<1>3. Items' = ItemsOf(mode, run) /\ call'.mode = mode
  BY <1>1 DEF Items
<1>4. ItemsOf(mode, run) \in Seq(ItemRecord)
  BY ItemsType
<1>5. PICK its : its = ItemsOf(mode, run)
  OBVIOUS
<1>6. its \in Seq(ItemRecord) /\ Len(its) \in Nat
  BY <1>4, <1>5
<1>7. left' = SubSeq(its, 0 + 1, Len(its))
  <2>1. SubSeq(its, 1, Len(its)) = its
    BY <1>6, SubSeqFull
  <2>. QED  BY <1>1, <1>5, <2>1
<1>8. AskedOf(0)'
  BY <1>2 DEF AskedOf
<1>9. Found(0)' = <<>>
  <2>1. PICK A : A = SelectedSet'
    OBVIOUS
  <2>2. OnlyUpTo(its, A)[0] = <<>>
    BY <1>6, OnlyRecursion
  <2>. QED  BY <1>3, <1>5, <2>1, <2>2 DEF Found
<1>10. Gathered(<<>>)' = Empty(mode)
  <2>1. CASE mode = "matches"
    <3>1. Gathered(<<>>)' =
            [n \in DOMAIN <<>> |-> << <<>>[n].match.pattern, CapturesForMatch(<<>>[n].match)>>]
      BY <1>3, <2>1 DEF Gathered
    <3>. QED  BY <2>1, <3>1 DEF Empty
  <2>2. CASE mode = "captures"
    <3>1. Gathered(<<>>)' = {<<>>[n].match.captures[<<>>[n].capture] : n \in DOMAIN <<>>}
      BY <1>3, <2>2 DEF Gathered
    <3>. QED  BY <2>2, <3>1 DEF Empty
  <2>. QED  BY <2>1, <2>2
<1>11. Gathered(Found(0))' = Gathered(<<>>)'
  BY <1>9 DEF Gathered
<1>12. Progress(0)'
  BY <1>1, <1>2, <1>3, <1>5, <1>7, <1>8, <1>10, <1>11 DEF Progress
<1>. QED  BY <1>3, <1>5, <1>6, <1>12

LEMMA SelectionStep ==
  ASSUME WholeNames, RunType, CallInv, WalkInv, SelectionInv,
         RunType', CallInv', [Next]_vars
  PROVE  SelectionInv'
<1>1. SUFFICES ASSUME Running', ~raised', inner' = 0  PROVE  \E n \in 0..Len(Items') : Progress(n)'
  BY DEF SelectionInv
<1>2. CASE Build
  <2>1. built # "built" /\ pc' = pc
    BY <1>2, BuildWhileIdle
  <2>. QED  BY <1>1, <2>1 DEF RunType, Running
<1>3. CASE RejectArguments \/ DropResult
  BY <1>1, <1>3 DEF RejectArguments, DropResult, Running
<1>4. CASE Execute
  BY <1>4, ExecuteStep
<1>5. CASE Run
  <2>1. Running /\ UNCHANGED buildVars
    <3>1. Running
      BY <1>5 DEF Run, Running, NextMatch, Exhausted, ProgressContinues, ProgressCancels,
         ProgressRaises, TextPredicate, TextFails, IsBuiltIn, Checking, WithoutCallable,
         CallPredicate, PredicateAccepts, PredicateRefuses, PredicateUntestable,
         PredicateRaises, PredicateReenters, PredicateMovesCaptures,
         Collect
    <3>. QED  BY <1>5, <3>1, UnbuiltSteps
  <2>2. call' = call /\ (raised => raised') /\ (inner' = inner \/ inner' = inner + 1)
    BY <1>5 DEF Run, NextMatch, Exhausted, Return, ProgressContinues, ProgressCancels, ProgressRaises,
       Fault, TextPredicate, TextFails, WithoutCallable, CallPredicate, PredicateAccepts,
       PredicateRefuses, PredicateUntestable, PredicateRaises, PredicateReenters, PredicateMovesCaptures,
         Collect, callVars
  <2>3. Items' = Items
    BY <2>2 DEF Items
  <2>4. Known
    BY <1>1, <2>1, <2>2 DEF Known, RunType
  <2>5. PICK n \in 0..Len(Items) : Progress(n)
    BY <2>1, <2>4 DEF Known, SelectionInv
  <2>6. CASE NextMatch
    BY <2>3, <2>4, <2>5, <2>6, NextMatchStep
  <2>7. CASE Exhausted \/ ProgressRaises \/ TextFails \/ PredicateMovesCaptures
    BY <1>1, <2>7 DEF Exhausted, Return, ProgressRaises, TextFails, PredicateMovesCaptures, Fault, Running
  <2>8. CASE PredicateUntestable \/ PredicateRaises
    <3>1. raised' = TRUE
      BY <2>8 DEF PredicateUntestable, PredicateRaises
    <3>. QED  BY <1>1, <3>1
  <2>9. CASE PredicateReenters
    BY <1>1, <2>4, <2>9 DEF PredicateReenters, Known, RunType
  <2>10. CASE ProgressContinues \/ ProgressCancels \/ TextPredicate \/ WithoutCallable \/ CallPredicate
             \/ PredicateAccepts \/ PredicateRefuses \/ Collect
    <3>1. Progress(n)'
      BY <1>1, <2>4, <2>5, <2>10, ProgressStep, TextPredicateStep, WithoutCallableStep,
         CallPredicateStep, AcceptsStep, RefusesStep, CollectStep
    <3>. QED  BY <2>3, <2>5, <3>1
  <2>. QED  BY <1>5, <2>6, <2>7, <2>8, <2>9, <2>10 DEF Run
<1>6. CASE UNCHANGED vars
  <2>1. /\ UNCHANGED <<buildVars, call, accepted, refused, pc, left, item, k, result, cancelled,
                       inner>>
        /\ raised' = raised
    BY <1>6 DEF vars, callVars
  <2>2. Running /\ ~raised /\ inner = 0
    BY <1>1, <2>1 DEF Running
  <2>3. PICK n \in 0..Len(Items) : Progress(n)
    BY <2>2 DEF SelectionInv
  <2>4. /\ Items' = Items /\ (AskedOf(n)' <=> AskedOf(n)) /\ Gathered(Found(n))' = Gathered(Found(n))
        /\ Gathered(Found(n - 1))' = Gathered(Found(n - 1))
    BY <2>1, SameFound
  <2>5. Objects' = Objects
    BY <2>1 DEF Objects, buildVars
  <2>6. Passing <=> Passing'
    <3>1. \A p : Passed(p)' <=> Passed(p)
      BY <2>1 DEF Passed
    <3>. QED  BY <2>1, <2>5, <3>1 DEF Passing
  <2>7. Progress(n)'
    BY <2>1, <2>3, <2>4, <2>6 DEF Progress
  <2>. QED  BY <2>3, <2>4, <2>7
<1>. QED  BY <1>2, <1>3, <1>4, <1>5, <1>6 DEF Next

LEMMA SelectedIs == SelectedItems = Only(Items, SelectedSet)
BY DEF SelectedItems, Items, SelectedSet

(* The result of a call that comes to the end of its run is right.          *)
LEMMA ExhaustedStep ==
  ASSUME RunType, CallInv, SelectionInv, Exhausted, ~raised'
  PROVE  ResultIsSelection'
<1>1. SUFFICES ASSUME outcome' = "ok", inner' = 0  PROVE  ResultIsSelection'
  BY DEF ResultIsSelection, Returned
<1>2. pc = "native" /\ left = <<>> /\ Return("ok")
  BY <1>1 DEF Exhausted, Return
<1>3. result' = result /\ UNCHANGED <<buildVars, call, accepted, refused, raised, cancelled, inner>>
  BY <1>2 DEF Return, callVars
<1>4. Running
  BY <1>2 DEF Running
<1>5. PICK n \in 0..Len(Items) : Progress(n)
  BY <1>1, <1>3, <1>4 DEF SelectionInv
<1>6. result = Gathered(Found(n))
  BY <1>2, <1>5 DEF Progress
<1>7. Items \in Seq(ItemRecord) /\ Len(Items) \in Nat
  BY <1>4, RunItems
<1>8. PICK all : all = SelectedItems
  OBVIOUS
<1>9. SelectedItems' = all
  <2>1. query' = query
    BY <1>3 DEF buildVars
  <2>2. Items' = Items
    BY <1>3 DEF Items
  <2>3. \A x, c : Selected(x, c)' <=> Selected(x, c)
    BY <1>3, <2>1, SelectedAgrees
  <2>4. SelectedSet' = SelectedSet
    BY <2>2, <2>3 DEF SelectedSet
  <2>. QED  BY <1>8, <2>2, <2>4 DEF SelectedItems, Items, SelectedSet
<1>10. \A s : Gathered(s)' = Gathered(s)
  BY <1>3 DEF Gathered
<1>11. CASE n = Len(Items)
  <2>1. Found(n) = all
    BY <1>8, <1>11, SelectedIs DEF Found, Only
  <2>2. result' = Gathered(all)'
    BY <1>3, <1>6, <1>10, <2>1
  <2>. QED  BY <1>9, <2>2 DEF ResultIsSelection
<1>12. CASE n # Len(Items)
  <2>1. cancelled
    <3>1. SUFFICES ASSUME left = SubSeq(Items, n + 1, Len(Items))  PROVE  FALSE
      BY <1>5 DEF Progress
    <3>2. n + 1 \in Int /\ Len(Items) \in Int /\ n + 1 <= Len(Items)
      BY <1>7, <1>12
    <3>3. \A i \in n + 1..Len(Items) : i \in 1..Len(Items)
      BY <1>7
    <3>4. \A i \in n + 1..Len(Items) : Items[i] \in ItemRecord
      BY <1>7, <3>3
    <3>5. Len(SubSeq(Items, n + 1, Len(Items))) = Len(Items) - (n + 1) + 1
      BY <3>2, <3>4, SubSeqProperties
    <3>6. Len(<<>>) = 0 /\ Len(Items) - (n + 1) + 1 # 0
      BY <1>7, <3>2
    <3>. QED  BY <1>2, <3>1, <3>5, <3>6
  <2>2. PICK m \in 0..Len(all) : Found(n) = SubSeq(all, 1, m)
    <3>1. PICK s : s = Items
      OBVIOUS
    <3>2. PICK A : A = SelectedSet
      OBVIOUS
    <3>3. s \in Seq(ItemRecord) /\ n \in 0..Len(s)
      BY <1>5, <1>7, <3>1
    <3>4. \E m \in 0..Len(Only(s, A)) : OnlyUpTo(s, A)[n] = SubSeq(Only(s, A), 1, m)
      BY <3>3, OnlyPrefix
    <3>5. all = Only(s, A)
      BY <1>8, <3>1, <3>2, SelectedIs
    <3>. QED  BY <3>1, <3>2, <3>4, <3>5 DEF Found
  <2>3. result' = Gathered(SubSeq(all, 1, m))'
    BY <1>3, <1>6, <1>10, <2>2
  <2>4. cancelled'
    BY <1>3, <2>1
  <2>. QED  BY <1>9, <2>2, <2>3, <2>4 DEF ResultIsSelection
<1>. QED  BY <1>11, <1>12

LEMMA ResultStep ==
  ASSUME RunType, CallInv, SelectionInv, raised \/ ResultIsSelection, [Next]_vars
  PROVE  raised' \/ ResultIsSelection'
<1>1. SUFFICES ASSUME ~raised', pc' = "idle", outcome' = "ok", inner' = 0
               PROVE  ResultIsSelection'
  BY DEF ResultIsSelection, Returned
<1>2. CASE Build
  <2>1. built # "built" /\ pc' = pc /\ outcome' = outcome
    BY <1>2, BuildWhileIdle
  <2>. QED  BY <1>1, <2>1 DEF CallInv, Returned
<1>3. CASE RejectArguments \/ DropResult \/ Execute
  BY <1>1, <1>3 DEF RejectArguments, DropResult, Execute
<1>4. CASE Run
  <2>1. CASE Exhausted
    BY <1>1, <2>1, ExhaustedStep
  <2>2. CASE ~Exhausted
    <3>1. pc' # "idle" \/ outcome' = "error"
      BY <1>4, <2>2 DEF Run, NextMatch, Return, ProgressContinues, ProgressCancels,
         ProgressRaises, Fault, TextPredicate, TextFails, WithoutCallable, CallPredicate,
         PredicateAccepts, PredicateRefuses, PredicateUntestable, PredicateRaises,
         PredicateReenters, PredicateMovesCaptures, Collect, Satisfied, Unsatisfied
    <3>. QED  BY <1>1, <3>1
  <2>. QED  BY <2>1, <2>2
<1>5. CASE UNCHANGED vars
  <2>1. /\ UNCHANGED <<query, call, accepted, refused, pc, outcome, result, cancelled, inner,
                  raised>>
    BY <1>5 DEF vars, callVars, buildVars
  <2>2. \A x, c : Selected(x, c)' <=> Selected(x, c)
    BY <2>1, SelectedAgrees
  <2>3. SelectedItems' = SelectedItems
    BY <2>1, <2>2 DEF SelectedItems
  <2>4. \A s : Gathered(s)' = Gathered(s)
    BY <2>1 DEF Gathered
  <2>5. ResultIsSelection
    BY <1>1, <2>1
  <2>. QED  BY <1>1, <2>1, <2>3, <2>4, <2>5 DEF ResultIsSelection, Returned
<1>. QED  BY <1>2, <1>3, <1>4, <1>5 DEF Next

(* If the names of the predicates are whole, a call of matches() or         *)
(* captures() that returns gives back exactly what the predicates select, by*)
(* what their names mean and by what the callable said of each match, the   *)
(* matches in the order they were found; or the first of them if a progress *)
(* callback cut the run short.  The property speaks of calls whose callable *)
(* did not run the same cursor; left out is also a call in which a callback *)
(* raised and a later one, by handling an exception of its own, discarded   *)
(* what was raised.                                                         *)
THEOREM SelectionIsTrue ==
  ASSUME WholeNames
  PROVE  Spec => [](ResultIsSelection \/ (Catching /\ raised))
<1>. DEFINE Result == raised \/ ResultIsSelection
            Inv == RunType /\ CallInv /\ WalkInv /\ SelectionInv /\ Result
<1>1. Init => Inv
  <2>1. Init => CallInv /\ SelectionInv /\ Result
    BY DEF Init, CallInv, SelectionInv, Running, ResultIsSelection, Returned
  <2>. QED  BY <2>1, RunTypeInit, WalkInit
<1>2. Inv /\ [Next]_vars => Inv'
  <2>1. SUFFICES ASSUME Inv, [Next]_vars  PROVE  Inv'
    OBVIOUS
  <2>2. RunType' /\ WalkInv'
    BY <2>1, RunTypeStep, WalkStep
  <2>3. CallInv'
    BY <2>1, CallInvStep
  <2>4. SelectionInv'
    BY <2>1, <2>2, <2>3, SelectionStep
  <2>5. Result'
    BY <2>1, ResultStep
  <2>. QED  BY <2>2, <2>3, <2>4, <2>5
<1>3. Inv /\ (Catching \/ ExceptionReported) => ResultIsSelection \/ (Catching /\ raised)
  BY DEF ExceptionReported, ResultIsSelection
<1>. QED  BY <1>1, <1>2, <1>3, ExceptionSafety, PTL DEF Spec
=============================================================================
