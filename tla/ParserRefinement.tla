--------------------------- MODULE ParserRefinement ---------------------------
(***************************************************************************)
(* The Parser implements ParseCall, for every value of its constants: each *)
(* step of parser.c is a step of the promise or changes nothing in it.     *)
(***************************************************************************)
EXTENDS ParserProofs

(* What the promise does not mention: the attributes, the buffers, where a  *)
(* callback is.                                                             *)
SameCall == UNCHANGED <<pc, args, seen, pending, result>>
SameParser == self'.nLanguage = self.nLanguage /\ self'.outstanding = self.outstanding

LEMMA StutterInside ==
  ASSUME SameCall, SameParser
  PROVE  UNCHANGED Call!vars
BY DEF SameCall, SameParser, Kept, Ongoing, Answer, Call!vars

(* A move between two places of one call.                                   *)
LEMMA StutterBetween ==
  ASSUME pc # "idle", pc' # "idle", SameParser,
         UNCHANGED <<args, pending, result>>, seen'.docs = seen.docs
  PROVE  UNCHANGED Call!vars
BY DEF SameParser, Kept, Ongoing, Answer, Call!vars

(* While a call is in progress the promise is not idle, and what happens to *)
(* its parts happens to the call it sees.                                   *)
LEMMA CallInProgress ==
  ASSUME FrameInv
  PROVE  Call!Idle <=> pc = "idle"
BY ConstantsAssumption DEF FrameInv, Ongoing, Call!Idle, Call!NoCall

LEMMA CallUpdates ==
  ASSUME pc # "idle", pc' # "idle", UNCHANGED args
  PROVE  /\ Ongoing.failed = pending /\ Ongoing.source = args.source
         /\ Ongoing'.failed = pending'
         /\ seen'.docs = seen.docs => Ongoing' = [Ongoing EXCEPT !.failed = pending']
         /\ pending' = pending => Ongoing' = [Ongoing EXCEPT !.docs = seen'.docs]
         /\ Ongoing.docs = seen.docs
BY DEF Ongoing

LEMMA SameVisible ==
  ASSUME UNCHANGED <<self, result>>
  PROVE  self'.nLanguage = self.nLanguage /\ UNCHANGED <<Kept, Answer>>
BY DEF Kept, Answer

-----------------------------------------------------------------------------
(* The setters: only a language the native parser takes, or a new object,   *)
(* is visible in the promise.                                               *)
LEMMA LoggerInvisible ==
  ASSUME NEW p \in ParserType, NEW g, NEW c \in Cells
  PROVE  /\ SetLogger(p, g, c).nLanguage = p.nLanguage
         /\ SetLogger(p, g, c).outstanding = p.outstanding
BY DEF SetLogger, FreeLogger, ParserType

LEMMA RangesInvisible ==
  ASSUME NEW p \in ParserType, NEW r
  PROVE  SetRanges(p, r).nLanguage = p.nLanguage /\ SetRanges(p, r).outstanding = p.outstanding
BY DEF SetRanges, ParserType

(* p becomes q: to the promise, nothing or the assignment of a language.    *)
SameOrSet(p, q) ==
  \/ q.nLanguage = p.nLanguage /\ q.outstanding = p.outstanding
  \/ q.nLanguage \in Languages \cup {NULL} /\ q.outstanding = NULL

LEMMA LanguageVisible ==
  ASSUME NEW p \in ParserType, NEW l
  PROVE  SameOrSet(p, SetLanguage(p, l))
<1>1. CASE l = NULL
  BY <1>1, ConstantsAssumption DEF SetLanguage, SameOrSet, ParserType
<1>2. CASE l # NULL
  BY <1>2 DEF SetLanguage, SameOrSet, ParserType
<1>3. QED
  BY <1>1, <1>2

LEMMA InitialiseVisible ==
  ASSUME NEW p \in ParserType, NEW l, NEW r, NEW g, NEW c \in Cells
  PROVE  SameOrSet(p, Initialise(p, l, r, g, c))
<1> DEFINE a == IF l = NULL THEN p ELSE SetLanguage(p, l)
           b == IF r = NULL THEN a ELSE SetRanges(a, r)
<1>1. a \in ParserType /\ SameOrSet(p, a)
  BY SetLanguageType, LanguageVisible DEF SameOrSet
<1>2. b \in ParserType /\ b.nLanguage = a.nLanguage /\ b.outstanding = a.outstanding
  BY <1>1, SetRangesType, RangesInvisible
<1>3. Initialise(p, l, r, g, c) \in {a, b, SetLogger(b, g, c)}
  BY DEF Initialise
<1> HIDE DEF a, b
<1>4. QED
  BY <1>1, <1>2, <1>3, LoggerInvisible DEF SameOrSet

LEMMA AssignmentStep ==
  ASSUME pc = "idle", SameCall, SameOrSet(self, self')
  PROVE  Call!SetLanguage \/ UNCHANGED Call!vars
<1>1. CASE SameParser
  BY <1>1, StutterInside
<1>2. CASE self'.nLanguage \in Languages \cup {NULL} /\ self'.outstanding = NULL
  BY <1>2 DEF SameCall, Kept, Ongoing, Answer, Call!SetLanguage, Call!Idle, Call!NoCall
<1>3. QED
  BY <1>1, <1>2 DEF SameOrSet, SameParser

-----------------------------------------------------------------------------
LEMMA StartStep ==
  ASSUME TypeOK, DocInv, NEW src \in Sources, NEW hasProgress, Begin(src, hasProgress), ~pending,
         \/ seen' = Resumed
         \/ seen' = [Resumed EXCEPT !.docs = @ \cup {src}]
  PROVE  Call!Start
<1>1. pc = "idle" /\ self.nLanguage # NULL /\ pc' = "native" /\ UNCHANGED result
      /\ args'.source = src /\ pending' = FALSE
  BY DEF Begin, TypeOK, CallTypeOK
<1>2. self'.nLanguage = self.nLanguage /\ self'.outstanding = NULL
  BY DEF Begin, TypeOK, ParserType
<1>3. Resumed.docs = Kept
  BY DEF Resumed, Empty, Kept
<1>4. Resumed \in Consumed
  BY DEF Resumed, Empty, Consumed, TypeOK, ParserType
<1>5. PICK new \in BOOLEAN : seen'.docs = IF new THEN Kept \cup {src} ELSE Kept
  BY <1>3, <1>4 DEF Consumed
<1>6. Ongoing' = [source |-> src, docs |-> IF new THEN Kept \cup {src} ELSE Kept,
                  failed |-> FALSE]
  BY <1>1, <1>5 DEF Ongoing
<1>7. Kept' = {} /\ Answer' = Answer
  BY <1>1, <1>2 DEF Kept, Answer
<1>8. Call!Idle
  BY <1>1 DEF Ongoing, Call!Idle, Call!NoCall
<1>9. QED
  BY <1>1, <1>2, <1>6, <1>7, <1>8 DEF Call!Start

-----------------------------------------------------------------------------
(* One step of the Parser is one step of the promise, or none: the proof    *)
(* follows the disjuncts of Next.  That exceptions are not discarded is     *)
(* needed where a callback returns (CallReturns) and where a tree is made.  *)
LEMMA RefinementStep ==
  ASSUME ~Catching, TypeOK, FrameInv, DocInv, [Next]_vars
  PROVE  [Call!Next]_(Call!vars)
<1> USE DEF callVars
<1>0. self \in ParserType /\ seen \in Consumed /\ pending \in BOOLEAN
  BY DEF TypeOK, CallTypeOK
<1>1. CASE AssignLogger
  BY <1>0, <1>1, LoggerInvisible, StutterInside
     DEF AssignLogger, FreeCells, SameCall, SameParser
<1>2. CASE AssignRanges
  BY <1>0, <1>2, RangesInvisible, StutterInside DEF AssignRanges, SameCall, SameParser
<1>3. CASE AssignLanguage
  BY <1>0, <1>3, LanguageVisible, AssignmentStep DEF AssignLanguage, SameCall, Call!Next
<1>4. CASE DeleteLanguage
  <2>1. self'.nLanguage = self.nLanguage /\ self'.outstanding = self.outstanding
    BY <1>0, <1>4, ConstantsAssumption DEF DeleteLanguage, SetLanguage, ParserType
  <2>2. QED
    BY <1>4, <2>1, StutterInside DEF DeleteLanguage, SameCall, SameParser
<1>5. CASE CallInit
  BY <1>0, <1>5, InitialiseVisible, AssignmentStep DEF CallInit, FreeCells, SameCall, Call!Next
<1>6. CASE Recreate
  <2>1. SameOrSet(self, self')
    BY <1>6 DEF Recreate, Replace, New, SameOrSet
  <2>2. QED
    BY <1>6, <2>1, AssignmentStep DEF Recreate, SameCall, Call!Next
<1>7. CASE Reset
  <2>1. self'.nLanguage = self.nLanguage /\ self'.outstanding = NULL
    BY <1>0, <1>7 DEF Reset, ResetParser, ParserType
  <2>2. Call!Reset
    BY <1>7, <2>1 DEF Reset, Kept, Ongoing, Answer, Call!Reset, Call!Idle, Call!NoCall
  <2>3. QED
    BY <2>2 DEF Call!Next
<1>8. CASE ParseRejected \/ ParseNoLanguage
  <2>1. Call!Refuse
    BY <1>8 DEF ParseRejected, ParseNoLanguage, Failure, Call!Failure, Call!Refuse,
                Kept, Ongoing, Answer, Call!Idle, Call!NoCall
  <2>2. QED
    BY <2>1 DEF Call!Next
<1>9. CASE ParseBuffer \/ ParseCallable
  <2>1. PICK src \in Sources, hasProgress \in BOOLEAN :
          /\ Begin(src, hasProgress)
          /\ \/ seen' = Resumed
             \/ seen' = [Resumed EXCEPT !.docs = @ \cup {src}]
    BY <1>9 DEF ParseBuffer, ParseCallable, Sources
  <2>2. ~pending
    BY <2>1 DEF Begin, FrameInv
  <2>3. QED
    BY <2>1, <2>2, StartStep DEF Call!Next
<1>10. CASE ReadCalled \/ LogCalled \/ LogTypeReturns \/ ProgressCalled
  BY <1>10, StutterBetween
     DEF ReadCalled, LogCalled, LogTypeReturns, ProgressCalled, SameParser
<1>11. CASE ReadReturnsNone \/ ProgressContinues
  BY <1>0, <1>11, StutterBetween DEF ReadReturnsNone, ProgressContinues, CallReturns, SameParser
<1>12. CASE ReadRaises
  <2>1. /\ pc = "read" /\ pc' = "native" /\ pending' = TRUE /\ seen'.docs = seen.docs
        /\ UNCHANGED <<self, args, result>>
    BY <1>0, <1>12 DEF ReadRaises, Consumed
  <2>2. Call!CallbackRaises
    BY <2>1, CallInProgress, CallUpdates, SameVisible DEF Call!CallbackRaises
  <2>3. QED
    BY <2>2 DEF Call!Next
<1>13. ASSUME NEW o \in Chunks, NEW isEmpty \in BOOLEAN, ReadReturns(o, isEmpty)
       PROVE  Call!Next
  <2>1. /\ pc = "read" /\ pc' = "native" /\ pending = FALSE /\ pending' = FALSE
        /\ seen'.docs = seen.docs \cup {args.source}
        /\ UNCHANGED <<self, args, result>>
    BY <1>0, <1>13 DEF ReadReturns, CallReturns, Consumed
  <2>2. Call!Read
    BY <2>1, CallInProgress, CallUpdates, SameVisible DEF Call!Read
  <2>3. QED
    BY <2>2 DEF Call!Next
<1>14. CASE LogReturns
  <2>1. /\ pc = "log" /\ pc' = "native" /\ pending = FALSE
        /\ UNCHANGED <<self, args, seen, result>>
    BY <1>0, <1>14 DEF LogReturns, DocInv
  <2>2. CASE pending' = FALSE
    BY <2>1, <2>2, StutterBetween DEF SameParser
  <2>3. CASE pending' = TRUE
    <3>1. Call!CallbackRaises
      BY <2>1, <2>3, CallInProgress, CallUpdates, SameVisible DEF Call!CallbackRaises
    <3>2. QED
      BY <3>1 DEF Call!Next
  <2>4. QED
    BY <1>14, <2>2, <2>3 DEF LogReturns
<1>15. CASE LogReadsFreed \/ ReenterNative \/ ProgressRaises \/ TreeWithoutLanguage
  <2>1. SameCall /\ SameParser
    BY <1>0, <1>15
       DEF LogReadsFreed, ReenterNative, ProgressRaises, TreeWithoutLanguage, Faults, SameCall, SameParser, ParserType
  <2>2. QED
    BY <2>1, StutterInside
<1>16. CASE ProgressCancels
  <2>1. /\ pc = "progress" /\ pc' = "idle" /\ pending = FALSE
        /\ self'.nLanguage = self.nLanguage /\ self'.outstanding = seen
        /\ result' = Failure
    BY <1>0, <1>16 DEF ProgressCancels, Leave, ParserType
  <2>2. seen # NULL
    BY <1>0, ConstantsAssumption
  <2>3. Call!Cancel
    BY <2>1, <2>2, CallInProgress
       DEF Failure, Kept, Ongoing, Answer, Call!Cancel, Call!Failure, Call!NoCall
  <2>4. QED
    BY <2>3 DEF Call!Next
<1>17. CASE ParseReturns
  <2>1. /\ pc = "native" /\ pc' = "idle" /\ result' = Outcome
        /\ self'.nLanguage = self.nLanguage /\ self'.outstanding = self.outstanding
        /\ self.outstanding = NULL
    BY <1>0, <1>17 DEF ParseReturns, Leave, ParserType, DocInv
  <2>2. ~pending => ~seen.truncated
    BY DEF DocInv
  <2>3. Call!Return
    BY <1>0, <2>1, <2>2, CallInProgress
       DEF Outcome, NewTree, Failure, Kept, Ongoing, Answer, Call!Return, Call!Failure, Call!NoCall
  <2>4. QED
    BY <2>3 DEF Call!Next
<1>18. CASE UNCHANGED vars
  BY <1>18, StutterInside DEF vars, SameCall, SameParser
<1>19. QED
  BY <1>1, <1>2, <1>3, <1>4, <1>5, <1>6, <1>7, <1>8, <1>9, <1>10, <1>11, <1>12, <1>13,
     <1>14, <1>15, <1>16, <1>17, <1>18 DEF Next

(* While no callback discards an exception, a Parser keeps the promise of   *)
(* ParseCall: whatever is assigned, cancelled, resumed or raised, the       *)
(* results parse() gives are those of a parser that only has a grammar, the *)
(* documents of the call and those a cancelled call left.                   *)
THEOREM PromiseKept ==
  ASSUME ~Catching
  PROVE  Spec => KeepsPromise
<1>1. Init => Call!Init
  BY DEF Init, New, Kept, Ongoing, Answer, Call!Init, Call!NoCall
<1>2. QED
  BY <1>1, RefinementStep, TypeCorrect, DocInvariant, PTL DEF Spec, KeepsPromise, Call!Spec
=============================================================================
