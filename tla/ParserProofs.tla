---------------------------- MODULE ParserProofs ----------------------------
(***************************************************************************)
(* Proofs about Parser, for every value of its constants.                  *)
(***************************************************************************)
EXTENDS Parser, TLAPS

-----------------------------------------------------------------------------
(* The setters keep the type of the parser.                                 *)

LEMMA FreeLoggerType ==
  ASSUME NEW p \in ParserType
  PROVE  FreeLogger(p) \in ParserType
BY DEF FreeLogger, ParserType

LEMMA SetLoggerType ==
  ASSUME NEW p \in ParserType, NEW g, NEW c \in Cells
  PROVE  SetLogger(p, g, c) \in ParserType
BY FreeLoggerType DEF SetLogger, ParserType

LEMMA SetLanguageType ==
  ASSUME NEW p \in ParserType, NEW l
  PROVE  SetLanguage(p, l) \in ParserType
BY DEF SetLanguage, ParserType

LEMMA SetRangesType ==
  ASSUME NEW p \in ParserType, NEW r
  PROVE  SetRanges(p, r) \in ParserType
BY DEF SetRanges, ParserType

LEMMA InitialiseType ==
  ASSUME NEW p \in ParserType, NEW l, NEW r, NEW g, NEW c \in Cells
  PROVE  Initialise(p, l, r, g, c) \in ParserType
BY SetLoggerType, SetLanguageType, SetRangesType DEF Initialise

LEMMA ReplaceType ==
  ASSUME NEW p \in ParserType
  PROVE  Replace(p) \in ParserType
<1>1. FreeLogger(p) \in ParserType
  BY FreeLoggerType
<1>2. QED
  BY <1>1 DEF Replace, New, ParserType

LEMMA ReleaseType ==
  ASSUME exports \in [Objects -> Int], NEW v \in Objects \cup {NULL}, Release(v)
  PROVE  exports' \in [Objects -> Int]
BY DEF Release

LEMMA EmptyType == Empty \in Consumed
BY DEF Empty, Consumed

LEMMA LeaveType ==
  ASSUME Leave
  PROVE  CallTypeOK'
<1>1. NoArgs \in [source : Sources \cup {NULL}, progress : BOOLEAN]
  BY DEF NoArgs
<1>2. QED
  BY <1>1, EmptyType DEF Leave, CallTypeOK

-----------------------------------------------------------------------------
(* Typing alone is not inductive: what a callback is passed depends on where *)
(* the call is.  No exception outlives the call.                            *)
FrameInv ==
  /\ pc = "idle" => pending = FALSE
  /\ pc # "idle" => args.source \in Sources
  /\ pc = "logtype" => log \in Cells

LEMMA FrameStep == TypeOK /\ FrameInv /\ [Next]_vars => FrameInv'
<1> SUFFICES ASSUME TypeOK, FrameInv, [Next]_vars PROVE FrameInv'
  OBVIOUS
<1> USE DEF FrameInv, callVars
<1>1. CASE AssignLogger \/ AssignRanges \/ AssignLanguage \/ DeleteLanguage
           \/ CallInit \/ Recreate \/ Reset
  BY <1>1 DEF AssignLogger, AssignRanges, AssignLanguage, DeleteLanguage, CallInit, Recreate, Reset
<1>2. CASE ParseRejected \/ ParseNoLanguage
  BY <1>2 DEF ParseRejected, ParseNoLanguage
<1>3. CASE ParseBuffer
  BY <1>3 DEF ParseBuffer, Begin, Sources
<1>4. CASE ParseCallable
  BY <1>4 DEF ParseCallable, Begin, Sources
<1>5. CASE ReadCalled \/ ReadReturnsNone \/ ReadRaises
  BY <1>5 DEF CallReturns, ReadCalled, ReadReturnsNone, ReadRaises
<1>6. CASE \E o \in Chunks, isEmpty \in BOOLEAN : ReadReturns(o, isEmpty)
  BY <1>6 DEF CallReturns, ReadReturns
<1>7. CASE LogCalled
  BY <1>7 DEF LogCalled, TypeOK, ParserType
<1>8. CASE LogTypeReturns \/ LogReadsFreed \/ LogReturns \/ ReenterNative
  BY <1>8 DEF LogTypeReturns, LogReadsFreed, LogReturns, ReenterNative, Faults
<1>9. CASE ProgressCalled \/ ProgressContinues \/ ProgressRaises \/ TreeWithoutLanguage
  BY <1>9 DEF CallReturns, ProgressCalled, ProgressContinues, ProgressRaises,
              TreeWithoutLanguage, Faults
<1>10. CASE ProgressCancels \/ ParseReturns
  BY <1>10 DEF ProgressCancels, ParseReturns, Leave
<1>11. CASE UNCHANGED vars
  BY <1>11 DEF vars
<1>12. QED
  BY <1>1, <1>2, <1>3, <1>4, <1>5, <1>6, <1>7, <1>8, <1>9, <1>10, <1>11 DEF Next

LEMMA TypeStep == TypeOK /\ FrameInv /\ [Next]_vars => TypeOK'
<1> SUFFICES ASSUME TypeOK, FrameInv, [Next]_vars PROVE TypeOK'
  OBVIOUS
<1> USE DEF TypeOK, CallTypeOK, callVars
<1>1. CASE AssignLogger
  BY <1>1, SetLoggerType DEF AssignLogger, FreeCells
<1>2. CASE AssignRanges
  BY <1>2, SetRangesType DEF AssignRanges
<1>3. CASE AssignLanguage
  BY <1>3, SetLanguageType DEF AssignLanguage
<1>4. CASE DeleteLanguage
  BY <1>4, SetLanguageType DEF DeleteLanguage
<1>5. CASE CallInit
  BY <1>5, InitialiseType DEF CallInit, FreeCells
<1>6. CASE Recreate
  BY <1>6, ReplaceType DEF Recreate
<1>7. CASE Reset
  BY <1>7 DEF Reset, ResetParser, ParserType
<1>8. CASE ParseRejected \/ ParseNoLanguage
  BY <1>8 DEF ParseRejected, ParseNoLanguage
<1>9. Resumed \in Consumed
  BY DEF Resumed, Empty, Consumed, ParserType
<1>10. ASSUME NEW src \in Sources, NEW hasProgress \in BOOLEAN, Begin(src, hasProgress)
       PROVE  self' \in ParserType /\ args' \in [source : Sources \cup {NULL}, progress : BOOLEAN]
  BY <1>10 DEF Begin, ParserType
<1>11. CASE ParseBuffer
  <2>1. PICK b \in Buffers :
          /\ Begin(b, FALSE) /\ GetBuffer(b) /\ view' = b /\ chunk' = b
          /\ seen' = [Resumed EXCEPT !.docs = @ \cup {b}]
    BY <1>11 DEF ParseBuffer
  <2>2. self' \in ParserType /\ args' \in [source : Sources \cup {NULL}, progress : BOOLEAN]
    BY <2>1, <1>10 DEF Sources
  <2>3. seen' \in Consumed
    BY <2>1, <1>9 DEF Consumed, Sources
  <2>4. exports' \in [Objects -> Int] /\ view' \in Objects /\ chunk' \in Objects
    BY <2>1 DEF GetBuffer, Objects
  <2>5. QED
    BY <2>1, <2>2, <2>3, <2>4 DEF Begin
<1>12. CASE ParseCallable
  BY <1>9, <1>10, <1>12 DEF ParseCallable, Begin, Sources
<1>13. CASE ReadCalled
  BY <1>13, ReleaseType DEF ReadCalled, ReleasePrevious
<1>14. ASSUME NEW o \in Chunks, NEW isEmpty \in BOOLEAN, ReadReturns(o, isEmpty)
       PROVE  TypeOK'
  <2>1. exports' \in [Objects -> Int] /\ view' \in Objects /\ chunk' \in Objects \cup {NULL}
    BY <1>14 DEF CallReturns, ReadReturns, StoreBuffer, GetBuffer, Objects
  <2>2. args.source \in Sources
    BY <1>14 DEF CallReturns, ReadReturns, FrameInv
  <2>3. seen' \in Consumed
    BY <1>14, <2>2 DEF CallReturns, ReadReturns, Consumed
  <2>4. QED
    BY <1>14, <2>1, <2>3 DEF CallReturns, ReadReturns
<1>15. CASE ReadReturnsNone \/ ReadRaises
  BY <1>15 DEF CallReturns, ReadReturnsNone, ReadRaises, Consumed
<1>16. ASSUME NEW kind \in {"use after free", "null dereference", "native parser re-entered"},
              Faults(kind)
       PROVE  TypeOK'
  <2>1. self' \in ParserType
    BY <1>16 DEF Faults, ParserType
  <2>2. QED
    BY <1>16, <2>1 DEF Faults
<1>17. CASE LogCalled \/ LogReadsFreed \/ ReenterNative \/ TreeWithoutLanguage
  BY <1>16, <1>17 DEF LogCalled, LogReadsFreed, ReenterNative, TreeWithoutLanguage, ParserType
<1>18. CASE LogTypeReturns
  <2>1. self.heap[log] \in Loggers \cup {Free}
    BY <1>18 DEF LogTypeReturns, FrameInv, ParserType
  <2>2. QED
    BY <2>1, <1>18 DEF LogTypeReturns
<1>19. CASE LogReturns
  BY <1>19 DEF LogReturns
<1>20. CASE ProgressCalled \/ ProgressContinues \/ ProgressRaises
  BY <1>16, <1>20 DEF CallReturns, ProgressCalled, ProgressContinues, ProgressRaises
<1>21. CASE ProgressCancels
  <2>1. self' \in ParserType
    BY <1>21 DEF ProgressCancels, ParserType
  <2>2. QED
    BY <1>21, <2>1, ReleaseType, LeaveType DEF ProgressCancels
<1>22. CASE ParseReturns
  <2>1. NewTree \in Trees
    BY DEF NewTree, Trees, ParserType
  <2>2. self' \in ParserType
    BY <1>22 DEF ParseReturns, ParserType
  <2>3. QED
    BY <1>22, <2>1, <2>2, ReleaseType, LeaveType DEF ParseReturns, Outcome
<1>23. CASE UNCHANGED vars
  BY <1>23 DEF vars
<1>24. QED
  BY <1>1, <1>2, <1>3, <1>4, <1>5, <1>6, <1>7, <1>8, <1>11, <1>12, <1>13, <1>14,
     <1>15, <1>17, <1>18, <1>19, <1>20, <1>21, <1>22, <1>23 DEF Next

(* Every reachable state has the types that Parser declares: no callback,   *)
(* setter or failure of parser.c leaves a field with a foreign value.       *)
THEOREM TypeCorrect == Spec => [](TypeOK /\ FrameInv)
<1>1. Init => TypeOK
  <2> SUFFICES ASSUME Init PROVE TypeOK
    OBVIOUS
  <2>1. self \in ParserType
    BY DEF Init, New, ParserType
  <2>2. CallTypeOK
    BY EmptyType DEF Init, NoArgs, CallTypeOK
  <2>3. QED
    BY <2>1, <2>2 DEF Init, TypeOK
<1>2. Init => FrameInv
  BY DEF Init, FrameInv
<1>3. QED
  BY <1>1, <1>2, TypeStep, FrameStep, PTL DEF Spec

-----------------------------------------------------------------------------
(* Buffers: exactly the owner of the Py_buffer is exported, once, and the   *)
(* native lexer points into it.                                             *)
BufferInv ==
  /\ \A o \in Objects : exports[o] = IF view = o THEN 1 ELSE 0
  /\ chunk # NULL /\ pc # "read" => chunk = view
  /\ pc \in {"idle", "read"} => view = NULL

LEMMA NullNoObject == NULL \notin Objects
BY ConstantsAssumption DEF Objects, Sources

LEMMA ReleaseBuffer ==
  ASSUME TypeOK, BufferInv, Release(view)
  PROVE  \A o \in Objects : exports'[o] = 0
<1>1. view \in Objects \cup {NULL} /\ exports \in [Objects -> Int]
  BY DEF TypeOK, CallTypeOK
<1>2. QED
  BY <1>1, NullNoObject DEF BufferInv, Release

LEMMA BufferStep == TypeOK /\ BufferInv /\ [Next]_vars => BufferInv'
<1> SUFFICES ASSUME TypeOK, BufferInv, [Next]_vars PROVE BufferInv'
  OBVIOUS
<1> USE NullNoObject DEF BufferInv, callVars
<1>1. CASE AssignLogger \/ AssignRanges \/ AssignLanguage \/ DeleteLanguage
           \/ CallInit \/ Recreate \/ Reset
  BY <1>1 DEF AssignLogger, AssignRanges, AssignLanguage, DeleteLanguage, CallInit, Recreate, Reset
<1>2. CASE ParseRejected \/ ParseNoLanguage
  BY <1>2 DEF ParseRejected, ParseNoLanguage
<1>3. CASE ParseBuffer
  <2>1. PICK b \in Buffers : Begin(b, FALSE) /\ GetBuffer(b) /\ view' = b /\ chunk' = b
    BY <1>3 DEF ParseBuffer
  <2>2. b \in Objects /\ exports \in [Objects -> Int]
    BY DEF Objects, TypeOK
  <2>3. \A o \in Objects : exports'[o] = IF view' = o THEN 1 ELSE 0
    BY <2>1, <2>2 DEF GetBuffer, Begin
  <2>4. QED
    BY <2>1, <2>3 DEF Begin
<1>4. CASE ParseCallable
  BY <1>4 DEF ParseCallable, Begin
<1>5. CASE ReadCalled
  BY <1>5, ReleaseBuffer DEF ReadCalled, ReleasePrevious
<1>6. CASE ReadReturnsNone \/ ReadRaises
  BY <1>6 DEF CallReturns, ReadReturnsNone, ReadRaises
<1>7. ASSUME NEW o \in Chunks, NEW isEmpty \in BOOLEAN, ReadReturns(o, isEmpty)
      PROVE  BufferInv'
  <2>1. o \in Objects /\ exports \in [Objects -> Int]
    BY DEF Objects, TypeOK
  <2>2. \A x \in Objects : exports'[x] = IF view' = x THEN 1 ELSE 0
    BY <1>7, <2>1 DEF CallReturns, ReadReturns, StoreBuffer, GetBuffer
  <2>3. QED
    BY <1>7, <2>2 DEF CallReturns, ReadReturns, StoreBuffer
<1>8. CASE LogCalled \/ LogTypeReturns \/ LogReadsFreed \/ LogReturns \/ ReenterNative
           \/ TreeWithoutLanguage
  BY <1>8 DEF LogCalled, LogTypeReturns, LogReadsFreed, LogReturns, ReenterNative,
              TreeWithoutLanguage, Faults
<1>9. CASE ProgressCalled \/ ProgressContinues \/ ProgressRaises
  BY <1>9 DEF CallReturns, ProgressCalled, ProgressContinues, ProgressRaises, Faults
<1>10. CASE ProgressCancels \/ ParseReturns
  BY <1>10, ReleaseBuffer DEF ProgressCancels, ParseReturns, Leave
<1>11. CASE UNCHANGED vars
  BY <1>11 DEF vars
<1>12. QED
  BY <1>1, <1>2, <1>3, <1>4, <1>5, <1>6, <1>7, <1>8, <1>9, <1>10, <1>11 DEF Next

LEMMA BufferInvariant == Spec => [](TypeOK /\ BufferInv)
<1>1. Init => BufferInv
  BY NullNoObject DEF Init, BufferInv
<1>2. QED
  BY <1>1, BufferStep, TypeCorrect, PTL DEF Spec

(* The buffer protocol of parser_read_wrapper(): a text the native parser   *)
(* can read is exported, so nothing the callbacks do can resize it.         *)
THEOREM TextStaysExported == Spec => []ChunkExported
<1>1. TypeOK /\ BufferInv => ChunkExported
  BY NullNoObject DEF TypeOK, CallTypeOK, BufferInv, ChunkExported
<1>2. QED
  BY <1>1, BufferInvariant, PTL

(* parser_parse() gives every export back: when it is over no bytestring and *)
(* no chunk is exported, whatever the callbacks raised and however the call *)
(* ended.                                                                   *)
THEOREM ExportsReturned == Spec => []NoExportAtRest
<1>1. TypeOK /\ BufferInv => NoExportAtRest
  BY NullNoObject DEF TypeOK, CallTypeOK, BufferInv, NoExportAtRest
<1>2. QED
  BY <1>1, BufferInvariant, PTL

-----------------------------------------------------------------------------
(* Documents: what the native parser holds comes from the documents given   *)
(* since the last clean start, and is cut short only under an exception,    *)
(* which stays pending unless a callback handles one of its own.            *)
DocInv ==
  /\ seen.truncated => pending \/ Catching
  /\ pc = "log" => ~pending
  /\ pc # "idle" => /\ seen.docs \subseteq self.given /\ args.source \in self.given
                    /\ self.outstanding = NULL
  /\ self.outstanding # NULL => /\ self.outstanding.truncated => Catching
                               /\ self.outstanding.docs \subseteq self.given
  /\ Catching \/ NoTruncatedTree
  /\ NoStaleDocument

(* No assignment but that of a language touches the documents, and that one *)
(* forgets them all.                                                        *)
LEMMA LoggerKeepsDocs ==
  ASSUME NEW p \in ParserType, NEW g, NEW c \in Cells
  PROVE  /\ SetLogger(p, g, c).outstanding = p.outstanding
         /\ SetLogger(p, g, c).given = p.given
BY DEF SetLogger, FreeLogger, ParserType

LEMMA RangesKeepDocs ==
  ASSUME NEW p \in ParserType, NEW r
  PROVE  SetRanges(p, r).outstanding = p.outstanding /\ SetRanges(p, r).given = p.given
BY DEF SetRanges, ParserType

LEMMA LanguageDocs ==
  ASSUME NEW p \in ParserType, NEW l
  PROVE  /\ SetLanguage(p, l).outstanding \in {p.outstanding, NULL}
         /\ SetLanguage(p, l).outstanding # NULL => SetLanguage(p, l).given = p.given
         /\ l = NULL => SetLanguage(p, l).given = p.given
<1>1. CASE l = NULL
  BY <1>1, ConstantsAssumption DEF SetLanguage, ParserType
<1>2. CASE l # NULL /\ l \in Languages
  BY <1>2 DEF SetLanguage, ParserType
<1>3. CASE l # NULL /\ l \notin Languages
  BY <1>3 DEF SetLanguage, ParserType
<1>4. QED
  BY <1>1, <1>2, <1>3

LEMMA InitialiseDocs ==
  ASSUME NEW p \in ParserType, NEW l, NEW r, NEW g, NEW c \in Cells
  PROVE  /\ Initialise(p, l, r, g, c).outstanding \in {p.outstanding, NULL}
         /\ Initialise(p, l, r, g, c).outstanding # NULL
              => Initialise(p, l, r, g, c).given = p.given
<1> DEFINE a == IF l = NULL THEN p ELSE SetLanguage(p, l)
           b == IF r = NULL THEN a ELSE SetRanges(a, r)
<1>1. /\ a \in ParserType /\ a.outstanding \in {p.outstanding, NULL}
      /\ a.outstanding # NULL => a.given = p.given
  BY SetLanguageType, LanguageDocs
<1>2. b \in ParserType /\ b.outstanding = a.outstanding /\ b.given = a.given
  BY <1>1, SetRangesType, RangesKeepDocs
<1>3. Initialise(p, l, r, g, c) \in {a, b, SetLogger(b, g, c)}
  BY DEF Initialise
<1> HIDE DEF a, b
<1>4. QED
  BY <1>1, <1>2, <1>3, LoggerKeepsDocs

LEMMA DocStep == TypeOK /\ DocInv /\ [Next]_vars => DocInv'
<1> SUFFICES ASSUME TypeOK, DocInv, [Next]_vars PROVE DocInv'
  OBVIOUS
<1> USE DEF DocInv, NoTruncatedTree, NoStaleDocument, callVars
<1>0. self \in ParserType /\ seen \in Consumed
  BY DEF TypeOK, CallTypeOK
<1>1. CASE AssignLogger
  BY <1>0, <1>1, LoggerKeepsDocs DEF AssignLogger, FreeCells
<1>2. CASE AssignRanges
  BY <1>0, <1>2, RangesKeepDocs DEF AssignRanges
<1>3. CASE AssignLanguage
  BY <1>0, <1>3, LanguageDocs DEF AssignLanguage
<1>4. CASE DeleteLanguage
  BY <1>0, <1>4, LanguageDocs, ConstantsAssumption DEF DeleteLanguage
<1>5. CASE CallInit
  BY <1>0, <1>5, InitialiseDocs DEF CallInit, FreeCells
<1>6. CASE Recreate
  BY <1>0, <1>6 DEF Recreate, Replace, New
<1>7. CASE Reset
  BY <1>0, <1>7 DEF Reset, ResetParser, ParserType
<1>8. CASE ParseRejected \/ ParseNoLanguage
  BY <1>8 DEF ParseRejected, ParseNoLanguage, Failure
<1>9. (Resumed.truncated => Catching) /\ Resumed.docs \subseteq self.given
  BY <1>0 DEF Resumed, Empty
<1>10. ASSUME NEW src, NEW hasProgress, Begin(src, hasProgress)
       PROVE  /\ self'.given = self.given \cup {src} /\ self'.outstanding = NULL
              /\ args'.source = src
  BY <1>0, <1>10 DEF Begin, ParserType
<1>11. CASE ParseBuffer
  <2>1. PICK b \in Buffers : /\ Begin(b, FALSE)
                            /\ seen' = [Resumed EXCEPT !.docs = @ \cup {b}]
    BY <1>11 DEF ParseBuffer
  <2>2. Resumed \in Consumed
    BY <1>0 DEF Resumed, ParserType, Empty, Consumed
  <2>3. (seen'.truncated => Catching) /\ seen'.docs = Resumed.docs \cup {b}
    BY <1>9, <2>1, <2>2 DEF Consumed
  <2>4. QED
    BY <1>9, <1>10, <2>1, <2>3 DEF Begin
<1>12. CASE ParseCallable
  BY <1>9, <1>10, <1>12 DEF ParseCallable, Begin
<1>13. CASE ReadCalled \/ ReadReturnsNone
  BY <1>13 DEF CallReturns, ReadCalled, ReadReturnsNone
<1>14. ASSUME NEW o \in Chunks, NEW isEmpty \in BOOLEAN, ReadReturns(o, isEmpty)
       PROVE  DocInv'
  BY <1>0, <1>14 DEF CallReturns, ReadReturns, Consumed
<1>15. CASE ReadRaises
  BY <1>0, <1>15 DEF ReadRaises, Consumed
<1>16. ASSUME NEW kind, Faults(kind)
       PROVE  DocInv'
  BY <1>0, <1>16 DEF Faults, ParserType
<1>17. CASE LogCalled \/ LogTypeReturns \/ LogReadsFreed \/ ReenterNative
  <2>1. CASE LogCalled
    BY <2>1 DEF LogCalled
  <2>2. CASE LogTypeReturns
    <3>1. CASE pending
      BY <2>2, <3>1 DEF LogTypeReturns
    <3>2. CASE ~pending
      BY <2>2, <3>2 DEF LogTypeReturns
    <3>3. QED
      BY <3>1, <3>2
  <2>3. CASE LogReadsFreed \/ ReenterNative
    BY <1>16, <2>3 DEF LogReadsFreed, ReenterNative
  <2>4. QED
    BY <1>17, <2>1, <2>2, <2>3
<1>18. CASE LogReturns
  BY <1>18 DEF LogReturns
<1>19. CASE ProgressCalled \/ ProgressContinues \/ ProgressRaises \/ TreeWithoutLanguage
  BY <1>16, <1>19
     DEF CallReturns, ProgressCalled, ProgressContinues, ProgressRaises, TreeWithoutLanguage
<1>20. CASE ProgressCancels
  BY <1>0, <1>20 DEF ProgressCancels, Leave, Empty, Failure, ParserType
<1>21. CASE ParseReturns
  <2>1. self'.outstanding = self.outstanding /\ self'.given = {}
    BY <1>0, <1>21 DEF ParseReturns, ParserType
  <2>2. QED
    BY <1>0, <1>21, <2>1 DEF ParseReturns, Leave, Empty, Outcome, NewTree, Failure
<1>22. CASE UNCHANGED vars
  BY <1>22 DEF vars
<1>23. QED
  BY <1>1, <1>2, <1>3, <1>4, <1>5, <1>6, <1>7, <1>8, <1>11, <1>12, <1>13, <1>14,
     <1>15, <1>17, <1>18, <1>19, <1>20, <1>21, <1>22 DEF Next

LEMMA DocInvariant == Spec => []DocInv
<1>1. Init => DocInv
  BY DEF Init, New, Empty, DocInv, NoTruncatedTree, NoStaleDocument
<1>2. QED
  BY <1>1, DocStep, TypeCorrect, PTL DEF Spec

(* What reaches a Tree is never a document from before the last reset(),    *)
(* language assignment or finished parse, whatever was cancelled, resumed   *)
(* or raised in between.                                                    *)
THEOREM TreesAreFresh == Spec => []NoStaleDocument
<1>1. DocInv => NoStaleDocument
  BY DEF DocInv
<1>2. QED
  BY <1>1, DocInvariant, PTL

(* Unless a later callback handles an exception of its own (CPython clears  *)
(* the pending one with it), a text that an exception of the read callback  *)
(* cut short never becomes a Tree, however often the parse is cancelled and *)
(* resumed.                                                                 *)
THEOREM TreesAreWhole ==
  ASSUME ~Catching
  PROVE  Spec => []NoTruncatedTree
<1>1. DocInv => NoTruncatedTree
  BY DEF DocInv
<1>2. QED
  BY <1>1, DocInvariant, PTL

-----------------------------------------------------------------------------
(* Languages.  Named(p) is LanguageAgrees of a parser p.  No assumption on  *)
(* the program is needed: it may delete the attribute whenever Python runs. *)
Named(p) == p.language \in {NULL, p.nLanguage}

LEMMA LoggerKeepsLanguage ==
  ASSUME NEW p \in ParserType, NEW g, NEW c \in Cells
  PROVE  /\ SetLogger(p, g, c).language = p.language
         /\ SetLogger(p, g, c).nLanguage = p.nLanguage
BY DEF SetLogger, FreeLogger, ParserType

LEMMA RangesKeepLanguage ==
  ASSUME NEW p \in ParserType, NEW r
  PROVE  SetRanges(p, r).language = p.language /\ SetRanges(p, r).nLanguage = p.nLanguage
BY DEF SetRanges, ParserType

LEMMA SetLanguageNamed ==
  ASSUME NEW p \in ParserType, Named(p), NEW l
  PROVE  Named(SetLanguage(p, l))
BY DEF SetLanguage, Named, ParserType

LEMMA InitialiseNamed ==
  ASSUME NEW p \in ParserType, Named(p), NEW l, NEW r, NEW g, NEW c \in Cells
  PROVE  Named(Initialise(p, l, r, g, c))
<1> DEFINE a == IF l = NULL THEN p ELSE SetLanguage(p, l)
           b == IF r = NULL THEN a ELSE SetRanges(a, r)
<1>1. a \in ParserType /\ Named(a)
  BY SetLanguageType, SetLanguageNamed
<1>2. b \in ParserType /\ Named(b)
  BY <1>1, SetRangesType, RangesKeepLanguage DEF Named
<1>3. Initialise(p, l, r, g, c) \in {a, b, SetLogger(b, g, c)}
  BY DEF Initialise
<1> HIDE DEF a, b
<1>4. QED
  BY <1>1, <1>2, <1>3, LoggerKeepsLanguage DEF Named

(* A tree is made only while the attribute shows a language, which is then  *)
(* the native parser's: the two conjuncts carry each other.                 *)
LanguageInv == Named(self) /\ TreeLanguageMatches

LEMMA LanguageStep == TypeOK /\ LanguageInv /\ [Next]_vars => LanguageInv'
<1> SUFFICES ASSUME TypeOK, LanguageInv, [Next]_vars PROVE LanguageInv'
  OBVIOUS
<1> USE DEF LanguageInv, TreeLanguageMatches, callVars
<1>0. self \in ParserType
  BY DEF TypeOK
<1>1. CASE AssignLogger
  BY <1>0, <1>1, LoggerKeepsLanguage DEF AssignLogger, FreeCells, Named
<1>2. CASE AssignRanges
  BY <1>0, <1>2, RangesKeepLanguage DEF AssignRanges, Named
<1>3. CASE AssignLanguage \/ DeleteLanguage
  BY <1>0, <1>3, SetLanguageNamed DEF AssignLanguage, DeleteLanguage
<1>4. CASE CallInit
  BY <1>0, <1>4, InitialiseNamed DEF CallInit, FreeCells
<1>5. CASE Recreate \/ Reset
  BY <1>0, <1>5 DEF Recreate, Replace, New, Reset, ResetParser, ParserType, Named
<1>6. CASE ParseRejected \/ ParseNoLanguage
  BY <1>6 DEF ParseRejected, ParseNoLanguage, Failure
<1>7. ASSUME NEW src, NEW hasProgress, Begin(src, hasProgress)
      PROVE  LanguageInv'
  BY <1>0, <1>7 DEF Begin, ParserType, Named
<1>8. CASE ParseBuffer \/ ParseCallable
  BY <1>7, <1>8 DEF ParseBuffer, ParseCallable
<1>9. CASE ReadCalled \/ ReadReturnsNone \/ ReadRaises \/ LogCalled \/ LogTypeReturns
           \/ LogReturns \/ ProgressCalled \/ ProgressContinues
  BY <1>9 DEF CallReturns, ReadCalled, ReadReturnsNone, ReadRaises, LogCalled, LogTypeReturns,
              LogReturns, ProgressCalled, ProgressContinues
<1>10. ASSUME NEW o \in Chunks, NEW isEmpty \in BOOLEAN, ReadReturns(o, isEmpty)
       PROVE  LanguageInv'
  BY <1>10 DEF CallReturns, ReadReturns
<1>11. CASE LogReadsFreed \/ ProgressRaises \/ ReenterNative \/ TreeWithoutLanguage
  BY <1>0, <1>11 DEF LogReadsFreed, ProgressRaises, ReenterNative, TreeWithoutLanguage, Faults,
                     ParserType, Named
<1>12. CASE ProgressCancels
  BY <1>0, <1>12 DEF ProgressCancels, Failure, ParserType, Named
<1>13. CASE ParseReturns
  <2>1. Named(self')
    BY <1>0, <1>13 DEF ParseReturns, ParserType, Named
  <2>2. CASE pending
    BY <1>13, <2>1, <2>2 DEF ParseReturns, Outcome, Failure
  <2>3. CASE ~pending
    <3>1. self.language = self.nLanguage
      BY <1>13, <2>3 DEF ParseReturns, Named
    <3>2. QED
      BY <1>13, <2>1, <2>3, <3>1 DEF ParseReturns, Outcome, NewTree
  <2>4. QED
    BY <2>2, <2>3
<1>14. CASE UNCHANGED vars
  BY <1>14 DEF vars
<1>15. QED
  BY <1>1, <1>2, <1>3, <1>4, <1>5, <1>6, <1>8, <1>9, <1>10, <1>11, <1>12, <1>13, <1>14 DEF Next

LEMMA LanguageInvariant == Spec => []LanguageInv
<1>1. Init => LanguageInv
  BY DEF Init, New, LanguageInv, Named, TreeLanguageMatches
<1>2. QED
  BY <1>1, LanguageStep, TypeCorrect, PTL DEF Spec

(* A language that the attribute shows is the one the native parser uses,   *)
(* whatever is assigned, refused or deleted, outside parse() or in its      *)
(* callbacks.                                                               *)
THEOREM LanguageSafety == Spec => []LanguageAgrees
<1>1. LanguageInv => LanguageAgrees
  BY DEF LanguageInv, Named, LanguageAgrees
<1>2. QED
  BY <1>1, LanguageInvariant, PTL

(* Each Tree names the language that built it, although parser_parse() reads *)
(* the attribute only after the native parse, whose callbacks may have      *)
(* deleted it.                                                              *)
THEOREM TreesNameTheirLanguage == Spec => []TreeLanguageMatches
<1>1. LanguageInv => TreeLanguageMatches
  BY DEF LanguageInv
<1>2. QED
  BY <1>1, LanguageInvariant, PTL

-----------------------------------------------------------------------------
(* Loggers.  Agrees(p) is LoggerAgrees of a parser p.                       *)
Agrees(p) ==
  /\ \A c \in Cells : p.heap[c] # Free <=> c = p.nLogger
  /\ p.logger = IF p.nLogger = NULL THEN NULL ELSE p.heap[p.nLogger]

LEMMA SetLoggerAgrees ==
  ASSUME NEW p \in ParserType, Agrees(p), NEW g \in Loggers \cup {NULL},
         NEW c \in FreeCells(FreeLogger(p))
  PROVE  /\ Agrees(SetLogger(p, g, c))
         /\ SetLogger(p, g, c).fault = p.fault
         /\ SetLogger(p, g, c).language = p.language
         /\ SetLogger(p, g, c).nLanguage = p.nLanguage
<1> DEFINE q == FreeLogger(p)
<1>1. /\ q \in ParserType /\ \A x \in Cells : q.heap[x] = Free
      /\ q.fault = p.fault /\ q.language = p.language /\ q.nLanguage = p.nLanguage
  <2>1. CASE p.nLogger = NULL
    BY <2>1, ConstantsAssumption DEF FreeLogger, Agrees
  <2>2. CASE p.nLogger # NULL
    <3>1. p.nLogger \in Cells /\ p.heap[p.nLogger] # Free
      BY <2>2 DEF Agrees, ParserType
    <3>2. /\ q.heap = [p.heap EXCEPT ![p.nLogger] = Free]
          /\ q.fault = p.fault /\ q.language = p.language /\ q.nLanguage = p.nLanguage
      BY <2>2, <3>1 DEF FreeLogger, ParserType
    <3>3. p.heap \in [Cells -> Loggers \cup {Free}]
      BY DEF ParserType
    <3>4. QED
      BY <3>1, <3>2, <3>3, FreeLoggerType DEF Agrees
  <2>3. QED
    BY <2>1, <2>2
<1>2. c \in Cells /\ c # NULL
  BY ConstantsAssumption DEF FreeCells
<1> HIDE DEF q
<1>3. CASE g = NULL
  <2>1. SetLogger(p, g, c) = [q EXCEPT !.logger = NULL, !.nLogger = NULL]
    BY <1>3, ConstantsAssumption DEF SetLogger, q
  <2>2. /\ SetLogger(p, g, c).heap = q.heap
        /\ SetLogger(p, g, c).logger = NULL /\ SetLogger(p, g, c).nLogger = NULL
        /\ SetLogger(p, g, c).fault = q.fault
        /\ SetLogger(p, g, c).language = q.language
        /\ SetLogger(p, g, c).nLanguage = q.nLanguage
    BY <1>1, <2>1 DEF ParserType
  <2>3. NULL \notin Cells
    BY ConstantsAssumption
  <2>4. QED
    BY <1>1, <2>2, <2>3 DEF Agrees
<1>4. CASE g \in Loggers
  <2>1. SetLogger(p, g, c) = [q EXCEPT !.logger = g, !.nLogger = c,
                                       !.heap = [@ EXCEPT ![c] = g]]
    BY <1>4, ConstantsAssumption DEF SetLogger, q
  <2>2. g # Free /\ g # NULL
    BY <1>4, ConstantsAssumption
  <2>3. /\ SetLogger(p, g, c).heap = [q.heap EXCEPT ![c] = g]
        /\ SetLogger(p, g, c).logger = g /\ SetLogger(p, g, c).nLogger = c
        /\ SetLogger(p, g, c).fault = q.fault
        /\ SetLogger(p, g, c).language = q.language
        /\ SetLogger(p, g, c).nLanguage = q.nLanguage
    BY <1>1, <2>1 DEF ParserType
  <2>4. q.heap \in [Cells -> Loggers \cup {Free}]
    BY <1>1 DEF ParserType
  <2>5. QED
    BY <1>1, <1>2, <2>2, <2>3, <2>4 DEF Agrees
<1>5. QED
  BY <1>3, <1>4

LEMMA SetLanguageAgrees ==
  ASSUME NEW p \in ParserType, Agrees(p), NEW l
  PROVE  /\ Agrees(SetLanguage(p, l)) /\ SetLanguage(p, l).fault = p.fault
         /\ SetLanguage(p, l).nLogger = p.nLogger
         /\ SetLanguage(p, l).heap = p.heap
BY DEF SetLanguage, Agrees, ParserType

LEMMA SetRangesAgrees ==
  ASSUME NEW p \in ParserType, Agrees(p), NEW r
  PROVE  /\ Agrees(SetRanges(p, r)) /\ SetRanges(p, r).fault = p.fault
         /\ SetRanges(p, r).nLogger = p.nLogger
         /\ SetRanges(p, r).heap = p.heap
BY DEF SetRanges, Agrees, ParserType

LEMMA InitialiseAgrees ==
  ASSUME NEW p \in ParserType, Agrees(p), NEW l, NEW r,
         NEW g \in Loggers \cup {NULL}, NEW c \in FreeCells(FreeLogger(p))
  PROVE  /\ Agrees(Initialise(p, l, r, g, c))
         /\ Initialise(p, l, r, g, c).fault = p.fault
<1> DEFINE a == IF l = NULL THEN p ELSE SetLanguage(p, l)
           b == IF r = NULL THEN a ELSE SetRanges(a, r)
<1>1. a \in ParserType /\ Agrees(a) /\ a.fault = p.fault /\ a.heap = p.heap
      /\ a.nLogger = p.nLogger
  BY SetLanguageType, SetLanguageAgrees
<1>2. b \in ParserType /\ Agrees(b) /\ b.fault = p.fault /\ b.heap = p.heap
      /\ b.nLogger = p.nLogger
  BY <1>1, SetRangesType, SetRangesAgrees
<1>3. Initialise(p, l, r, g, c) \in {a, b, SetLogger(b, g, c)}
  BY DEF Initialise
<1>4. c \in FreeCells(FreeLogger(b))
  <2>1. FreeLogger(b).heap = FreeLogger(p).heap
    BY <1>2 DEF FreeLogger, ParserType
  <2>2. QED
    BY <2>1 DEF FreeCells
<1> HIDE DEF a, b
<1>5. QED
  BY <1>1, <1>2, <1>3, <1>4, SetLoggerAgrees

(* The program assigns only callables (or None) as loggers: any other value *)
(* breaks LoggerAgrees, as the run parser_bad_logger shows.                 *)
CallableLoggers == NotCallables = {}

AgreeInv == Agrees(self)

LEMMA AgreeStep ==
  ASSUME CallableLoggers
  PROVE  TypeOK /\ AgreeInv /\ [Next]_vars => AgreeInv'
<1> SUFFICES ASSUME TypeOK, AgreeInv, [Next]_vars PROVE AgreeInv'
  OBVIOUS
<1> USE DEF AgreeInv, callVars
<1>0. self \in ParserType
  BY DEF TypeOK
<1>1. CASE AssignLogger
  BY <1>0, <1>1, SetLoggerAgrees DEF AssignLogger, CallableLoggers
<1>2. CASE AssignRanges
  BY <1>0, <1>2, SetRangesAgrees DEF AssignRanges
<1>3. CASE AssignLanguage \/ DeleteLanguage
  BY <1>0, <1>3, SetLanguageAgrees DEF AssignLanguage, DeleteLanguage
<1>4. CASE CallInit
  BY <1>0, <1>4, InitialiseAgrees DEF CallInit, CallableLoggers
<1>5. CASE Recreate
  <2>1. \A c \in Cells : FreeLogger(self).heap[c] = Free
    <3>1. CASE self.nLogger = NULL
      BY <3>1, ConstantsAssumption DEF FreeLogger, Agrees
    <3>2. CASE self.nLogger # NULL
      BY <1>0, <3>2 DEF FreeLogger, Agrees, ParserType
    <3>3. QED
      BY <3>1, <3>2
  <2>2. self'.heap = FreeLogger(self).heap /\ self'.nLogger = NULL /\ self'.logger = NULL
    BY <1>5 DEF Recreate, Replace, New
  <2>3. NULL \notin Cells
    BY ConstantsAssumption
  <2>4. QED
    BY <2>1, <2>2, <2>3 DEF Agrees
<1>6. CASE Reset
  BY <1>0, <1>6 DEF Reset, ResetParser, ParserType, Agrees
<1>7. CASE ParseRejected \/ ParseNoLanguage
  BY <1>7 DEF ParseRejected, ParseNoLanguage
<1>8. ASSUME NEW src, NEW hasProgress, Begin(src, hasProgress)
      PROVE  AgreeInv'
  BY <1>0, <1>8 DEF Begin, ParserType, Agrees
<1>9. CASE ParseBuffer \/ ParseCallable
  BY <1>8, <1>9 DEF ParseBuffer, ParseCallable
<1>10. CASE ReadCalled \/ ReadReturnsNone \/ ReadRaises \/ LogCalled \/ LogTypeReturns
            \/ LogReturns \/ ProgressCalled \/ ProgressContinues
  BY <1>10 DEF CallReturns, ReadCalled, ReadReturnsNone, ReadRaises, LogCalled, LogTypeReturns,
               LogReturns, ProgressCalled, ProgressContinues
<1>11. ASSUME NEW o \in Chunks, NEW isEmpty \in BOOLEAN, ReadReturns(o, isEmpty)
       PROVE  AgreeInv'
  BY <1>11 DEF CallReturns, ReadReturns
<1>12. CASE LogReadsFreed \/ ProgressRaises \/ ReenterNative \/ TreeWithoutLanguage
  BY <1>0, <1>12 DEF LogReadsFreed, ProgressRaises, ReenterNative, TreeWithoutLanguage, Faults,
                     ParserType, Agrees
<1>13. CASE ProgressCancels \/ ParseReturns
  BY <1>0, <1>13 DEF ProgressCancels, ParseReturns, ParserType, Agrees
<1>14. CASE UNCHANGED vars
  BY <1>14 DEF vars
<1>15. QED
  BY <1>1, <1>2, <1>3, <1>4, <1>5, <1>6, <1>7, <1>9, <1>10, <1>11, <1>12, <1>13, <1>14 DEF Next

LEMMA AgreeInvariant ==
  ASSUME CallableLoggers
  PROVE  Spec => []AgreeInv
<1>1. Init => AgreeInv
  BY ConstantsAssumption DEF Init, New, AgreeInv, Agrees
<1>2. QED
  BY <1>1, AgreeStep, TypeCorrect, PTL DEF Spec

(* Whatever is assigned, parsed, raised, cancelled or deallocated, in any   *)
(* order, the LoggerPayload the native parser points at is the only one     *)
(* allocated and holds the logger attribute.                                *)
THEOREM PayloadSafety ==
  ASSUME CallableLoggers
  PROVE  Spec => []LoggerAgrees
<1>1. AgreeInv => LoggerAgrees
  BY DEF AgreeInv, Agrees, LoggerAgrees
<1>2. QED
  BY <1>1, AgreeInvariant, PTL

-----------------------------------------------------------------------------
(* Loggers, when no other thread runs while LogType() is evaluated: the     *)
(* payload log_callback() was given is still the native parser's.           *)
LogInv == pc = "logtype" => log = self.nLogger /\ self.nLogger # NULL

LEMMA LogStep ==
  ASSUME ~OtherThreads
  PROVE  TypeOK /\ LogInv /\ [Next]_vars => LogInv'
<1> SUFFICES ASSUME TypeOK, LogInv, [Next]_vars PROVE LogInv'
  OBVIOUS
<1> USE DEF LogInv, callVars
<1>1. CASE AssignLogger \/ AssignRanges \/ AssignLanguage \/ DeleteLanguage
           \/ CallInit \/ Recreate \/ Reset
  BY <1>1 DEF AssignLogger, AssignRanges, AssignLanguage, DeleteLanguage, CallInit, Recreate,
              Reset, PythonRuns
<1>2. CASE ParseRejected \/ ParseNoLanguage \/ ParseBuffer \/ ParseCallable
  BY <1>2 DEF ParseRejected, ParseNoLanguage, ParseBuffer, ParseCallable, Begin
<1>3. CASE ReadCalled \/ ReadReturnsNone \/ ReadRaises
  BY <1>3 DEF ReadCalled, ReadReturnsNone, ReadRaises
<1>4. CASE \E o \in Chunks, isEmpty \in BOOLEAN : ReadReturns(o, isEmpty)
  BY <1>4 DEF ReadReturns
<1>5. CASE LogCalled \/ LogReturns
  BY <1>5 DEF LogCalled, LogReturns
<1>6. CASE LogTypeReturns
  BY <1>6 DEF LogTypeReturns
<1>7. CASE LogReadsFreed \/ ReenterNative \/ ProgressRaises \/ TreeWithoutLanguage
  BY <1>7 DEF LogReadsFreed, ReenterNative, ProgressRaises, TreeWithoutLanguage, Faults,
              TypeOK, ParserType
<1>8. CASE ProgressCalled \/ ProgressContinues \/ ProgressCancels \/ ParseReturns
  BY <1>8 DEF ProgressCalled, ProgressContinues, ProgressCancels, ParseReturns, Leave
<1>9. CASE UNCHANGED vars
  BY <1>9 DEF vars
<1>10. QED
  BY <1>1, <1>2, <1>3, <1>4, <1>5, <1>6, <1>7, <1>8, <1>9 DEF Next

LEMMA LogInvariant ==
  ASSUME ~OtherThreads
  PROVE  Spec => []LogInv
<1>1. Init => LogInv
  BY DEF Init, LogInv
<1>2. QED
  BY <1>1, LogStep, TypeCorrect, PTL DEF Spec

(* Only a step that leaves LogType() calls the logger.                      *)
LEMMA LoggerCalled ==
  ASSUME [Next]_vars, pc = "logtype", pc' = "log"
  PROVE  LogTypeReturns /\ UNCHANGED self
BY DEF CallReturns, Next, AssignLogger, AssignRanges, AssignLanguage, DeleteLanguage, CallInit,
       Recreate, Reset, ParseRejected, ParseNoLanguage, ParseBuffer, ParseCallable,
       Begin, ReadCalled, ReadReturnsNone, ReadRaises, ReadReturns, LogCalled,
       LogTypeReturns, LogReadsFreed, ReenterNative, Faults, LogReturns, ProgressCalled,
       ProgressContinues, ProgressRaises, ProgressCancels, ParseReturns, TreeWithoutLanguage,
       callVars, vars

(* In a program where no other thread gets between LogType() and the        *)
(* logger, every log message of the native parser reaches the callable  *)
(* that is assigned at that moment, even when callbacks change it all along.*)
THEOREM MessagesReachLogger ==
  ASSUME CallableLoggers, ~OtherThreads
  PROVE  Spec => LogGoesToLogger
<1>1. AgreeInv /\ LogInv /\ [Next]_vars
      => [pc = "logtype" /\ pc' = "log" => log' = self.logger]_vars
  <2> SUFFICES ASSUME AgreeInv, LogInv, [Next]_vars, pc = "logtype", pc' = "log"
               PROVE  log' = self.logger
    OBVIOUS
  <2>1. LogTypeReturns
    BY LoggerCalled
  <2>2. log = self.nLogger /\ self.nLogger # NULL /\ log' = self.heap[log]
    BY <2>1 DEF LogInv, LogTypeReturns
  <2>3. QED
    BY <2>2 DEF AgreeInv, Agrees
<1>2. QED
  BY <1>1, AgreeInvariant, LogInvariant, PTL DEF Spec, LogGoesToLogger

-----------------------------------------------------------------------------
(* Faults.  A program that never meets one assigns callable loggers only,   *)
(* never takes the language away, starts no parse in a callback, lets no    *)
(* other thread run while LogType() is evaluated, and raises in no callback *)
(* when it uses progress_callback.                                          *)
Quiet ==
  /\ CallableLoggers /\ ~DeletesLanguage
  /\ ~Reenters /\ ~OtherThreads /\ (UsesProgress => Raising = {})

FaultInv ==
  /\ NoFault
  /\ self.language = self.nLanguage
  /\ pc # "idle" => self.nLanguage # NULL
  /\ pending => Raising # {}
  /\ args.progress => UsesProgress
  /\ pc = "progress" => args.progress

LEMMA InitialiseShows ==
  ASSUME NEW p \in ParserType, p.language = p.nLanguage, NEW l, NEW r, NEW g, NEW c \in Cells
  PROVE  Initialise(p, l, r, g, c).language = Initialise(p, l, r, g, c).nLanguage
<1> DEFINE a == IF l = NULL THEN p ELSE SetLanguage(p, l)
           b == IF r = NULL THEN a ELSE SetRanges(a, r)
<1>1. a \in ParserType
  BY SetLanguageType
<1>2. a.language = a.nLanguage
  BY DEF SetLanguage, ParserType
<1>3. b \in ParserType /\ b.language = b.nLanguage
  BY <1>1, <1>2, SetRangesType, RangesKeepLanguage
<1>4. Initialise(p, l, r, g, c) \in {a, b, SetLogger(b, g, c)}
  BY DEF Initialise
<1> HIDE DEF a, b
<1>5. QED
  BY <1>2, <1>3, <1>4, LoggerKeepsLanguage

LEMMA FaultStep ==
  ASSUME Quiet
  PROVE  TypeOK /\ AgreeInv /\ LogInv /\ FaultInv /\ [Next]_vars => FaultInv'
<1> SUFFICES ASSUME TypeOK, AgreeInv, LogInv, FaultInv, [Next]_vars PROVE FaultInv'
  OBVIOUS
<1> USE DEF FaultInv, NoFault, callVars
<1>0. self \in ParserType /\ Agrees(self)
  BY DEF TypeOK, AgreeInv
<1>1. CASE AssignLogger
  <2>1. PICK g \in Loggers \cup {NULL}, c \in FreeCells(FreeLogger(self)) :
          self' = SetLogger(self, g, c)
    BY <1>1 DEF AssignLogger, Quiet, CallableLoggers
  <2>2. QED
    BY <1>0, <1>1, <2>1, SetLoggerAgrees DEF AssignLogger
<1>2. CASE AssignRanges
  BY <1>0, <1>2, SetRangesAgrees, RangesKeepLanguage DEF AssignRanges
<1>3. CASE AssignLanguage
  <2>1. PICK l \in Languages \cup OldLanguages : self' = SetLanguage(self, l)
    BY <1>3 DEF AssignLanguage
  <2>2. self'.language = self'.nLanguage
    BY <1>0, <2>1, ConstantsAssumption DEF SetLanguage, ParserType
  <2>3. QED
    BY <1>0, <1>3, <2>1, <2>2, SetLanguageAgrees DEF AssignLanguage
<1>4. CASE DeleteLanguage
  BY <1>4 DEF DeleteLanguage, Quiet
<1>5. CASE CallInit
  BY <1>0, <1>5, InitialiseAgrees, InitialiseShows DEF CallInit, FreeCells, Quiet, CallableLoggers
<1>6. CASE Recreate
  BY <1>0, <1>6 DEF Recreate, Replace, New, FreeLogger, Agrees, ParserType
<1>7. CASE Reset
  BY <1>0, <1>7 DEF Reset, ResetParser, ParserType
<1>8. CASE ParseRejected \/ ParseNoLanguage
  BY <1>8 DEF ParseRejected, ParseNoLanguage
<1>9. ASSUME NEW src, NEW hasProgress, Begin(src, hasProgress), hasProgress => UsesProgress
      PROVE  FaultInv'
  BY <1>0, <1>9 DEF Begin, ParserType
<1>10. CASE ParseBuffer \/ ParseCallable
  BY <1>9, <1>10 DEF ParseBuffer, ParseCallable
<1>11. CASE ReadCalled \/ ReadReturnsNone \/ ReadRaises \/ LogReturns
            \/ ProgressCalled \/ ProgressContinues
  BY <1>11 DEF CallReturns, ReadCalled, ReadReturnsNone, ReadRaises, LogReturns, ProgressCalled, ProgressContinues
<1>12. CASE LogCalled
  BY <1>12 DEF LogCalled
<1>13. CASE LogTypeReturns
  BY <1>13 DEF LogTypeReturns
<1>14. ASSUME NEW o \in Chunks, NEW isEmpty \in BOOLEAN, ReadReturns(o, isEmpty)
       PROVE  FaultInv'
  BY <1>14 DEF CallReturns, ReadReturns
<1>15. CASE LogReadsFreed \/ ReenterNative
  BY <1>0, <1>15 DEF LogReadsFreed, ReenterNative, LogInv, Quiet, Agrees, ParserType
<1>16. CASE ProgressRaises
  <2>1. args.progress
    BY <1>16 DEF ProgressRaises
  <2>2. QED
    BY <1>16, <2>1 DEF ProgressRaises, Quiet
<1>17. CASE ProgressCancels
  BY <1>0, <1>17 DEF ProgressCancels, Leave, NoArgs, ParserType
<1>18. CASE ParseReturns
  BY <1>0, <1>18 DEF ParseReturns, Leave, NoArgs, ParserType
<1>19. ~TreeWithoutLanguage
  BY DEF TreeWithoutLanguage
<1>20. CASE UNCHANGED vars
  BY <1>20 DEF vars
<1>21. QED
  BY <1>1, <1>2, <1>3, <1>4, <1>5, <1>6, <1>7, <1>8, <1>10, <1>11, <1>12, <1>13,
     <1>14, <1>15, <1>16, <1>17, <1>18, <1>19, <1>20 DEF Next

(* In a quiet program no call of the Parser frees a payload twice, reads a  *)
(* freed one, dereferences NULL or re-enters the native parser.             *)
THEOREM FaultFreedom ==
  ASSUME Quiet
  PROVE  Spec => []NoFault
<1>1. CallableLoggers /\ ~OtherThreads
  BY DEF Quiet
<1>2. Init => FaultInv
  BY DEF Init, New, NoArgs, FaultInv, NoFault
<1>3. FaultInv => NoFault
  BY DEF FaultInv
<1>4. QED
  BY <1>1, <1>2, <1>3, AgreeInvariant, LogInvariant, FaultStep, TypeCorrect, PTL DEF Spec
=============================================================================
