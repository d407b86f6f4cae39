------------------------------- MODULE Parser -------------------------------
(***************************************************************************)
(* The Parser object of src/tree_sitter/binding/parser.c together with the *)
(* part of the native TSParser it drives.                                  *)
(*                                                                         *)
(* One parse() call is split at every place where Python code runs (the    *)
(* read callback, the LogType constructor, the logger, the progress        *)
(* callback): only there can another thread, or the callback itself, use   *)
(* the same Parser.  Everything between two such places runs under the GIL *)
(* and is one step.                                                        *)
(***************************************************************************)
EXTENDS Integers

CONSTANTS
  Languages,      \* Language objects whose ABI the library accepts
  OldLanguages,   \* Language objects whose ABI it rejects
  Loggers,        \* callables used as loggers
  NotCallables,   \* objects that are assigned as loggers and are not callable
  RangeLists,     \* lists of disjoint, ordered Range objects
  BadRanges,      \* any other value assigned to included_ranges
  Buffers,        \* bytestrings given to parse()
  Readers,        \* read callables given to parse()
  Chunks,         \* objects with the buffer protocol that a reader returns
  Cells,          \* heap cells PyMem_Malloc can return for a LoggerPayload
  NULL,           \* C's NULL, and Python's None where the code treats it so
  Raising,        \* the callbacks that may raise: "read", "log", "progress"
  Catching,       \* may callbacks handle exceptions of their own meanwhile?
  UsesProgress,   \* may the program pass a progress_callback?
  DeletesLanguage,\* may the program assign None to, or delete, language?
  Reenters,       \* may a callback use its own Parser for another parse?
  OtherThreads    \* may another thread run while LogType(...) is evaluated?

Whole == "whole"        \* the native included ranges when none are assigned
Free  == "free"         \* contents of a heap cell that is not allocated
Sources == Buffers \cup Readers
Objects == Buffers \cup Chunks          \* everything that exports a buffer

(* What a native parse has consumed: the documents whose text reached it    *)
(* and whether a callback error cut one of them short.                      *)
Empty == [docs |-> {}, truncated |-> FALSE]
Consumed == [docs : SUBSET Sources, truncated : BOOLEAN]

ASSUME ConstantsAssumption ==
  /\ UsesProgress \in BOOLEAN /\ DeletesLanguage \in BOOLEAN /\ OtherThreads \in BOOLEAN
  /\ Catching \in BOOLEAN /\ Reenters \in BOOLEAN
  /\ Raising \subseteq {"read", "log", "progress"}
  /\ NULL \notin Languages \cup OldLanguages \cup Loggers \cup NotCallables
  /\ NULL \notin Sources \cup Chunks \cup Cells \cup RangeLists \cup BadRanges
  /\ NULL \notin Consumed
  /\ Free \notin Loggers
  /\ Loggers \cap NotCallables = {} /\ Languages \cap OldLanguages = {}
  /\ RangeLists \cap BadRanges = {}
  /\ Buffers \cap Readers = {}

VARIABLES
  self,     \* the Parser, its TSParser and the LoggerPayload cells
  \* the parse() call in progress:
  pc,       \* where it is: in native code, or in which Python callback
  args,     \* its source and whether it has a progress_callback
  view,     \* the owner of its Py_buffer, NULL when there is none
  chunk,    \* the text the native lexer holds a pointer to
  seen,     \* what the native parse has consumed
  pending,  \* is a Python exception set?
  log,      \* log_callback()'s payload, then the logger it calls
  \* what outlives the call:
  exports,  \* exports[o]: buffer views of o that are not released yet
  leaked,   \* chunks whose return reference was never dropped
  result    \* what the last finished parse() returned

callVars == <<pc, args, view, chunk, seen, pending, log>>
vars == <<self, callVars, exports, leaked, result>>

NoArgs == [source |-> NULL, progress |-> FALSE]

(* parser_new(): tp_alloc zeroes the object and the native parser is fresh. *)
New(heap) == [language |-> NULL, logger |-> NULL,
              nLanguage |-> NULL, nRanges |-> Whole, nLogger |-> NULL,
              heap |-> heap, outstanding |-> NULL, given |-> {},
              fault |-> "none"]

Init ==
  /\ self = New([c \in Cells |-> Free])
  /\ pc = "idle" /\ args = NoArgs /\ view = NULL /\ chunk = NULL
  /\ seen = Empty /\ pending = FALSE /\ log = NULL
  /\ exports = [o \in Objects |-> 0]
  /\ leaked = {}
  /\ result = [kind |-> "none"]

-----------------------------------------------------------------------------
(* The attribute setters, as functions of the parser p they act on.         *)

(* free_logger(): frees the cell the native logger points at; the pointer   *)
(* itself stays in the native parser.                                       *)
FreeLogger(p) ==
  IF p.nLogger = NULL THEN p
  ELSE [p EXCEPT !.heap = [@ EXCEPT ![p.nLogger] = Free],
                 !.fault = IF p.heap[p.nLogger] = Free THEN "double free" ELSE @]

(* parser_set_logger(); cell is what PyMem_Malloc returned.                 *)
SetLogger_NoneKeepsNative(p, g, cell) ==
  IF g = NULL THEN [FreeLogger(p) EXCEPT !.logger = NULL]
  ELSE [FreeLogger(p) EXCEPT !.logger = g, !.nLogger = cell, !.heap = [@ EXCEPT ![cell] = g]]

SetLogger_NoFree(p, g, cell) ==
  IF g = NULL THEN [p EXCEPT !.logger = NULL, !.nLogger = NULL]
  ELSE [p EXCEPT !.logger = g, !.nLogger = cell, !.heap = [@ EXCEPT ![cell] = g]]

SetLogger_ReusesPayload(p, g, cell) ==
  IF p.nLogger # NULL /\ g \in Loggers THEN [p EXCEPT !.logger = g]
  ELSE SetLogger_NoFree(p, g, cell)

SetLogger(p, g, cell) ==
  LET q == FreeLogger(p)
  IN  CASE g = NULL     -> [q EXCEPT !.logger = NULL, !.nLogger = NULL]
        [] g \in Loggers -> [q EXCEPT !.logger = g, !.nLogger = cell,
                                      !.heap = [@ EXCEPT ![cell] = g]]
        [] OTHER        -> q

(* parser_set_language().  The native setter drops an outstanding parse;    *)
(* assigning None reaches only the Python attribute.                        *)
SetLanguage_SetBeforeCheck(p, l) ==
  IF l \in Languages
    THEN [p EXCEPT !.language = l, !.nLanguage = l, !.outstanding = NULL, !.given = {}]
    ELSE [p EXCEPT !.language = l]

SetLanguage(p, l) ==
  CASE l = NULL       -> [p EXCEPT !.language = NULL]
    [] l \in Languages -> [p EXCEPT !.language = l, !.nLanguage = l,
                                    !.outstanding = NULL, !.given = {}]
    [] OTHER          -> p

(* parser_set_included_ranges(): a rejected list leaves the native ranges.  *)
SetRanges(p, r) ==
  CASE r = NULL        -> [p EXCEPT !.nRanges = Whole]
    [] r \in RangeLists -> [p EXCEPT !.nRanges = r]
    [] OTHER           -> p

(* parser_init(): each given argument in turn, up to the first that fails;  *)
(* NULL stands for an argument that is absent (or None, for the last two).  *)
Initialise(p, l, r, g, cell) ==
  LET a == IF l = NULL THEN p ELSE SetLanguage(p, l)
      b == IF r = NULL THEN a ELSE SetRanges(a, r)
  IN  CASE l \in OldLanguages -> a
        [] l \notin OldLanguages /\ r \in BadRanges -> b
        [] OTHER -> IF g = NULL THEN b ELSE SetLogger(b, g, cell)

(* Where Python code of the program, or of another thread, can be running.  *)
PythonRuns ==
  \/ pc \in {"idle", "read", "log", "progress"}
  \/ OtherThreads /\ pc = "logtype"

FreeCells(p) == {c \in Cells : p.heap[c] = Free}

AssignLogger ==
  /\ PythonRuns
  /\ \E g \in Loggers \cup NotCallables \cup {NULL}, c \in FreeCells(FreeLogger(self)) :
       self' = SetLogger(self, g, c)
  /\ UNCHANGED <<callVars, exports, leaked, result>>

AssignRanges ==
  /\ PythonRuns
  /\ \E r \in RangeLists \cup BadRanges \cup {NULL} : self' = SetRanges(self, r)
  /\ UNCHANGED <<callVars, exports, leaked, result>>

(* Outside a parse; inside one it is ReenterNative.                         *)
AssignLanguage ==
  /\ pc = "idle"
  /\ \E l \in Languages \cup OldLanguages : self' = SetLanguage(self, l)
  /\ UNCHANGED <<callVars, exports, leaked, result>>

DeleteLanguage ==
  /\ DeletesLanguage /\ PythonRuns
  /\ self' = SetLanguage(self, NULL)
  /\ UNCHANGED <<callVars, exports, leaked, result>>

CallInit ==
  /\ pc = "idle"
  /\ \E l \in Languages \cup OldLanguages \cup {NULL},
        r \in RangeLists \cup BadRanges \cup {NULL},
        g \in Loggers \cup NotCallables \cup {NULL},
        c \in FreeCells(FreeLogger(self)) :
       self' = Initialise(self, l, r, g, c)
  /\ UNCHANGED <<callVars, exports, leaked, result>>

(* parser_dealloc(), then parser_new() for the next object.                 *)
Replace(p) == [New(FreeLogger(p).heap) EXCEPT !.fault = FreeLogger(p).fault]

Recreate ==
  /\ pc = "idle"
  /\ self' = Replace(self)
  /\ UNCHANGED <<callVars, exports, leaked, result>>

(* parser_reset()                                                           *)
ResetParser_Forgotten(p) == [p EXCEPT !.given = {}]

ResetParser(p) == [p EXCEPT !.outstanding = NULL, !.given = {}]

Reset ==
  /\ pc = "idle"
  /\ self' = ResetParser(self)
  /\ UNCHANGED <<callVars, exports, leaked, result>>

-----------------------------------------------------------------------------
(* parser_parse() and the callbacks it hands to the native parser.          *)

Failure == [kind |-> "error"]

NewTree ==
  [kind |-> "tree", language |-> self.language, grammar |-> self.nLanguage,
   source |-> args.source, seen |-> seen, given |-> self.given]

(* PyObject_GetBuffer() and PyBuffer_Release() on a Py_buffer owned by v,   *)
(* NULL when it has no owner.                                               *)
GetBuffer(o) == exports' = [exports EXCEPT ![o] = @ + 1]
Release(v) == exports' = IF v = NULL THEN exports ELSE [exports EXCEPT ![v] = @ - 1]

(* The stack frame of parser_parse() goes away.                             *)
Leave ==
  /\ pc' = "idle" /\ args' = NoArgs /\ view' = NULL /\ chunk' = NULL
  /\ seen' = Empty /\ pending' = FALSE /\ log' = NULL

(* Bad encodings, bad source or progress objects, and a warning that is     *)
(* turned into an exception: parse() fails before the native call.          *)
ParseRejected ==
  /\ pc = "idle"
  /\ result' = Failure
  /\ UNCHANGED <<self, callVars, exports, leaked>>

(* Without a native language ts_parser_parse() returns NULL at once.        *)
ParseNoLanguage ==
  /\ pc = "idle" /\ self.nLanguage = NULL
  /\ result' = Failure
  /\ UNCHANGED <<self, callVars, exports, leaked>>

(* The native parse of source src begins; an outstanding one is resumed.    *)
Begin(src, hasProgress) ==
  /\ pc = "idle" /\ self.nLanguage # NULL
  /\ self' = [self EXCEPT !.outstanding = NULL, !.given = @ \cup {src}]
  /\ pc' = "native"
  /\ args' = [source |-> src, progress |-> hasProgress]
  /\ UNCHANGED <<pending, log, leaked, result>>

Resumed == IF self.outstanding = NULL THEN Empty ELSE self.outstanding

ParseBuffer ==
  \E b \in Buffers :
    /\ Begin(b, FALSE)
    /\ GetBuffer(b)
    /\ view' = b /\ chunk' = b
    /\ seen' = [Resumed EXCEPT !.docs = @ \cup {b}]

ParseCallable ==
  \E r \in Readers, hasProgress \in {b \in BOOLEAN : b => UsesProgress} :
    /\ Begin(r, hasProgress)
    /\ seen' = Resumed
    /\ UNCHANGED <<view, chunk, exports>>

(* parser_read_wrapper() releases the previous buffer, calls the reader and *)
(* stores the buffer of what it returned.                                   *)
ReleasePrevious_Forgotten == view' = NULL /\ UNCHANGED exports

ReleasePrevious == Release(view) /\ view' = NULL

StoreBuffer_ReleasedEarly(o) == view' = NULL /\ UNCHANGED exports

StoreBuffer(o) == GetBuffer(o) /\ view' = o

ReadCalled ==
  /\ pc = "native" /\ args.source \in Readers
  /\ pc' = "read"
  /\ ReleasePrevious
  /\ UNCHANGED <<self, args, chunk, seen, pending, log, leaked, result>>

(* Python code that is called with an exception pending and returns: only   *)
(* by handling an exception of its own, which discards the pending one.     *)
CallReturns == (pending => Catching) /\ pending' = FALSE

(* The reader returned o; the native lexer keeps no chunk when it is empty. *)
(* The reference to o that the call returned is never dropped.              *)
ReadReturns(o, isEmpty) ==
  /\ pc = "read" /\ CallReturns
  /\ pc' = "native"
  /\ StoreBuffer(o)
  /\ chunk' = IF isEmpty THEN NULL ELSE o
  /\ seen' = [seen EXCEPT !.docs = @ \cup {args.source}]
  /\ leaked' = leaked \cup {o}
  /\ UNCHANGED <<self, args, log, result>>

(* It returned None: end of the text.                                       *)
ReadReturnsNone ==
  /\ pc = "read" /\ CallReturns
  /\ pc' = "native" /\ chunk' = NULL
  /\ UNCHANGED <<self, args, view, seen, log, exports, leaked, result>>

(* It raised, or returned no buffer; with an exception already pending the  *)
(* interpreter rejects whatever it returned.  The native parser sees the    *)
(* end of the text and carries on.                                          *)
ReadRaises_Cleared ==
  /\ pc = "read" /\ ("read" \in Raising \/ pending)
  /\ pc' = "native" /\ chunk' = NULL /\ pending' = FALSE
  /\ seen' = [seen EXCEPT !.truncated = TRUE]
  /\ UNCHANGED <<self, args, view, log, exports, leaked, result>>

ReadRaises ==
  /\ pc = "read" /\ ("read" \in Raising \/ pending)
  /\ pc' = "native" /\ chunk' = NULL /\ pending' = TRUE
  /\ seen' = [seen EXCEPT !.truncated = TRUE]
  /\ UNCHANGED <<self, args, view, log, exports, leaked, result>>

Faults(kind) ==
  /\ self' = [self EXCEPT !.fault = kind]
  /\ UNCHANGED <<callVars, exports, leaked, result>>

(* log_callback(): the native parser passes its payload, whose              *)
(* log_type_type is read to call LogType(...); its callback is read after   *)
(* that.  With an exception pending LogType() yields no object and the      *)
(* logger is not called.                                                    *)
LogCalled ==
  /\ pc = "native" /\ self.nLogger # NULL /\ self.heap[self.nLogger] # Free
  /\ pc' = "logtype" /\ log' = self.nLogger
  /\ UNCHANGED <<self, args, view, chunk, seen, pending, exports, leaked, result>>

LogTypeReturns ==
  /\ pc = "logtype" /\ self.heap[log] # Free
  /\ pc'  = IF pending THEN "native" ELSE "log"
  /\ log' = IF pending THEN NULL ELSE self.heap[log]
  /\ UNCHANGED <<self, args, view, chunk, seen, pending, exports, leaked, result>>

LogReadsFreed ==
  /\ \/ pc = "native" /\ self.nLogger # NULL /\ self.heap[self.nLogger] = Free
     \/ pc = "logtype" /\ self.heap[log] = Free
  /\ Faults("use after free")

(* A callback calls parse() or reset(), or assigns a language: nothing in   *)
(* the binding keeps the second native call from changing the stack and the *)
(* lexer that the first one is using.                                       *)
ReenterNative ==
  /\ Reenters /\ pc \in {"read", "log", "progress"} /\ ~pending
  /\ Faults("native parser re-entered")

(* Nobody looks at what the logger returned: its exception stays pending.   *)
LogReturns ==
  /\ pc = "log"
  /\ pc' = "native" /\ log' = NULL
  /\ pending' \in {b \in BOOLEAN : b => "log" \in Raising}
  /\ UNCHANGED <<self, args, view, chunk, seen, exports, leaked, result>>

(* parser_progress_callback()                                               *)
ProgressCalled ==
  /\ pc = "native" /\ args.progress
  /\ pc' = "progress"
  /\ UNCHANGED <<self, args, view, chunk, seen, pending, log, exports, leaked, result>>

ProgressContinues ==
  /\ pc = "progress" /\ CallReturns
  /\ pc' = "native"
  /\ UNCHANGED <<self, args, view, chunk, seen, log, exports, leaked, result>>

(* The call yields no object and PyObject_IsTrue(NULL) follows.             *)
ProgressRaises ==
  /\ pc = "progress" /\ ("progress" \in Raising \/ pending)
  /\ Faults("null dereference")

(* A true result stops the native parse, which keeps what it has done.      *)
ProgressCancels ==
  /\ pc = "progress" /\ (pending => Catching)
  /\ self' = [self EXCEPT !.outstanding = seen]
  /\ Release(view) /\ Leave
  /\ result' = Failure
  /\ UNCHANGED leaked

(* A pending exception wins over the tree that the native parser made.      *)
Outcome_NoErrorCheck == NewTree

Outcome == IF pending THEN Failure ELSE NewTree

(* The native parse completes and parse() returns: the last view is         *)
(* released and the Tree takes the language the attribute has by now.       *)
ParseReturns_XINCREF ==
  /\ pc = "native"
  /\ self' = [self EXCEPT !.given = {}]
  /\ Release(view) /\ Leave
  /\ result' = Outcome
  /\ UNCHANGED leaked

ParseReturns ==
  /\ pc = "native" /\ (pending \/ self.language # NULL)
  /\ self' = [self EXCEPT !.given = {}]
  /\ Release(view) /\ Leave
  /\ result' = Outcome
  /\ UNCHANGED leaked

(* The attribute was set to None before the call or by one of its callbacks:*)
(* Py_INCREF(tree->language) dereferences NULL.                             *)
TreeWithoutLanguage ==
  /\ pc = "native" /\ ~pending /\ self.language = NULL
  /\ Faults("null dereference")

Next ==
  /\ self.fault = "none"
  /\ \/ AssignLogger \/ AssignRanges \/ AssignLanguage \/ DeleteLanguage
     \/ CallInit \/ Recreate \/ Reset
     \/ ParseRejected \/ ParseNoLanguage \/ ParseBuffer \/ ParseCallable
     \/ ReadCalled \/ ReadReturnsNone \/ ReadRaises
     \/ \E o \in Chunks, isEmpty \in BOOLEAN : ReadReturns(o, isEmpty)
     \/ LogCalled \/ LogTypeReturns \/ LogReadsFreed \/ LogReturns
     \/ ReenterNative
     \/ ProgressCalled \/ ProgressContinues \/ ProgressRaises \/ ProgressCancels
     \/ ParseReturns \/ TreeWithoutLanguage

Spec == Init /\ [][Next]_vars

-----------------------------------------------------------------------------
(* Types.                                                                   *)

ParserType ==
  [language : Languages \cup {NULL}, logger : Loggers \cup {NULL},
   nLanguage : Languages \cup {NULL}, nRanges : RangeLists \cup {Whole},
   nLogger : Cells \cup {NULL}, heap : [Cells -> Loggers \cup {Free}],
   outstanding : Consumed \cup {NULL}, given : SUBSET Sources,
   fault : {"none", "use after free", "double free", "null dereference",
            "native parser re-entered"}]

Trees ==
  [kind : {"tree"}, language : Languages \cup {NULL},
   grammar : Languages \cup {NULL}, source : Sources \cup {NULL},
   seen : Consumed, given : SUBSET Sources]

CallTypeOK ==
  /\ pc \in {"idle", "native", "read", "logtype", "log", "progress"}
  /\ args \in [source : Sources \cup {NULL}, progress : BOOLEAN]
  /\ view \in Objects \cup {NULL} /\ chunk \in Objects \cup {NULL}
  /\ seen \in Consumed /\ pending \in BOOLEAN
  /\ log \in Cells \cup Loggers \cup {NULL}

(* Every variable keeps its type, whatever the callbacks do.                *)
TypeOK ==
  /\ self \in ParserType
  /\ CallTypeOK
  /\ exports \in [Objects -> Int]
  /\ leaked \subseteq Chunks
  /\ result \in {[kind |-> "none"], Failure} \cup Trees

-----------------------------------------------------------------------------
(* Safety.                                                                  *)

(* The module never touches freed memory and never dereferences NULL: no    *)
(* sequence of assignments, parses, callbacks and deallocations makes       *)
(* free_logger(), log_callback(), parser_progress_callback() or the end of  *)
(* parser_parse() do so.                                                    *)
NoFault == self.fault = "none"

(* The native logger and the logger attribute are set together: exactly     *)
(* the cell the native parser points at is allocated (no payload leaks, no  *)
(* payload dangles) and it holds the callable Python sees.  All of          *)
(* parser_set_logger(), parser_init() and parser_dealloc() must keep it.    *)
LoggerAgrees ==
  /\ \A c \in Cells : self.heap[c] # Free <=> c = self.nLogger
  /\ self.logger = IF self.nLogger = NULL THEN NULL ELSE self.heap[self.nLogger]

(* While the native parser can read the text of a chunk, that chunk's       *)
(* buffer is exported, so that a bytearray cannot be resized under it: the  *)
(* promise of the comment at the top of parser_read_wrapper().  During the  *)
(* next read call the native parser is inside that call and reads nothing.  *)
ChunkExported ==
  (chunk # NULL /\ pc # "read") => exports[chunk] > 0

(* Every buffer is given back once parse() is over: after success, failure  *)
(* and cancellation alike, a program may resize the bytearrays it passed or *)
(* returned from its reader.                                                *)
NoExportAtRest ==
  pc = "idle" => \A o \in Objects : exports[o] = 0

(* A Tree is never built from a text that a failing callback cut short: the *)
(* exception set in the read callback reaches the caller of parse() although*)
(* the native parser completes a tree, even over several resumed calls.     *)
NoTruncatedTree ==
  result.kind = "tree" => ~result.seen.truncated

(* The text in a tree comes from the documents given to parse() since the   *)
(* parser was last reset, given a language, or completed a parse: a program *)
(* that calls reset() (or sets the language) after a cancelled parse never  *)
(* gets the cancelled document back in a tree.                              *)
NoStaleDocument ==
  result.kind = "tree" => result.seen.docs \subseteq result.given

(* Tree.language is the language whose grammar built the tree, and there is *)
(* one.  parser_parse() takes it from the attribute only after the native   *)
(* call, and a callback can have taken the attribute away meanwhile while   *)
(* the native parser went on with its own: no such call may give a tree.    *)
TreeLanguageMatches ==
  result.kind = "tree" => result.language = result.grammar

(* "The logger that the parser should use during parsing": each message     *)
(* goes to the logger that is assigned when the call is made, although it   *)
(* was fetched through the native parser's payload pointer.                 *)
LogGoesToLogger ==
  [][pc = "logtype" /\ pc' = "log" => log' = self.logger]_vars

(* "The language that will be used for parsing": a language the attribute   *)
(* shows is the one the native parser parses with, over every assignment,   *)
(* argument of __init__() and deletion, in a callback or not.  An attribute *)
(* that shows None says nothing: parser_set_language() then leaves the      *)
(* native parser's language as it was.                                      *)
LanguageAgrees == self.language \in {NULL, self.nLanguage}

(* Every object a reader returned is let go when parse() is over.           *)
ChunksDropped == pc = "idle" => leaked = {}

-----------------------------------------------------------------------------
(* What the module promises, with the native parser's language as the       *)
(* grammar; payloads, buffers, views and the attributes are forgotten.      *)
Kept == IF self.outstanding = NULL THEN {} ELSE self.outstanding.docs

Ongoing ==
  IF pc = "idle" THEN [source |-> NULL, docs |-> {}, failed |-> FALSE]
  ELSE [source |-> args.source, docs |-> seen.docs, failed |-> pending]

Answer ==
  IF result.kind # "tree" THEN result
  ELSE [kind |-> "tree", grammar |-> result.grammar, docs |-> result.seen.docs,
        whole |-> ~result.seen.truncated]

Call == INSTANCE ParseCall WITH
  grammar <- self.nLanguage, kept <- Kept, call <- Ongoing, result <- Answer

(* Unless callbacks discard exceptions, the program cannot tell the parser  *)
(* from ParseCall: no assignment in a callback, no cancelled call and no    *)
(* failing reader gives it a result that the promise does not allow.        *)
KeepsPromise == Call!Spec
=============================================================================
