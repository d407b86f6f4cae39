----------------------------- MODULE QueryCursor -----------------------------
(***************************************************************************)
(* A QueryCursor runs a Query that was built over a node: matches() and    *)
(* captures() of src/tree_sitter/binding/query_cursor.c with the loop of   *)
(* query_satisfies_predicates(), cut where Python code runs.               *)
(***************************************************************************)
EXTENDS QueryBuild

CONSTANTS
  Runs,          \* the sequences of matches the native cursor may find in a node
  Sources,       \* what trees have as source, of "None", "bytes", "reader"
  Raising,       \* the callbacks that may raise, of "predicate", "progress", "reader"
  UsesProgress,  \* is a progress callback given?
  MaxInner,      \* how often in a call the predicate may run the same cursor
  InnerRuns,     \* what the native cursor may find in such a run
  Catching       \* may callbacks handle exceptions of their own?

ASSUME RunAssumption ==
  /\ Runs \subseteq Seq([pattern : Nat \ {0}, captures : Seq([index : Nat, node : DOMAIN TextOf])])
  /\ InnerRuns \subseteq Runs
  /\ Sources \subseteq {"None", "bytes", "reader"}
  /\ Raising \subseteq {"predicate", "progress", "reader"}
  /\ UsesProgress \in BOOLEAN /\ MaxInner \in Nat /\ Catching \in BOOLEAN

VARIABLES
  pc,        \* idle, native (asking for the next match), predicates, callable
  call,      \* the arguments: [mode, run, source, callable]
  left,      \* what the native cursor has still to find
  item,      \* the match being looked at
  k,         \* the predicate being looked at
  result,    \* what the call has collected
  outcome,   \* how the last call ended: "none", "ok" or "error"
  pending,   \* PyErr_Occurred()
  \* what the callbacks did during the call, for the properties:
  raised,    \* did one raise?
  cancelled, \* was the run cut short?
  inner,     \* how often did the callable run the cursor itself?
  accepted,  \* the matches, predicate names and arguments it said yes to
  refused    \* and no

callVars == <<call, raised, cancelled, inner, accepted, refused>>
vars == <<buildVars, pc, left, item, k, result, outcome, pending, callVars>>

NoCall == [mode |-> "matches", run |-> <<>>, source |-> "bytes", callable |-> FALSE]

NoItem == [match |-> [pattern |-> 0, captures |-> <<>>], capture |-> 0, nth |-> 0]

(* What ts_query_cursor_next_match() and ts_query_cursor_next_capture() hand*)
(* out: each match of the run once, or once for each of its captures.       *)
ItemsOf(mode, run) ==
  IF mode = "matches"
  THEN [n \in DOMAIN run |-> [match |-> run[n], capture |-> 0, nth |-> n]]
  ELSE FlattenSeq([n \in DOMAIN run |->
         [c \in DOMAIN run[n].captures |-> [match |-> run[n], capture |-> c, nth |-> n]]])

Indices(match) == {match.captures[c].index : c \in DOMAIN match.captures}

(* captures_for_match(), and the dictionary that matches() makes: for each  *)
(* name its nodes.                                                          *)
CapturesForMatch(match) == [i \in Indices(match) |-> NodesForCapture(i, match)]

(* The result with what an item that passes adds to it: matches() makes a   *)
(* list of matches, captures() a set of nodes for each name.                *)
Collected(mode, it, sofar) ==
  IF mode = "matches" THEN Append(sofar, <<it.match.pattern, CapturesForMatch(it.match)>>)
  ELSE sofar \cup {it.match.captures[it.capture]}

Empty(mode) == IF mode = "matches" THEN <<>> ELSE {}

Objects == stored[item.match.pattern].predicates

Init ==
  /\ BuildInit
  /\ pc = "idle" /\ call = NoCall /\ left = <<>> /\ item = NoItem /\ k = 1
  /\ result = <<>> /\ outcome = "none" /\ pending = FALSE
  /\ raised = FALSE /\ cancelled = FALSE /\ inner = 0 /\ accepted = {} /\ refused = {}

Build ==
  /\ BuildNext
  /\ UNCHANGED <<pc, left, item, k, result, outcome, pending, callVars>>

-----------------------------------------------------------------------------
(* predicate or progress_callback is not callable.                          *)
RejectArguments ==
  /\ built = "built" /\ pc = "idle" /\ outcome = "none"
  /\ outcome' = "error"
  /\ UNCHANGED <<buildVars, pc, left, item, k, result, pending, callVars>>

(* The program drops the result; no call leaves anything for the next one.  *)
DropResult ==
  /\ pc = "idle" /\ outcome # "none"
  /\ result' = <<>> /\ outcome' = "none" /\ call' = NoCall
  /\ raised' = FALSE /\ cancelled' = FALSE /\ inner' = 0 /\ accepted' = {} /\ refused' = {}
  /\ UNCHANGED <<buildVars, pc, left, item, k, pending>>

Execute ==
  /\ built = "built" /\ pc = "idle" /\ outcome = "none"
  /\ \E mode \in {"matches", "captures"}, run \in Runs, source \in Sources,
        callable \in BOOLEAN :
       /\ \A n \in DOMAIN run : run[n].pattern \in DOMAIN query
       /\ call' = [mode |-> mode, run |-> run, source |-> source,
                   callable |-> callable]
       /\ left' = ItemsOf(mode, run)
       /\ result' = Empty(mode)
  /\ pc' = "native"
  /\ UNCHANGED <<buildVars, item, k, outcome, pending, raised, cancelled, inner, accepted,
                 refused>>

Return(how) ==
  /\ pc' = "idle" /\ outcome' = how /\ pending' = FALSE
  /\ result' = IF how = "ok" THEN result ELSE <<>>
  /\ left' = <<>> /\ item' = NoItem /\ k' = 1
  /\ UNCHANGED <<buildVars, callVars>>

Fault ==
  /\ pc' = "faulted"
  /\ UNCHANGED <<buildVars, left, item, k, result, outcome, pending, callVars>>

(* A callback that returns while an exception is pending turns it into a    *)
(* SystemError, unless it handled an exception of its own, which discards it.*)
CallReturns == pending => Catching

NextMatch ==
  /\ pc = "native" /\ left # <<>>
  /\ item' = Head(left) /\ left' = Tail(left) /\ k' = 1 /\ pc' = "predicates"
  /\ UNCHANGED <<buildVars, result, outcome, pending, callVars>>

(* PyErr_Occurred() at the end of both methods.                             *)
Exhausted_Unchecked ==
  /\ pc = "native" /\ left = <<>>
  /\ Return("ok")

Exhausted ==
  /\ pc = "native" /\ left = <<>>
  /\ Return(IF pending THEN "error" ELSE "ok")

(* The native cursor asks the progress callback, and stops if it says so.   *)
ProgressContinues ==
  /\ pc = "native" /\ UsesProgress /\ CallReturns
  /\ pending' = FALSE
  /\ UNCHANGED <<buildVars, pc, left, item, k, result, outcome, callVars>>

ProgressCancels ==
  /\ pc = "native" /\ UsesProgress /\ CallReturns
  /\ pending' = FALSE /\ left' = <<>> /\ cancelled' = TRUE
  /\ UNCHANGED <<buildVars, pc, item, k, result, outcome, call, raised, inner, accepted, refused>>

(* NULL is given to PyObject_IsTrue().                                      *)
ProgressRaises ==
  /\ pc = "native" /\ UsesProgress
  /\ pending \/ "progress" \in Raising
  /\ Fault

-----------------------------------------------------------------------------
(* query_satisfies_predicates()                                             *)

Checking == pc = "predicates" /\ call.source # "None" /\ k <= Len(Objects)

IsBuiltIn == Checking /\ Objects[k].kind # "generic"

Unsatisfied ==
  /\ pc' = "native"
  /\ UNCHANGED <<buildVars, left, item, k, result, outcome>>

Satisfied ==
  /\ k' = k + 1 /\ pc' = "predicates"
  /\ UNCHANGED <<buildVars, left, item, result, outcome>>

TextPredicate ==
  /\ IsBuiltIn
  /\ pending' = Raises(Objects[k], item.match, pending)
  /\ raised' = (raised \/ pending')
  /\ IF Satisfies(Objects[k], item.match, pending) THEN Satisfied ELSE Unsatisfied
  /\ UNCHANGED <<call, cancelled, inner, accepted, refused>>

(* node_get_text() calls the reader; when it has no text it returns NULL,   *)
(* and the NULL is released.                                                *)
TextFails ==
  /\ IsBuiltIn /\ call.source = "reader" /\ "reader" \in Raising
  /\ NodesForCapture(Objects[k].capture, item.match) # <<>>
  /\ Fault

WithoutCallable ==
  /\ Checking /\ Objects[k].kind = "generic" /\ ~call.callable
  /\ Satisfied
  /\ UNCHANGED <<pending, callVars>>

CallPredicate ==
  /\ Checking /\ Objects[k].kind = "generic" /\ call.callable
  /\ pc' = "callable"
  /\ UNCHANGED <<buildVars, left, item, k, result, outcome, pending, callVars>>

(* The question the callable is asked: about which match, with which name   *)
(* and arguments.                                                           *)
Question == <<item.nth, item.capture, Objects[k].predicate, Objects[k].arguments>>

PredicateAccepts ==
  /\ pc = "callable" /\ CallReturns
  /\ pending' = FALSE /\ accepted' = accepted \cup {Question}
  /\ Satisfied
  /\ UNCHANGED <<call, raised, cancelled, inner, refused>>

PredicateRefuses ==
  /\ pc = "callable" /\ CallReturns
  /\ pending' = FALSE /\ refused' = refused \cup {Question}
  /\ Unsatisfied
  /\ UNCHANGED <<call, raised, cancelled, inner, accepted>>

(* It returned a value whose truth test raises: -1 counts as true.          *)
PredicateUntestable ==
  /\ pc = "callable" /\ CallReturns /\ "predicate" \in Raising
  /\ pending' = TRUE /\ raised' = TRUE /\ accepted' = accepted \cup {Question}
  /\ Satisfied
  /\ UNCHANGED <<call, cancelled, inner, refused>>

PredicateRaises ==
  /\ pc = "callable" /\ (pending \/ "predicate" \in Raising)
  /\ pending' = TRUE /\ raised' = TRUE
  /\ Unsatisfied
  /\ UNCHANGED <<call, cancelled, inner, accepted, refused>>

(* The callable runs the same cursor.  There is one native cursor: what is  *)
(* left for the outer loop is what the inner run left, nothing when it came *)
(* to its end and a rest of it when captures() returned early or a progress *)
(* callback stopped it.  The captures of the outer match are memory of the  *)
(* native cursor, which the inner run may have used for a match of its own. *)
Overwritten(captures, run) ==
  {captures} \cup
  {[c \in DOMAIN captures |-> IF c \in DOMAIN m.captures THEN m.captures[c] ELSE captures[c]]
     : m \in ToSet(run)}

PredicateReenters ==
  /\ pc = "callable" /\ inner < MaxInner
  /\ \E run \in InnerRuns :
       LET its == ItemsOf(call.mode, run)
       IN  /\ \A n \in DOMAIN run : run[n].pattern \in DOMAIN query
           /\ \E n \in 0..Len(its) : left' = SubSeq(its, n + 1, Len(its))
           /\ \E captures \in Overwritten(item.match.captures, run) :
                item' = [match |-> [pattern |-> item.match.pattern, captures |-> captures],
                         capture |-> item.capture, nth |-> item.nth]
  /\ inner' = inner + 1
  /\ UNCHANGED <<buildVars, pc, k, result, outcome, pending, call, raised, cancelled, accepted,
                 refused>>

(* The inner run needed more room and the native cursor moved the captures; *)
(* the callable accepts, and what is read of them next is freed memory.     *)
PredicateMovesCaptures ==
  /\ pc = "callable" /\ inner < MaxInner /\ CallReturns /\ item.match.captures # <<>>
  /\ Fault

(* All predicates hold, or the tree has no source to check them with;       *)
(* captures() looks for an exception here.                                  *)
Collect ==
  /\ pc = "predicates" /\ (call.source = "None" \/ k > Len(Objects))
  /\ IF call.mode = "captures" /\ pending THEN Return("error")
     ELSE /\ result' = Collected(call.mode, item, result) /\ pc' = "native"
          /\ UNCHANGED <<buildVars, left, item, k, outcome, pending, callVars>>

Run ==
  \/ NextMatch \/ Exhausted
  \/ ProgressContinues \/ ProgressCancels \/ ProgressRaises
  \/ TextPredicate \/ TextFails \/ WithoutCallable \/ CallPredicate
  \/ PredicateAccepts \/ PredicateRefuses \/ PredicateUntestable \/ PredicateRaises
  \/ PredicateReenters \/ PredicateMovesCaptures
  \/ Collect

Next == Build \/ RejectArguments \/ Execute \/ Run \/ DropResult

Spec == Init /\ [][Next]_vars

-----------------------------------------------------------------------------
Returned == pc = "idle" /\ outcome = "ok"

(* The matches of the run that the query as it was written selects.         *)
Selected(n, c) ==
  LET match == call.run[n]
      preds == query[match.pattern]
      generics == {p \in ToSet(preds) : p.name \notin
                     EqNames \cup MatchNames \cup AnyOfNames \cup {"is?", "is-not?", "set!"}}
      Asked(p) == <<n, c, p.name, p.args>>
  IN  call.source # "None" =>
        /\ \A p \in ToSet(preds) : Meaning(p, match)
        /\ call.callable =>
             \A p \in generics : Asked(p) \in accepted /\ Asked(p) \notin refused

(* What the program should be given for some of the items.                  *)
Gathered(its) ==
  IF call.mode = "matches"
  THEN [n \in DOMAIN its |-> <<its[n].match.pattern, CapturesForMatch(its[n].match)>>]
  ELSE {its[n].match.captures[its[n].capture] : n \in DOMAIN its}

SelectedItems ==
  LET its == ItemsOf(call.mode, call.run)
  IN  Only(its, {it \in ToSet(its) : Selected(it.nth, it.capture)})

(* Every variable keeps its type; the two counters of the walk over the     *)
(* steps agree, and the step pointer is at the name of a predicate or at the*)
(* end of the pattern's steps.                                              *)
TypeOK ==
  /\ \/ query \in Queries /\ built \in {"reading", "built", "rejected"}
     \/ query = <<>> /\ built = "failed" /\ scan.at <= Len(scan.text)
  /\ Len(stored) <= Len(query) /\ (built = "built" => Len(stored) = Len(query))
  /\ step \in Nat \ {0} /\ j = step - 1
  /\ step # 1 => j <= Len(steps) /\ steps[j].type = "done"
  /\ pc \in {"idle", "native", "predicates", "callable", "faulted"}
  /\ call \in [mode : {"matches", "captures"}, run : Runs \cup {<<>>}, source : Sources \cup {"bytes"},
               callable : BOOLEAN]
  /\ left = <<>> \/ \E run \in IF inner = 0 THEN {call.run} ELSE InnerRuns :
                       IsSuffix(left, ItemsOf(call.mode, run))
  /\ k \in Nat \ {0} /\ outcome \in {"none", "ok", "error"}
  /\ cancelled \in BOOLEAN /\ inner \in Nat
  /\ pending \in BOOLEAN /\ raised \in BOOLEAN /\ (pending => raised)
  /\ pc = "callable" => Objects[k].kind = "generic" /\ call.callable

(* The call returns exactly the matches, or captures, whose predicates hold *)
(* by the meaning of their names in the query's source and by the answers of*)
(* the callable, the matches in the order they were found; the first of them*)
(* if the progress callback cut the run short.  Of a call whose callable ran*)
(* the same cursor nothing can be said: it goes on with another run.        *)
ResultIsSelection ==
  Returned /\ inner = 0 =>
    LET its == SelectedItems
    IN  \/ result = Gathered(its)
        \/ cancelled /\ \E n \in 0..Len(its) : result = Gathered(SubSeq(its, 1, n))

(* An exception of a callback, of search() or of a truth test is what the   *)
(* call ends with, however many matches it goes on to look at, and even when*)
(* these are those of another run, which the callable began.                *)
ExceptionReported == Returned => ~raised

(* No callback makes the module release or use NULL.                        *)
NoFault == pc # "faulted"
=============================================================================
