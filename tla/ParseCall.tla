------------------------------ MODULE ParseCall ------------------------------
(***************************************************************************)
(* What one Parser promises to the program that uses it, and nothing of    *)
(* how parser.c keeps the promise: a grammar, the document of the parse()  *)
(* call in progress, what a cancelled call keeps for the next one, and the *)
(* result of the last call.                                                *)
(***************************************************************************)
CONSTANTS
  Languages,   \* the grammars a parser accepts
  Sources,     \* the documents
  NULL

VARIABLES
  grammar,     \* the grammar documents are parsed with, NULL when there is none
  kept,        \* the documents a cancelled call had begun to read
  call,        \* the call in progress
  result       \* what the last call to end returned

vars == <<grammar, kept, call, result>>

(* docs: the documents whose text has reached the call; failed: has one of  *)
(* its callbacks raised?                                                    *)
NoCall == [source |-> NULL, docs |-> {}, failed |-> FALSE]

Failure == [kind |-> "error"]

Init ==
  /\ grammar = NULL /\ kept = {} /\ call = NoCall
  /\ result = [kind |-> "none"]

Idle == call = NoCall

(* Another language, or another Parser, forgets a cancelled call.           *)
SetLanguage ==
  /\ Idle
  /\ grammar' \in Languages \cup {NULL} /\ kept' = {}
  /\ UNCHANGED <<call, result>>

Reset ==
  /\ Idle
  /\ kept' = {}
  /\ UNCHANGED <<grammar, call, result>>

Refuse ==
  /\ Idle
  /\ result' = Failure
  /\ UNCHANGED <<grammar, kept, call>>

(* The call goes on where a cancelled one stopped, with what that one read. *)
Start ==
  /\ Idle /\ grammar # NULL
  /\ \E source \in Sources, new \in BOOLEAN :
       call' = [source |-> source, docs |-> IF new THEN kept \cup {source} ELSE kept,
                failed |-> FALSE]
  /\ kept' = {}
  /\ UNCHANGED <<grammar, result>>

Read ==
  /\ ~Idle /\ ~call.failed
  /\ call' = [call EXCEPT !.docs = @ \cup {call.source}]
  /\ UNCHANGED <<grammar, kept, result>>

CallbackRaises ==
  /\ ~Idle
  /\ call' = [call EXCEPT !.failed = TRUE]
  /\ UNCHANGED <<grammar, kept, result>>

(* The result: a tree of the whole text of its documents, or the exception  *)
(* of a callback.                                                           *)
Return ==
  /\ ~Idle
  /\ call' = NoCall
  /\ result' = IF call.failed THEN Failure
               ELSE [kind |-> "tree", grammar |-> grammar, docs |-> call.docs, whole |-> TRUE]
  /\ UNCHANGED <<grammar, kept>>

Cancel ==
  /\ ~Idle /\ ~call.failed
  /\ call' = NoCall /\ kept' = call.docs
  /\ result' = Failure
  /\ UNCHANGED grammar

Next ==
  \/ SetLanguage \/ Reset \/ Refuse
  \/ Start \/ Read \/ CallbackRaises \/ Return \/ Cancel

Spec == Init /\ [][Next]_vars
=============================================================================
