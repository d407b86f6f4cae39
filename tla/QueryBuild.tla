----------------------------- MODULE QueryBuild -----------------------------
(***************************************************************************)
(* Query.__new__ (src/tree_sitter/binding/query.c): the walk over the      *)
(* predicate steps the native query has for each pattern, which sorts the  *)
(* predicates into objects, settings and assertions or rejects the query;  *)
(* or the report on a source that the native library could not read.       *)
(***************************************************************************)
EXTENDS QueryPredicates, QueryError

CONSTANTS
  Queries,      \* the queries the program writes: for each pattern, its predicates
  BadPatterns,  \* strings that are no regular expression
  LengthOf,     \* the length of each string in Queries
  PrefixOf,     \* the pairs <<string, longer string that begins with it>>
  NONE          \* None

Arguments ==
  [type : {"capture"}, value : Nat] \cup [type : {"string"}, value : DOMAIN LengthOf]

ASSUME NamesAssumption ==
  /\ Queries \subseteq Seq(Seq([name : DOMAIN LengthOf, args : Seq(Arguments)]))
  /\ BadPatterns \subseteq DOMAIN LengthOf
  /\ \A p \in PrefixOf : p[2] \notin AnyNames
  /\ \A s \in AnyOfNames \cap DOMAIN LengthOf : LengthOf[s] = 7 <=> s = "any-of?"

VARIABLES
  query,    \* the query being built, empty when its source is wrong
  stored,   \* predicates, settings and assertions of the patterns read so far
  current,  \* those of the pattern being read
  step,     \* predicate_step, as an index into the steps of the pattern
  j,        \* how many of these steps the loop takes to be done
  built     \* "reading", "built", "rejected" or, for a wrong source, "failed"

buildVars == <<query, stored, current, step, j, built, scan>>

(* PyDict_SetItem()                                                         *)
Put(dict, key, value) ==
  [x \in DOMAIN dict \cup {key} |-> IF x = key THEN value ELSE dict[x]]

NewLists == [predicates |-> <<>>, settings |-> <<>>, assertions |-> <<>>]

(* The steps of a pattern: for each predicate its name, its arguments and a *)
(* step of type Done.  The native library reads no predicate whose name is a*)
(* capture, so the error that the walk has for one never comes up.          *)
StepsOf(pred) ==
  <<[type |-> "string", value |-> pred.name]>> \o pred.args \o <<[type |-> "done", value |-> NONE]>>

StepsUpTo(preds) ==
  LET upTo[n \in 0..Len(preds)] ==
        IF n = 0 THEN <<>> ELSE upTo[n - 1] \o StepsOf(preds[n])
  IN  upTo

Steps(preds) == StepsUpTo(preds)[Len(preds)]

steps == Steps(query[Len(stored) + 1])

PredicateLen == SelectInSubSeq(steps, step, Len(steps), LAMBDA s : s.type = "done") - step

name == steps[step].value
Arg(k) == steps[step + k]
IsCapture(k) == Arg(k).type = "capture"
IsString(k) == Arg(k).type = "string"
Value(k) == Arg(k).value

(* strncmp(predicate_name, builtin, length) == 0                            *)
Named(builtin) == name = builtin \/ <<name, builtin>> \in PrefixOf
NamedIn(builtins) == \E b \in builtins : Named(b)

-----------------------------------------------------------------------------
BuildInit ==
  /\ \/ query \in Queries /\ built = "reading" /\ scan = NoScan
     \/ query = <<>> /\ built = "failed" /\ ScanInit
  /\ stored = <<>> /\ current = NewLists /\ step = 1 /\ j = 0

Reading == built = "reading" /\ Len(stored) < Len(query) /\ j < Len(steps)

(* The families are tried in this order.                                    *)
IsEq == Reading /\ NamedIn(EqNames)
IsMatch == Reading /\ ~NamedIn(EqNames) /\ NamedIn(MatchNames)
IsAnyOf == Reading /\ ~NamedIn(EqNames \cup MatchNames) /\ NamedIn(AnyOfNames)
IsAssertion ==
  /\ Reading /\ ~NamedIn(EqNames \cup MatchNames \cup AnyOfNames)
  /\ NamedIn({"is?", "is-not?"})
IsSetting ==
  /\ Reading
  /\ ~NamedIn(EqNames \cup MatchNames \cup AnyOfNames \cup {"is?", "is-not?"})
  /\ Named("set!")
IsGeneric ==
  /\ Reading
  /\ ~NamedIn(EqNames \cup MatchNames \cup AnyOfNames \cup {"is?", "is-not?", "set!"})

Reject ==
  /\ built' = "rejected"
  /\ UNCHANGED <<query, stored, current, step, j, scan>>

(* On to the next predicate; the loop adds one more to j by itself.         *)
Keep_OneStepShort(lists) ==
  /\ current' = lists
  /\ j' = j + PredicateLen + 2
  /\ step' = step + PredicateLen + 1
  /\ UNCHANGED <<query, stored, built, scan>>

Keep(lists) ==
  /\ current' = lists
  /\ j' = j + PredicateLen + 1
  /\ step' = step + PredicateLen + 1
  /\ UNCHANGED <<query, stored, built, scan>>

KeepPredicate(p) == Keep([current EXCEPT !.predicates = Append(@, p)])

EqOk == PredicateLen = 3 /\ IsCapture(1)

RejectEq == IsEq /\ ~EqOk /\ Reject

AddEqCapture ==
  /\ IsEq /\ EqOk /\ IsCapture(2)
  /\ KeepPredicate([kind |-> "eq capture", capture |-> Value(1), other |-> Value(2),
                    positive |-> NamedIn({"eq?", "any-eq?"}), any |-> name \in AnyNames])

AddEqString ==
  /\ IsEq /\ EqOk /\ ~IsCapture(2)
  /\ KeepPredicate([kind |-> "eq string", capture |-> Value(1), string |-> Value(2),
                    positive |-> NamedIn({"eq?", "any-eq?"}), any |-> name \in AnyNames])

MatchOk ==
  PredicateLen = 3 /\ IsCapture(1) /\ IsString(2) /\ Value(2) \notin BadPatterns

RejectMatch == IsMatch /\ ~MatchOk /\ Reject

AddMatch ==
  /\ IsMatch /\ MatchOk
  /\ KeepPredicate([kind |-> "match", capture |-> Value(1), pattern |-> Value(2),
                    positive |-> NamedIn({"match?", "any-match?"}), any |-> name \in AnyNames])

AnyOfOk == PredicateLen >= 3 /\ IsCapture(1) /\ \A k \in 2..PredicateLen-1 : IsString(k)

RejectAnyOf == IsAnyOf /\ ~AnyOfOk /\ Reject

AddAnyOf ==
  /\ IsAnyOf /\ AnyOfOk
  /\ KeepPredicate([kind |-> "any-of", capture |-> Value(1),
                    values |-> [k \in 1..PredicateLen-2 |-> Value(k + 1)],
                    positive |-> LengthOf[name] = 7])

(* is?, is-not? and set! take a key and an optional value.                  *)
PropertyOk_AnyNumber == PredicateLen # 1 /\ IsString(1)

PropertyOk ==
  PredicateLen \in {2, 3} /\ IsString(1) /\ (PredicateLen = 3 => IsString(2))

OptionalValue == IF PredicateLen = 2 THEN NONE ELSE Value(2)

RejectAssertion == IsAssertion /\ ~PropertyOk /\ Reject

(* The length tested for 3, that of is?, is by now the length of the key.   *)
Polarity == LengthOf[Value(1)] = 3

AddAssertion_KeepsFirst ==
  /\ IsAssertion /\ PropertyOk
  /\ Keep(IF Value(1) \in DOMAIN current.assertions THEN current
          ELSE [current EXCEPT !.assertions = Put(@, Value(1), <<OptionalValue, Polarity>>)])

AddAssertion ==
  /\ IsAssertion /\ PropertyOk
  /\ Keep([current EXCEPT !.assertions = Put(@, Value(1), <<OptionalValue, Polarity>>)])

RejectSetting == IsSetting /\ ~PropertyOk /\ Reject

AddSetting_KeepsFirst ==
  /\ IsSetting /\ PropertyOk
  /\ Keep(IF Value(1) \in DOMAIN current.settings THEN current
          ELSE [current EXCEPT !.settings = Put(@, Value(1), OptionalValue)])

AddSetting ==
  /\ IsSetting /\ PropertyOk
  /\ Keep([current EXCEPT !.settings = Put(@, Value(1), OptionalValue)])

AddGeneric ==
  /\ IsGeneric
  /\ KeepPredicate([kind |-> "generic", predicate |-> name,
                    arguments |-> [k \in 1..PredicateLen-1 |-> Arg(k)],
                    pattern |-> Len(stored) + 1])

StorePattern ==
  /\ built = "reading" /\ Len(stored) < Len(query) /\ j >= Len(steps)
  /\ stored' = Append(stored, current)
  /\ current' = NewLists /\ step' = 1 /\ j' = 0
  /\ UNCHANGED <<query, built, scan>>

ReturnQuery ==
  /\ built = "reading" /\ Len(stored) = Len(query)
  /\ built' = "built"
  /\ UNCHANGED <<query, stored, current, step, j, scan>>

(* query_new() when ts_query_new() returned NULL.                           *)
Report ==
  /\ built = "failed"
  /\ ScanNext
  /\ UNCHANGED <<query, stored, current, step, j, built>>

BuildNext ==
  \/ RejectEq \/ AddEqCapture \/ AddEqString
  \/ RejectMatch \/ AddMatch
  \/ RejectAnyOf \/ AddAnyOf
  \/ RejectAssertion \/ AddAssertion
  \/ RejectSetting \/ AddSetting
  \/ AddGeneric
  \/ StorePattern \/ ReturnQuery
  \/ Report

-----------------------------------------------------------------------------
(* The predicates each name accepts.                                        *)
Strings(args) == \A k \in DOMAIN args : args[k].type = "string"

WellFormed(pred) ==
  LET args == pred.args
      capture1 == args # <<>> /\ Head(args).type = "capture"
  IN  CASE pred.name \in EqNames -> Len(args) = 2 /\ capture1
        [] pred.name \in MatchNames ->
             Len(args) = 2 /\ capture1 /\ Strings(Tail(args)) /\ args[2].value \notin BadPatterns
        [] pred.name \in AnyOfNames -> Len(args) >= 2 /\ capture1 /\ Strings(Tail(args))
        [] pred.name \in {"is?", "is-not?", "set!"} -> Len(args) \in {1, 2} /\ Strings(args)
        [] OTHER -> TRUE

(* A query is rejected if and only if one of its predicates, in whichever   *)
(* pattern and behind whichever others, has arguments its name does not     *)
(* take; a predicate of a name that is not built in may have any.           *)
RejectsMalformed ==
  built \in {"built", "rejected"} =>
    (built = "rejected" <=>
       \E i \in DOMAIN query : \E n \in DOMAIN query[i] : ~WellFormed(query[i][n]))

(* The last of the predicates with one of these names and this key.         *)
LastOf(preds, names, key) ==
  SelectLastInSeq(preds, LAMBDA p : p.name \in names /\ p.args[1].value = key)

Keys(preds, names) == {p.args[1].value : p \in {q \in ToSet(preds) : q.name \in names}}

ValueOf(pred) == IF Len(pred.args) = 2 THEN pred.args[2].value ELSE NONE

(* "A dictionary of properties with optional values": the settings of a     *)
(* pattern are those its own set! predicates state, the last one of a key.  *)
SettingsKept ==
  built = "built" =>
    \A i \in DOMAIN query :
      stored[i].settings = [key \in Keys(query[i], {"set!"}) |->
                              ValueOf(query[i][LastOf(query[i], {"set!"}, key)])]

(* The assertions of a pattern are those its own is? and is-not? predicates *)
(* state, with the value of the last one of a key.                          *)
Assertions == {"is?", "is-not?"}

AssertionsKept ==
  built = "built" =>
    \A i \in DOMAIN query :
      [key \in DOMAIN stored[i].assertions |-> stored[i].assertions[key][1]] =
        [key \in Keys(query[i], Assertions) |->
          ValueOf(query[i][LastOf(query[i], Assertions, key)])]

(* "... the second item indicates whether the assertion was positive or     *)
(* negative": is? or is-not?.                                               *)
PolarityKept ==
  built = "built" =>
    \A i \in DOMAIN query : \A key \in Keys(query[i], Assertions) :
      stored[i].assertions[key][2] = (query[i][LastOf(query[i], Assertions, key)].name = "is?")
=============================================================================
