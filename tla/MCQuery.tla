------------------------------- MODULE MCQuery -------------------------------
(***************************************************************************)
(* QueryCursor over queries of up to two predicates, in one pattern or two,*)
(* and over one or two matches of nodes with two different texts.          *)
(***************************************************************************)
EXTENDS QueryCursor

CONSTANTS n1, n2, n3, x, y, z, xOrY, bad, local

Cap(i) == [type |-> "capture", value |-> i]
Str(s) == [type |-> "string", value |-> s]
P(n, args) == [name |-> n, args |-> args]

MCLengthOf ==
  [s \in {x, y, xOrY, bad, local} |-> 5] @@
  [n \in EqNames \cup MatchNames \cup {"not-any-of?", "is-not?", "set!", "ask?"} |-> 9] @@
  ("any-of?" :> 7) @@ ("is?" :> 3)

Texts ==
  { P("eq?", <<Cap(1), Str(x)>>), P("not-eq?", <<Cap(1), Str(x)>>),
    P("any-eq?", <<Cap(1), Str(x)>>), P("any-not-eq?", <<Cap(1), Str(y)>>),
    P("eq?", <<Cap(1), Cap(2)>>), P("any-not-eq?", <<Cap(1), Cap(2)>>),
    P("match?", <<Cap(1), Str(xOrY)>>), P("not-match?", <<Cap(1), Str(x)>>),
    P("any-match?", <<Cap(2), Str(x)>>),
    P("any-of?", <<Cap(1), Str(x), Str(y)>>), P("not-any-of?", <<Cap(2), Str(y)>>),
    P("not-any-of?", <<Cap(1), Str(x), Str(y)>>) }

Malformed ==
  { P("eq?", <<Cap(1)>>), P("eq?", <<Str(x), Cap(1)>>), P("match?", <<Cap(1), Cap(2)>>),
    P("match?", <<Cap(1), Str(bad)>>), P("any-of?", <<Cap(1), Str(x), Cap(2)>>),
    P("any-of?", <<Cap(1)>>), P("is?", <<>>), P("is?", <<Str(local), Cap(1)>>),
    P("set!", <<Cap(1)>>), P("set!", <<Str(x), Str(x), Str(y)>>) }

Others ==
  { P("is?", <<Str(local)>>), P("is-not?", <<Str(local), Str(x)>>), P("is-not?", <<Str(local)>>),
    P("set!", <<Str(x)>>), P("set!", <<Str(x), Str(y)>>),
    P("ask?", <<>>), P("ask?", <<Cap(1), Str(x)>>) }

(* One predicate of each kind, to go with a callable.                       *)
Mixed ==
  { P("not-eq?", <<Cap(1), Str(x)>>), P("any-not-eq?", <<Cap(1), Cap(2)>>),
    P("match?", <<Cap(1), Str(xOrY)>>), P("any-match?", <<Cap(2), Str(x)>>),
    P("not-any-of?", <<Cap(1), Str(x), Str(y)>>) }

Ask == P("ask?", <<>>)
Set == P("set!", <<Str(x), Str(y)>>)

MCQueries ==
  {<<<<p>>>> : p \in Texts \cup Malformed \cup Others}
  \cup {<<<<p, q>>>> : p, q \in Others}
  \cup {<<<<p, Ask>>>> : p \in Mixed} \cup {<<<<Ask, p>>>> : p \in Mixed}
  \cup {<<<<Set, p>>>> : p \in Malformed} \cup {<<<<Set>>, <<p>>>> : p \in Malformed}
  \cup {<<<<Ask>>, <<p>>>> : p \in Mixed \cup {Ask, Set}}

Captures == [index : {1, 2}, node : {n1, n2}]

Matches == [pattern : {1, 2}, captures : {<<>>} \cup {<<c>> : c \in Captures}
             \cup {<<c, d>> : c, d \in Captures}]

Single == [pattern : {1, 2}, captures : {<<c>> : c \in [index : {1, 2}, node : {n1, n2, n3}]}]

Second == [pattern : {1, 2}, captures : {<<c>> : c \in [index : {1}, node : {n1, n2}]}]

(* One match of any kind, or two matches of one capture each.               *)
MCRuns == {<<m>> : m \in Matches \cup Single} \cup {<<m, l>> : m \in Single, l \in Second}

(* What a callable finds that runs the cursor itself.                       *)
Found(i, n) == [pattern |-> 1, captures |-> <<[index |-> i, node |-> n]>>]
MCInnerRuns == {<<Found(2, n2)>>}

MCTextOf == n1 :> x @@ n2 :> y @@ n3 :> z
MCFinds == {<<xOrY, x>>, <<xOrY, y>>, <<x, x>>}

(* Queries for single questions.                                            *)
MCQueriesLocal == {<<<<P("is?", <<Str(local)>>)>>>>, <<<<P("is-not?", <<Str(local)>>)>>>>}
=============================================================================
