# A verification project for py-tree-sitter

py-tree-sitter is a CPython extension module (`tree_sitter/binding/*.c`) around
the native tree-sitter library. The native library is a submodule; what the
binding relies on of it is modelled from how the binding calls it, and marked
`external` in `PROJECT.json`. All paths below are relative to
`src/tree_sitter/binding/`.

The binding has no threads of its own, and the GIL is held except while the
native library draws dot graphs (`parser.c:228`, `tree.c:101`). What makes it hard is that

* state exists twice, as a Python attribute and inside a native object, and
  each method must change both, on every error path too;
* Python code of the program runs in the middle of a native call (the read
  callback, the logger, the progress callback, the predicate): it can use the
  same objects, raise, return garbage, or let another thread run;
* native values (`TSNode`, `TSTreeCursor`, the lexer's chunk pointer) point
  into memory that only a reference count or a buffer export keeps alive.

## Inventory

| part | state | operations | hard behaviour | what makes it correct | module |
|---|---|---|---|---|---|
| Parser (`parser.c`) | language, logger; native language, ranges, logger payload, outstanding parse | setters, `__init__`, `parse()`, `reset()`, dealloc | callbacks that assign attributes or raise; cancel and resume; payload lifetime | native and Python state agree; no fault; no truncated or stale tree; buffers exported while read, released after | `Parser`, `ParseCall` |
| Tree, Node, TreeCursor (`tree.c`, `node.c`, `tree_cursor.c`) | native value, owner tree, cached children or node | navigation, `walk()`, `children`, cursor moves, `reset`, `reset_to`, `copy`, `edit` | any order of dropping objects, caches, cursors over several trees | exact counts, nothing dangles, caches current, nothing left over | `Ownership` |
| `Node.text` (`node.c:552-674`) | collected bytes, offset, point | loop over the read callback | how a reader cuts its slices, buffer used after its release, edits meanwhile | the result is the node's text; offset and point agree; the loop ends | `NodeText` |
| children list, shared cursor (`node.c:93-265, 440-493`) | `children` list, module `default_cursor` | `children`, `named_children`, `children_by_field_*`, `child(i)` | one cursor for the whole module; a list the program edits; 32-bit index | the answers are complete and in order; faults only with an edited list | `NodeChildren` |
| Query construction (`query.c`) | lists of predicates, settings, assertions | `query_new`, lookups | walk over predicate steps, overwritten `length`, error path, the position of an error | a query is rejected iff a predicate is malformed; each predicate is stored as written; errors name the right row and column | `QueryBuild`, `QueryError` |
| predicates (`query_predicates.c`) | - | `query_satisfies_predicates` | quantified captures, negation, exceptions | agree with the meaning of their names | `QueryPredicates` |
| QueryCursor (`query_cursor.c`) | native cursor, result | `matches`, `captures` | callbacks that raise, cancel or re-enter between matches | the result is what the query selects; no result in place of an exception | `QueryCursor` |
| Language, LookaheadIterator (`language.c`, `lookahead_iterator.c`) | native language, `abi_version`; native iterator, cached language | `__init__`, `copy`, `reset`, iteration, the iterator's and the parser's `language` | fields nobody sets, a cache that `reset` outdates, references that are overwritten | the language shown is the one iterated or parsed with; each symbol once; exact counts | `Lookahead` |
| Range, Point | six 32-bit numbers | init, compare, hash, edit | signed conversion of one field | - | not modelled |
| module state, package, stubs, build | type objects | import | - | - | not modelled |

Components interact as follows. `parse()` makes a Tree that takes the parser's
language and the source; Nodes and TreeCursors refer to their Tree; a
QueryCursor runs a Query over a Node, makes Nodes for its captures and reads
their text through the Tree's source, which may be the read callback of the
parse. A Language is referred to by programs, by a Parser's attribute and by
the iterators that cache it; parser and iterator also keep its native pointer.
`PROJECT.json` lists the hazards of all parts at their lines; five of them are
covered by no property, three of these being modelled up to the fault they end
in, and say why.

## Plan

Modelled and checked, in the order of importance:

1. `Parser`, with `ParseCall`, the abstract specification it implements; proofs
   in `ParserProofs` and `ParserRefinement`.
2. `Ownership`, with the sources of trees, copies and edits; `OwnershipProofs`.
3. `NodeText`; `NodeTextProofs`.
4. `QueryPredicates`, `QueryError`, `QueryBuild`, `QueryCursor`; proofs in
   `QueryBuildProofs` and `QueryProofs`.
5. `NodeChildren`; `NodeChildrenProofs`.
6. `Lookahead`; `LookaheadProofs`.

Every safety property of a passing run is by now a theorem, some of them under
the hypotheses on the environment that their sections name.

Modules build on each other like this: `Parser` is related to `ParseCall` by
INSTANCE; `QueryCursor` EXTENDS `QueryBuild`, which EXTENDS `QueryPredicates`
and `QueryError`; the other components stand alone and share only what the
native tree is, which each models as far as its properties need. Each component
has an `MC` module with the values of its runs, and the proofs are in modules of
their own.

## Module `Parser`

The object and its native parser are one record, `self`:

| field | code |
|---|---|
| `language`, `logger` | `Parser.language`, `Parser.logger` (`types.h:30-35`) |
| `nLanguage`, `nRanges` | what `ts_parser_set_language`, `ts_parser_set_included_ranges` stored |
| `nLogger`, `heap` | the payload pointer in the native `TSLogger`; the `LoggerPayload` cells, each `Free` or holding its `callback` |
| `outstanding` | what a cancelled parse had consumed, `NULL` if none |
| `given` | the sources given to `parse()` since the last reset, language or completed parse (an auxiliary set for `NoStaleDocument`) |
| `fault` | what the code did wrong in memory, `"none"` so far; a faulting process stops |

The other variables are the frame of `parser_parse()`: `pc` says whether the
thread is in native code or in a Python callback, `view` owns the `Py_buffer`,
`chunk` is the text the native lexer points at, `pending` is
`PyErr_Occurred()`. `exports` counts the buffer views of each object, `leaked`
collects chunks whose returned reference is dropped by nobody.

`parse()` is cut exactly where Python code can run: `ReadCalled` to
`ReadReturns`/`ReadReturnsNone`/`ReadRaises` (`parser_read_wrapper`),
`LogCalled`, `LogTypeReturns`, `LogReturns` (`log_callback`, whose `LogType(...)` call
is a place of its own), `ProgressCalled` to
`ProgressContinues`/`ProgressCancels`/`ProgressRaises`. `ReenterNative` is a callback
that calls `parse()` or `reset()`, or assigns a language, on the parser it was
called from: the binding has no guard against it, so it counts as a fault.
`TreeWithoutLanguage` is the fault of a parse that ends after the attribute was
set to `None`: `parser_parse()` makes the tree with it (`parser.c:208-211`). All else runs under the GIL and is one step. In
these places the program can assign logger, ranges and, if
`DeletesLanguage`, drop the language. The setters are functions of the record
(`SetLogger`, `SetLanguage`, `SetRanges`, `FreeLogger`), so that `__init__`
(`Initialise`) composes them as the code does, up to the first that fails.

The native parser is abstracted to what it has consumed: the documents whose
text reached it, and whether a callback's failure cut one short.

Environment constants say what the program does, so that each run can tell
what a property depends on: `NotCallables` (values assigned as logger that are
not callable), `Raising` (callbacks that may raise), `UsesProgress`,
`DeletesLanguage`, `Reenters`, `OtherThreads` (a thread switch while `LogType()` runs),
`Catching` (a callback handles an exception of its own, which also discards
one that is pending).
None of them is a restriction by the code.

Abstractions. What a re-entered native parser does lies in the absent native
library; the model says that it happens and stops there. Dropping the old logger or chunk can run a finaliser of
the program inside a setter; finalisers are taken to leave the parser alone.
A native parse whose callback reported an error still completes a tree.
`old_tree`, the encoding and the offsets choose native behaviour only.
`print_dot_graphs()` changes no state of the binding.

### `ParseCall`, the promise

`ParseCall` is the parser as a program sees it: the `grammar` documents are
parsed with, what a cancelled call has `kept`, the `call` in progress with the
documents that reached it, and the `result` of the last one. It has no
payloads, buffers or attributes. `Parser!Call` maps the detailed state to it: the
native language is the grammar, `outstanding.docs` is what is kept, `seen.docs`
and `pending` make the call, and a tree of a text that was cut short would be a
result that is not `whole`, which the promise does not contain. Assignments of
logger or ranges, buffers taken and released, and progress callbacks are
stutters. `KeepsPromise` is `Call!Spec`: an exception of a callback always is
the call's result, a tree contains only documents given since the last reset,
and nothing a callback assigns changes what a call returns.

### Runs of `Parser` (`MCParser.tla`)

One or two values of each kind: two loggers and two cells, so that a payload
can be replaced and a freed cell handed out again; two readers and a
bytestring, so that a document can be stale; two chunks, so that a view can be
released under its successor; one language too old. Calls are not counted: the
state space is finite without a bound. Interchangeable model values are
symmetric; `KeepsPromise` and `LogGoesToLogger` are properties of single steps.
The cells are never symmetric, being handed out by the allocator.

| run | environment | properties |
|---|---|---|
| `parser_raising` | readers and loggers raise or handle exceptions; attributes assigned in callbacks | `LoggerAgrees`, `NoFault`, `LogGoesToLogger` |
| `parser_any` | everything but `Catching`, faults included; a faulting process stops, so deadlock is not checked | `TypeOK`, `ChunkExported`, `NoExportAtRest`, `NoStaleDocument`, `NoTruncatedTree`, `LanguageAgrees`, `TreeLanguageMatches`, `KeepsPromise` |
| `parser_bad_logger` | a logger that is not callable | `NoFault` is violated |
| `parser_chunk_leak` | nothing special | `ChunksDropped` is violated |

`parser_set_logger()` frees the payload before it checks the new value; the
chunk a reader returns is never released by `Py_DECREF`. The first of these, an
exception pending when the progress callback is called, a language that is
dropped, re-entry, and a thread switch inside `LogType()` are why `NoFault` needs
its environment. `LanguageAgrees` and `TreeLanguageMatches` need none: the first
says what the code keeps, that a language which the attribute *shows* is the
native one, and leaves an attribute of `None` open (see the divergences below);
the second, that a tree never comes out with another language than its own, or
with none, although a callback can delete the attribute between the native parse
and line 208.

### Proofs (`ParserProofs.tla`, `ParserRefinement.tla`)

All are for every value of the constants that satisfies `ConstantsAssumption`,
infinite sets included.

* `TypeCorrect`: `TypeOK` with `FrameInv`, which says what the frame of
  `parse()` looks like at each `pc` (empty when idle, a reader as source inside
  a read call, a cell or a logger in `log`). `TypeOK` alone is not inductive:
  a result's type depends on `args`, and `ReadReturns` on its source.
* `TextStaysExported`, `ExportsReturned`: `ChunkExported` and `NoExportAtRest`,
  from `BufferInv`: the number of exports of an object is one for the owner of
  `view` and zero for all others, and a chunk that can be read is the owner of
  `view`. The two properties say only "positive" and "zero at rest", which a
  release does not preserve; the exact count is.
* `TreesAreFresh`, `TreesAreWhole`: `NoStaleDocument`, and `NoTruncatedTree`
  unless `Catching`, from `DocInv`: a truncated text implies a pending
  exception, a cancelled parse is never truncated, and what an outstanding or
  running parse has consumed is among `given`.
* `LanguageSafety`, `TreesNameTheirLanguage`: `LanguageAgrees` and
  `TreeLanguageMatches`, in every environment, from `LanguageInv`: both together,
  because a tree takes the attribute and is parsed with the native language.
* `PayloadSafety`: `LoggerAgrees`, from `AgreeInv`, assuming that every logger is
  callable (`CallableLoggers`); without it the finding of `parser_bad_logger`
  comes up. Deleted languages, re-entry and threads are allowed.
* `MessagesReachLogger`: `LogGoesToLogger`, assuming callable loggers and no
  thread switch inside `LogType()`, from `LogInv`: while that call runs, the
  payload `log_callback()` holds is still the native logger's.
* `FaultFreedom`: `NoFault`, assuming `Quiet`: callable loggers, a language that is
  not dropped, no re-entry, no thread switch inside `LogType()`, and no raising
  callback next to a progress callback. From `FaultInv`, which adds that no
  exception is pending next to a progress callback. `Quiet` is the list of the
  circumstances under which the code is known to fault; the theorem says that
  there are no others.
* `PromiseKept` (`ParserRefinement`): `KeepsPromise`, that is `Call!Spec`,
  unless `Catching`. Each action of `Parser` is mapped to one action of
  `ParseCall` (`ReadReturns` to `Read`, each way to leave `parse()` to `Return`,
  `Refuse`, `Cancel` or `Failure`, the language's setters to `SetLanguage`, ...)
  or to a stutter, in the states of `FrameInv` and `DocInv`: that what a running
  parse has consumed was given to it is what the promise is about, and a pending
  exception next to truncated text is why `Return` is whole.

## Module `Ownership`

Objects are allocated from finite sets of identities; `rc` is the stored
`ob_refcnt`, `held` the references the program itself keeps, `source`, `node`, `cursor`
and `items` the fields that hold references (`Tree.source`, `Node.tree`, `Node.children`,
`TreeCursor.tree`, `TreeCursor.node`, list elements) and the native tree and position
inside a `TSNode` or `TSTreeCursor`. Each action is one method call, with the increments and
decrements the method really makes (`Refs`). `Dealloc` frees one object whose
count is zero and releases what it refers to; no other action is enabled until all
such objects are gone (`Settled`), as CPython deallocates on the spot.

`NewTree` is the Tree that `parse()` returns with the source it read, `CopyTree`
and `EditTree` are `Tree.copy()` and `Tree.edit()`, of which the second gives
the source up. `Child`, `Descendant` and `Family` are the methods that return
another node of the tree, by where it may lie. `Move` stands for the eight moving
methods of the cursor, which were compared with it one by one: each drops the cached
node exactly where the native call succeeded (`goto_descendant()` always), so that
they differ only in where they go.

Two methods break the rule that an object keeps its native tree alive, and the
model lets them:

* `reset()` and `reset_to()` may lead a cursor into another tree than its own; the
  cursor, and what is made from it, is then `astray`. Using it after the other
  tree was deleted is a `Fault`.
* `copy()` leaves the copy's cached node as `PyObject_New` returned it, `Garbage`:
  a method may find `NULL` there by chance and go on, or take what it finds for a
  node, and so may the deallocator; the second is a `Fault`.

After a fault nothing more is said. An identifier is one allocation: a deleted
tree's is not used again while a native value points into it (`Unseen`), so a
place either is in a tree that exists or is not `Usable`. `ts_tree_edit()` is
taken to keep the nodes of the tree readable.

### Runs of `Ownership` (`MCOwnership.tla`)

Two trees of two positions, one source, two nodes, two cursors, one children list; the
program keeps at most `MaxHeld` = 1 reference to each object (two references
of the program behave as one: only the last matters). Two nodes are enough
for a node and its cached child, or a cursor's node and another; two trees
for an object that refers to the wrong one, and two cursors for one that is reset
to the other or copied from it. `Bounded` keeps at most two objects astray
at a time (a cursor and what was made from it), seven of the eight alive (each
property relates three or four of them), and does not look behind a fault, after
which the model stands still.

| run | properties |
|---|---|
| `ownership` | `TypeOK` (no count below zero), `RefcountExact`, `NoDangling`, `CacheCurrent`, `NothingLeft` |
| `ownership_reset_to` | `NodeInItsTree` is violated |

### Proofs (`OwnershipProofs.tla`)

For any number of objects, any trees, and every use of the API.

* `CountsExact` and `TypeCorrect`: `RefcountExact` and `TypeOK`, from `LifeInv`:
  the fields have their types, each count is the number of references to the
  object, and this holds of objects that are not allocated too, whose count is
  zero. That last part makes it inductive: it implies that an object in use
  refers only to objects in use (`Closed`), so that a method which reads a field
  increments the count of something that exists. The steps rest on lemmas about
  how the set of referents changes when one object's fields change.
* `PointersValid`: `NoDangling`, from `LifeInv`, `NativeInv` (the native tree of
  a node or cursor that is not astray is the one its `tree` field keeps alive) and
  `CacheInv`. What is astray is left out in the property itself, and only that: that
  such an object can dangle is the consequence of the finding of
  `ownership_reset_to`.
* `CacheHonest`: `CacheCurrent`, from `CacheInv` (a cached node is the live node
  at the cursor's position), for cursors in their own tree, astray, and copied. A
  cache that was never set is no node and is left out.
* `NoLeak`: `NothingLeft`, from `LifeInv` and `Layered`: nodes can be ranked so
  that the members of a node's children list rank above it. Exact counts
  alone do not exclude a node and a list that keep each other alive. With the
  ranking, some object that is left would be referred to by nothing, and
  `Settled` says that there is none.

Not modelled here: a children list that the program edits, or a cycle it makes
through one; failing allocations; the Tree's reference to its language, which is
counted like the source but never given up; what a finaliser of the program
does while a method drops an object (`tree_edit()` drops the source before it
replaces the field, `tree.c:73`).

## Module `NodeText`

| variable | code |
|---|---|
| `source` | `Tree.source`: a bytestring, a read callable, or `None` after `tree_edit()`; which of its two arguments the callable goes by |
| `node` | the extent of the Node in the document, and by how much `root_node_with_offset()` or `Node.edit()` moved it since |
| `offset`, `point`, `collected` | `current_offset`, `current_point`, `collected_bytes` of `node_get_text()` |
| `pc` | at rest, in the loop, or inside the read callable |
| `reader`, `reused`, `foreign` | history, for the properties: where this call of `text` gets its bytes from, whether a released chunk was overwritten before it was read, whether the reader returned other bytes than those at its position |

The getter is cut where the callable runs: `CallReader`, then `ReaderReturns`,
`ReaderReturnsOther` or `ReaderRaises`. `Collect` is the rest of the loop's body:
the chunk is appended and released (`node.c:638`), and then its bytes move the point
(`Advance`): they are those of the chunk, or whatever its memory has been
`Overwritten` with. `ReaderReturns` is a reader that keeps the documented
contract (`Wanted`), by the offset or by the point it is given;
`ReaderReturnsOther` is every other value: what `PyByteArray_FromObject()` makes bytes
of (an int, an iterable of ints, any buffer), and what it makes a `TypeError` of.
While the reader runs the tree may be edited (`EditTree`); the source is then
`None`, and calling it faults.

The document is a sequence of four bytes in two lines; `TakeNode` takes every
extent in it, in its place or moved by `Shifts` = {0, 1} bytes, and a reader returns
slices of one to `MaxChunk` = 3 bytes, so that chunks end before, at and behind a
line end and the node's end. Two values of a byte, a newline and another, are all
the loop tells apart.

| run | properties |
|---|---|
| `node_text` | `TypeOK`, `TextIsSlice`, `PointKeepsUp`, `TextReturned` |
| `node_text_freed` | `PointMatchesOffset` is violated: `node.c:648` reads bytes of a bytearray that line 638 released |

`TextIsSlice` holds whatever the released memory contains, because the bytes are
collected before: only a reader that goes by the point is misled. That is what
`Served` says, together with "the reader returned the bytes it should". For a node
that was moved, `text` is the part of the document at the bytes the node reports,
which is not where its text is; the divergences below name it.

### Proofs (`NodeTextProofs.tla`)

For documents, nodes and slices of any length, any shifts, any reader and any
contents of released memory; nothing is assumed.

* `TypeCorrect`: `TypeOK`, from `FetchInv`, which adds that in the loop as many
  bytes were collected as lie between the node's start and the offset.
* `PointsMatch`, `TextIsTheNodes`: `PointKeepsUp` and `TextIsSlice`, from
  `PlaceInv`: while the loop runs, `point` is where `collected` leads to from the
  node's start unless a chunk was overwritten, and `collected` is the document
  from the node's first byte to `offset` as long as the reader is `Served`. They need
  that moving over two pieces is moving over both (`AdvanceTwice`), that moving over
  a slice of the document leads from the position of its first byte to that
  behind its last (`PointOfOffset`), and that different places of a text have
  different positions, because a reader may go by the point.

`TextReturned` is liveness and only model-checked.

## Module `NodeChildren`

`tree` is the native tree, `cursor` the module's `default_cursor` as the path
from the node it was reset to, `list` the `children` field of each node (`None`
for `NULL`), `edited` the nodes whose list the program has changed. `pc`,
`self`, `method`, `field`, `items` and `i` are the frame of the method that
runs; `answer` is what the last one returned. `node_get_children()` is
`CachedChildren`, `NoChildren`, or `WalkChildren` with `FillNext` and
`FillLast`; `node_get_named_children()` reads the list again with `KeepNamed`,
`SkipUnnamed`, `TooManyNamed`, `ReadNoNode` and `ReturnNamed`;
`children_by_field_id()` is `ByField`, `FieldNext`, `FieldLast`. The loops run
under the GIL and call nothing of the program; they are steps because the
cursor they share is state. `EditList` is the program, which gets the cached
list itself.

`node_children`: four trees of four nodes (flat, with a deeper level below the
first or the only child, a single node), one anonymous node, two with the same
field; one change to one list (`MaxEdited`), by removing, replacing or appending
(up to `MaxList` items) any node or another object - one change is enough for a
list that is too short, holds too many named nodes, or something else. Indexes
go from -1 to `LongMax` = 4; `IndexModulus` is 4 and stands for 2^32, so that one
index needs more bits than a `uint32_t` has. `IndexedChildren` says exactly what
the methods do with each: `child(2**32)` is `child(0)`, and
`field_name_for_named_child()` is bounded by the number of all children.

### Proofs (`NodeChildrenProofs.tla`)

For any set of trees, lists of any length and any number of edits.

* `TypeCorrect` and `FaultsNeedEdits`: `TypeOK` and `FaultNeedsEdit`, from
  `WalkInv`: the cursor is at the node it was reset to or at one of its
  children; what the method at work has collected is the prefix of the children
  that the cursor has passed (all, those of a field, or the named ones of the
  first `i` list items); and a list the program left alone is the children of
  its node. The cursor's part is what makes a list filled by one method and
  interrupted by nothing complete, wherever the previous method left the cursor.
* `ChildrenAreComplete`, `FieldsAreComplete`: `ChildrenComplete` and
  `FieldComplete`, from `AnswerInv`, which says of the last answer what
  `WalkInv` says of the one being made.
* `IndexesAgree`: `IndexedChildren`, from the same, for every `long`, also where
  it is longer than the native index.

That a node occurs once among the children of its parent is part of
`ChildrenAssumption`: the cursor's steps are by node.

## Modules `QueryPredicates`, `QueryBuild`, `QueryError`, `QueryCursor`

`QueryPredicates` has no state: `SatisfiesEqCapture`, `SatisfiesEqString`,
`SatisfiesMatch` and `SatisfiesAnyOf` translate the functions of
`query_predicates.c`, `LoopResult` the loops that `PREDICATE_BREAK` leaves
early, and `Failing` what `search()` does with a text it cannot decode or with
an exception pending. `Meaning` is the reference: what the predicate's name
says, for all nodes of a capture or, with `any-`, for some.

`QueryBuild` is the walk of `query_new()` over a pattern's predicate steps.

| variable | code |
|---|---|
| `query` | the query as written: for each pattern its predicates |
| `stored`, `current` | `predicates`, `settings`, `assertions`, and the lists of the pattern being read |
| `step`, `j` | `predicate_step` (a pointer) and the loop's counter |
| `built` | reading, built or rejected |

Each family of names is an action that adds and one that rejects (`AddEqString`,
`RejectEq`, ...). `PrefixOf` holds the names that are a proper prefix of
a built-in one, which `strncmp()` with the shorter length takes for it; the runs
have none.

`QueryError` is the other way `query_new()` can end: the native library reports
a byte offset, and a loop over `strtok()` finds the line it lies in. `scan` is
that loop: the str as written and as it is now (`strtok()` overwrites newlines
with NUL), where `strtok()` goes on, start and number of the line. `UseAgain`
gives the same str to `Query()` once more. Characters are told apart only as
newlines and others, which is all the loop looks at. A query in `QueryBuild` is
either of `Queries`, or a source that fails (`built = "failed"`).

`QueryCursor` adds `matches()` and `captures()`. The native cursor is the
sequence of matches it finds (`call.run`, consumed in `left`); `item` and `k`
are the match and the predicate being looked at, `result` what has been
collected (a list of matches, or for `captures()` a set of nodes per name), `pending` is `PyErr_Occurred()`. The run is cut where Python code
runs: the predicate callable (`PredicateAccepts`, `PredicateRefuses`,
`PredicateUntestable`, `PredicateRaises`, `PredicateReenters`) and the progress
callback. `raised`, `cancelled`, `inner`, `accepted` and `refused` record what
callbacks did, for the properties only. A callback that runs while an exception is pending
returns a result only if it discards it (`Catching`); CPython turns anything
else into a `SystemError`.

`PredicateReenters` is a callable that runs the cursor it is called from. There is
one native cursor, so the outer loop goes on with what the inner run left in it:
nothing, or a rest when `captures()` returned early (`query_cursor.c:213-215`) or a
progress callback stopped it. And `match.captures` is a pointer into the cursor's
memory, which may hold a match of the inner run by now (`Overwritten`) or have been
moved (`PredicateMovesCaptures`, a fault).

### Runs (`MCQuery.tla`)

Every kind of predicate and of malformed predicate is built alone, next to one
that calls the program, and in a second pattern. Two names of captures, three
nodes with two different texts and one that is not UTF-8; one match with up to
two captures in any order, or two matches with one: enough for a capture
without, with one, and with two nodes that agree or differ, for `any-` and
`not-` to matter, and for an exception with a match still to come.

| run | properties |
|---|---|
| `query` | `TypeOK`, `RejectsMalformed`, `SettingsKept`, `AssertionsKept`, `PositionReported`, `ResultIsSelection`, `ExceptionReported` |
| `query_polarity` (a key of five letters) | `PolarityKept` is violated |

In `query` the callable runs the cursor at most `MaxInner` = 1 time in a call and
finds one match there (`InnerRuns`): enough for the rest of an inner run to be handed out by
the outer loop and for its captures to stand in the outer match's place.
`not-any-of?` is asked with one value and with two. `AssertionsKept` is about keys
and values, `PolarityKept` about the flag that the finding is about.
Sources that fail have up to `MaxText` = 6 characters and any error offset,
twice for one str: enough for three lines with something on them, blank lines
at every place, and an error at the very end. A faulting process stops, so
deadlock is not checked.

### Proofs (`QueryBuildProofs.tla`, `QueryProofs.tla`)

For any queries, with any number of patterns and predicates.

* `MalformedRejected`, `SettingsAreStated`, `AssertionsAreStated`:
  `RejectsMalformed`, `SettingsKept` and `AssertionsKept`, from `WalkInv`: the
  step pointer is at the name of a predicate or at the end (`AtPredicate`: in
  `Steps`, the place behind the `n`-th Done step), the two counters agree, and the
  lists are those of the predicates read so far (`ListsOf`), which were all
  well formed. Two properties in one state only compare the end with the query;
  the walk over steps of different lengths is in this invariant. Assumed:
  `WholeNames`, that no name is a proper prefix of a built-in one, where
  `strncmp()` takes the one for the other. The polarity of an assertion is not
  among what is proved: it is what the finding of `query_polarity` refutes.
* `PositionIsTrue`: `PositionReported`, for sources of any length, from
  `ScanInv`: a str that was scanned differs from what was written only by newlines
  that became NUL (`CutAtNewlines`), and in a regular use `start` is the first
  character of line `row`. `NewlinesBefore` counts with a cardinality, and
  `RowFound` shows that a line with the right number of newlines before it is the
  line of the offset.
* `PredicateMeaning`: for all captures, texts and arguments,
  `Satisfies(p, match, FALSE) <=> Meaning(pred, match)`, where `p` is the object
  for the predicate `pred` (`ObjectOf`), by cases on the kind of object. The argument is
  `LoopIsQuantifier`: a loop that stops at the first result equal to `any` and
  returns the last result it saw computes "some" or "all". Assumed: `search()`
  raises nothing (texts behind the one that decides may be undecodable). The
  meaning of `not-any-of?` is what the code gives it, that a text differs from one of
  the values; see the divergences.
* `CursorTypes`: `TypeOK`, for any queries, runs and callbacks, from `RunType`
  with `WalkInv` and `ScanInv`. `RunType` says that `left` is what follows the
  first `n` items of the run (`RestTail`), `TypeOK` only that it is a suffix.
* `SelectionIsTrue`: `ResultIsSelection`, for any queries, runs, texts and
  callbacks, cancelled runs included, from `SelectionInv`: while nothing
  has raised, the call has looked at the first `n` items of its run; `result` is
  `Gathered` from those of them that are selected (`Found(n)`), or from all but the
  last, which is at hand and has passed the predicates before `k`; and the
  callable was asked about these items only (`AskedOf`). The last part is what
  keeps an answer about one match from changing what was decided for an earlier
  one: `NewAnswer` shows that `Found(n - 1)` stays, because no two items have both
  their match and their capture in common (`ItemsAre`). `WalkInv` says that each
  predicate of a pattern has its object and each object its predicate
  (`ObjectsOf`), so `ObjectsDecide` carries `PredicateMeaning` over to what
  `Query.__new__` has stored. At the end of the run `n` is its length, or the run
  was cut and the result is a prefix of the selection (`OnlyPrefix`). Assumed:
  `WholeNames`, which holds in the run `query`. The property itself leaves out calls
  whose callable ran the same cursor: what they return is a mixture of two runs. If
  `Catching`, only of calls in which nothing raised.
* `ExceptionSafety`: `ExceptionReported` unless `Catching`, from `ExceptionInv`:
  while a call runs, an exception was raised if and only if it is still
  pending, also when the callable ran the cursor. `ExceptionReported` speaks of calls that have returned, and is not
  inductive by itself.

`NamesAssumption` says what the names are: `any-of?` is the one name of its family
with seven letters, which is how `query_handle_any_of()` tells the two apart.

## Module `Lookahead`

| variable | code |
|---|---|
| `lang` | each Language object: its native language, its `abi_version`, whether `__init__` ran again on it |
| `rc`, `held`, `lost` | `ob_refcnt`; the Languages the program refers to; references that a holder overwrote without dropping them |
| `iter` | each LookaheadIterator: native language, state and position, the cached Language (`cached`); for the properties, what was asked for (`wanted`), the symbols given since (`got`), whether the end was reported, and the language last shown (`shown`) |
| `parser` | a Parser's `language` and the native parser's |

`NewLanguage` and `InitAgain` are `language_init()`, `Copy` is `language_copy()`,
which leaves `abi_version` to whatever the memory holds (`StrayAbi`).
`LookaheadIterator`, `ResetState`, `Reset`, `GetLanguage`, `Iterate` and
`DropIterator` are the iterator's methods; `AssignLanguage`, `AssignNone` and
`ReadAttribute` the parser's attribute, with both of its version checks, the
binding's (of the object's `abi_version`) and the library's. A state id is an
`H` argument and keeps its low 16 bits.

The run `lookahead` has two Languages, one iterator and one parser over three
grammars: two that the library accepts, with one and two states, and one too
old. `Symbols` is what their symbols are taken from. Two objects are enough for the getter to replace one by another, and
grammars with different symbols for a mix-up to show. `StateModulus` = 3 stands
for 2^16 and `MaxState` = 3 wraps around once; `MaxLost` = 2 bounds the
references that are lost; `StrayAbi` has a version the library accepts and one
it does not. It checks `TypeOK` (nothing in use is freed), `RefcountExact`,
`ShownIsIterated`, `GivenInOrder` and `AttributeHonest`. Calls on a Language
that has no native language end the process inside the library; no action is such a call.

### Proofs (`LookaheadProofs.tla`)

For any number of Languages, iterators and grammars.

* `CountsExact`, `TypeCorrect`: `RefcountExact` and `TypeOK`, from `LifeInv`:
  types, exact counts, and that an object which is not allocated has count zero.
  As in `Ownership`, none of the three is inductive without the others.
* `SymbolsInOrder`: `GivenInOrder`, from `OrderInv`: what an iterator has given is
  the prefix of length `pos` of the symbols of its state (`Drain` adds the rest
  at once), and it is at the end when it said so.
* `LanguageShown`, `AttributeTrue`: `ShownIsIterated` and `AttributeHonest`, for
  every `abi_version` an uninitialised field may hold (`StrayAbi`).

## Fairness and liveness

`TextReturned` is checked under `NodeText!FairSpec`: weak fairness of the
getter's loop and of the reader inside it. The loop is a single C function that
nothing stops, and the reader is assumed to return or raise, which is the
program's part; that it keeps its contract (an empty slice only at the end of
the text) is in `ReaderReturns`.

No liveness of `parse()` is stated: whether a native parse ends is the native
library's and the callbacks' doing, the binding adds no loop and no wait.

All other specifications are `Init /\ [][Next]_vars`: nothing they promise depends
on progress. A cursor's run ends when its callbacks do, since each step uses up
a match or a predicate.

## What is only model-checked, what is left out

Model-checked only: the liveness property `TextReturned`, since fairness and
ENABLED are outside what the proofs cover.
All other properties of the passing runs are theorems, some of them under
hypotheses that the sections above name.
Failing allocations are left out everywhere.

Not modelled: `Range` and `Point`, values whose operations are one comparison or
one native call each and that no other part depends on; the set-up of the module
at import; the lookups of a Language and of a Query, each one native call;
`print_dot_graphs()`, which changes no state of the binding; the limits and ranges
of a QueryCursor, which only reach the native cursor.

Known divergences without a run, with the constants that show them where a
model has them:

* `language = None` and `del` reach only the attribute, the native parser keeps the
  language (`parser.c:346`; `DeletesLanguage`; `LanguageAgrees` allows it); the next
  `parse()`, or the one that is running, parses with it and then dereferences the
  NULL attribute instead of returning `None` (`parser.c:211`; `TreeWithoutLanguage`);
* a callback that handles an exception of its own discards one that another
  callback left pending: `parse()` then returns a tree of a truncated text
  (`parser.c:77`; `Catching`, `NoTruncatedTree`), and a cursor's run a
  result that lacks matches (`Catching`, `ExceptionReported`);
* `parse()` without a language raises `ValueError` where `parser.c:403-404`
  promises `None`; `old_tree=None` and `progress_callback=None`, allowed by
  `__init__.pyi`, are rejected;
* a copied TreeCursor's `node` field is not initialised (`tree_cursor.c:171`;
  `Garbage`, `Fault`);
* the text of a node from `root_node_with_offset()` or of an edited Node is cut
  at shifted offsets, and if the node ends behind the text a reader that returns an
  empty slice there is called for ever (`node.c:563, 601`; `Shifts`; `TextIsSlice`
  says "at the node's bytes", `TextReturned` leaves such nodes out);
* a child index of 2^32 and more is read by its low 32 bits (`node.c:104`;
  `IndexedChildren` says so);
* `field_name_for_named_child()` bounds its index by the count of all children
  (`node.c:256`); `first_child_for_byte()` returns a Node of a null node where
  there is no such child (`node.c:138`);
* a predicate callable that uses the same QueryCursor replaces the run it is called
  from by what is left of its own, and the outer match's captures may be overwritten
  or freed (`query_cursor.c:140-147, 209-217`; `PredicateReenters`,
  `PredicateMovesCaptures`; `ResultIsSelection` leaves such calls out);
* a predicate name that is a proper prefix of a built-in one (`#set`) is taken
  for it (`PrefixOf`); `string_value()` bounds its index by the capture count
  (`query.c:534`); the message for a malformed `is?` or `set!` looks a string id
  up among the captures (`query.c:393, 429`);
* `not-any-of?` with several values is satisfied unless a text equals all of
  them, which no text does if they differ (`query_predicates.c:69`; `Meaning` says what the code does);
* the row of a syntax error does not count blank lines before it, and the column
  is then too large; `strtok()` writes into the caller's str, so that
  a second `Query()` with it knows at most two rows (`query.c:64`;
  `PositionReported` is restricted to the other cases);
* a copied Language has no `abi_version` and no `name`; assigning it to a parser
  may be refused by chance (`language.c:240`; `StrayAbi`); `__init__` with a
  capsule of another kind leaves a live Language without a native one
  (`language.c:10`; `InitAgain`);
* the iterator's `language` getter and `Parser.language = None` overwrite a
  reference without dropping it, and the getter's new object has no name
  (`lookahead_iterator.c:26`, `parser.c:346`; both in `lost`); `names()` and
  `symbols()` do not drop the elements they append (`lookahead_iterator.c:82, 91`);
* state and field ids of 2^16 and more wrap around (`StateModulus`);
  `node_kind_is_supertype()` is true for every symbol type up to supertype
  (`language.c:177`);
* `parse()` that raises does not delete a tree the native parser completed
  (`parser.c:195`); `Tree.print_dot_graph()` releases the GIL while another
  thread may edit the tree (`tree.c:101`).

## Mutants

Each checked property has a mutated definition that breaks it, next to the one it
mutates and named after it (`SetLogger_NoFree`, `ReleasePrevious_Forgotten`,
`SetPosition_KeepsCache`, `WalkChildren_NoReset`, ...): the plausible slips in that code.
