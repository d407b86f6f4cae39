------------------------------ MODULE NodeText ------------------------------
(***************************************************************************)
(* Node.text: node_get_text() of src/tree_sitter/binding/node.c, which     *)
(* either slices the bytestring a tree was parsed from or calls the read   *)
(* callback of the parse again, chunk by chunk, until the node is covered. *)
(***************************************************************************)
EXTENDS Integers, Sequences, FiniteSets, SequencesExt

CONSTANTS
  Text,        \* the document, a sequence of bytes
  Newline,     \* the byte '\n'
  OtherByte,   \* any other byte
  MaxChunk,    \* bound: the longest chunk a reader returns
  Shifts       \* how far root_node_with_offset() or Node.edit() moves a node

ASSUME TextAssumption ==
  /\ Text \in Seq(Range(Text)) /\ OtherByte # Newline
  /\ MaxChunk \in Nat \ {0} /\ Shifts \subseteq Nat

VARIABLES
  source,     \* Tree.source: a bytestring, a reader that goes by its offset or
              \* by its point argument, or None
  node,       \* the Node: its extent in Text and how far it was moved since
  pc,         \* idle, in the loop, or in the reader
  offset,     \* current_offset
  point,      \* current_point
  collected,  \* collected_bytes
  result,     \* what text returned or raised
  reader,     \* history: where the call of text got its bytes from
  reused,     \* history: was a released chunk overwritten before it was read?
  foreign     \* history: has the reader returned other bytes than it should?

history == <<reader, reused, foreign>>
vars == <<source, node, pc, offset, point, collected, result, history>>

NoResult == [kind |-> "none yet"]

Readers == {"by offset", "by point"}

(* Text[start:end] in Python, with bytes counted from 0.                    *)
Slice(text, start, end) ==
  SubSeq(text, start + 1, IF end < Len(text) THEN end ELSE Len(text))

(* The row and column after byte c.                                         *)
AfterByte(p, c) ==
  IF c = Newline THEN [row |-> p.row + 1, column |-> 0]
  ELSE [p EXCEPT !.column = @ + 1]

Advance(p, bytes) ==
  LET after[k \in 0..Len(bytes)] == IF k = 0 THEN p ELSE AfterByte(after[k - 1], bytes[k])
  IN  after[Len(bytes)]

(* The position of a byte offset in Text; a moved node starts Shift columns *)
(* to the right on the first row.                                           *)
PointAt(n) ==
  [row    |-> Cardinality({i \in 1..n : Text[i] = Newline}),
   column |-> Cardinality({i \in 1..n : \A j \in i..n : Text[j] # Newline})]

StartByte == node.start + node.shift
EndByte == node.end + node.shift
StartPoint ==
  LET p == PointAt(node.start)
  IN  IF p.row = 0 THEN [p EXCEPT !.column = @ + node.shift] ELSE p

Init ==
  /\ source \in Readers \cup {"bytes"}
  /\ node = [start |-> 0, end |-> Len(Text), shift |-> 0]
  /\ pc = "idle" /\ offset = 0 /\ point = PointAt(0) /\ collected = <<>>
  /\ result = NoResult /\ reader = "None" /\ reused = FALSE /\ foreign = FALSE

-----------------------------------------------------------------------------
(* The program                                                              *)

(* It takes a node of the tree, which root_node_with_offset() or edit() may *)
(* have moved.                                                              *)
TakeNode ==
  /\ pc = "idle"
  /\ \E start, end \in 0..Len(Text), shift \in Shifts :
       /\ start <= end
       /\ node' = [start |-> start, end |-> end, shift |-> shift]
  /\ result' = NoResult
  /\ UNCHANGED <<source, pc, offset, point, collected, history>>

(* tree_edit() forgets the source; a reader, or another thread meanwhile,   *)
(* may call it.                                                             *)
EditTree ==
  /\ pc \in {"idle", "read"}
  /\ source' = "None"
  /\ UNCHANGED <<node, pc, offset, point, collected, result, history>>

-----------------------------------------------------------------------------
(* node_get_text()                                                          *)

Return(value) ==
  /\ result' = value /\ pc' = "idle"
  /\ offset' = 0 /\ point' = PointAt(0) /\ collected' = <<>>

Begin == reader' = source /\ reused' = FALSE /\ foreign' = FALSE

TextOfEdited ==
  /\ pc = "idle" /\ source = "None"
  /\ Return([kind |-> "None"]) /\ Begin
  /\ UNCHANGED <<source, node>>

TextOfBytes ==
  /\ pc = "idle" /\ source = "bytes"
  /\ Return([kind |-> "text", bytes |-> Slice(Text, StartByte, EndByte)]) /\ Begin
  /\ UNCHANGED <<source, node>>

TextOfCallable_FromTheStart ==
  /\ pc = "idle" /\ source \in Readers /\ Begin
  /\ pc' = "loop" /\ offset' = 0 /\ point' = PointAt(0) /\ collected' = <<>>
  /\ result' = NoResult
  /\ UNCHANGED <<source, node>>

TextOfCallable ==
  /\ pc = "idle" /\ source \in Readers /\ Begin
  /\ pc' = "loop" /\ offset' = StartByte /\ point' = StartPoint /\ collected' = <<>>
  /\ result' = NoResult
  /\ UNCHANGED <<source, node>>

(* The loop's condition.                                                    *)
Covered_Exactly == offset = EndByte

Covered == offset >= EndByte

(* tree->source is read anew for every chunk; calling None yields NULL,     *)
(* which PyByteArray_FromObject() dereferences.                             *)
CallReader ==
  /\ pc = "loop" /\ ~Covered
  /\ pc' = IF source \in Readers THEN "read" ELSE "faulted"
  /\ UNCHANGED <<source, node, offset, point, collected, result, history>>

(* The chunk goes behind what was collected, and the bytearray it came in is*)
(* released.  Only then does the position loop read it: the bytes it sees   *)
(* are those of the chunk, or whatever the memory has been reused for.      *)
Overwritten(chunk) == [1..Len(chunk) -> {Newline, OtherByte}]

Collect_SeesFewer(chunk) ==
  /\ collected' = collected \o chunk
  /\ offset' = offset + Len(chunk)
  /\ \E bytes \in {chunk} \cup Overwritten(chunk) :
       /\ point' = Advance(point, SubSeq(bytes, 2, Len(bytes)))
       /\ reused' = (reused \/ bytes # chunk)
  /\ pc' = "loop"
  /\ UNCHANGED <<source, node, result, reader>>

Collect(chunk) ==
  /\ collected' = collected \o chunk
  /\ offset' = offset + Len(chunk)
  /\ \E bytes \in {chunk} \cup Overwritten(chunk) :
       point' = Advance(point, bytes) /\ reused' = (reused \/ bytes # chunk)
  /\ pc' = "loop"
  /\ UNCHANGED <<source, node, result, reader>>

(* What a reader that keeps the documented contract returns: a slice of any *)
(* length from its position on, an empty one at the end of the text.        *)
Wanted ==
  LET at == {n \in 0..Len(Text) : IF reader = "by point" THEN PointAt(n) = point ELSE n = offset}
  IN  IF at = {} THEN Len(Text) ELSE CHOOSE n \in at : TRUE

ReaderReturns ==
  /\ pc = "read"
  /\ \E n \in 1..MaxChunk : Collect(Slice(Text, Wanted, Wanted + n))
  /\ UNCHANGED foreign

(* Any other value: PyByteArray_FromObject() takes an int for so many zero  *)
(* bytes, an iterable of ints for the bytes they name, and other buffers as *)
(* they are.  Of a str or None it makes a TypeError.                        *)
ReaderReturnsOther ==
  /\ pc = "read"
  /\ \/ /\ \E n \in 0..MaxChunk : \E chunk \in [1..n -> {Newline, OtherByte}] : Collect(chunk)
        /\ foreign' = TRUE
     \/ Return([kind |-> "error"]) /\ UNCHANGED <<source, node, history>>

(* It raised: the NULL it yields is dereferenced.                           *)
ReaderRaises ==
  /\ pc = "read"
  /\ pc' = "faulted"
  /\ UNCHANGED <<source, node, offset, point, collected, result, history>>

(* The node is covered; what the last chunk had beyond it is cut off.       *)
Finish_Uncut ==
  /\ pc = "loop" /\ Covered
  /\ Return([kind |-> "text", bytes |-> collected])
  /\ UNCHANGED <<source, node, history>>

Finish ==
  /\ pc = "loop" /\ Covered
  /\ Return([kind |-> "text", bytes |-> Slice(collected, 0, EndByte - StartByte)])
  /\ UNCHANGED <<source, node, history>>

GetText ==
  \/ TextOfEdited \/ TextOfBytes \/ TextOfCallable
  \/ CallReader \/ ReaderReturns \/ ReaderReturnsOther \/ ReaderRaises
  \/ Finish

Next == TakeNode \/ EditTree \/ GetText

Spec == Init /\ [][Next]_vars

(* The getter runs on by itself, and a reader returns or raises.            *)
FairSpec ==
  Spec /\ WF_vars(CallReader \/ ReaderReturns \/ ReaderReturnsOther \/ ReaderRaises \/ Finish)

-----------------------------------------------------------------------------
Points == [row : Nat, column : Nat]

(* Every variable keeps its type; the loop never has more than it asked for:*)
(* the length of what was collected is the distance it has moved.           *)
TypeOK ==
  /\ source \in Readers \cup {"bytes", "None"}
  /\ node \in [start : 0..Len(Text), end : 0..Len(Text), shift : Shifts \cup {0}]
  /\ pc \in {"idle", "loop", "read", "faulted"}
  /\ offset \in Nat /\ point \in Points
  /\ collected \in Seq(Range(Text) \cup {Newline, OtherByte})
  /\ pc = "loop" => Len(collected) = offset - StartByte
  /\ result.kind \in {"none yet", "None", "text", "error"}
  /\ reader \in Readers \cup {"bytes", "None"} /\ reused \in BOOLEAN /\ foreign \in BOOLEAN

(* The reader could know which bytes were wanted, and returned them: one    *)
(* that goes by the point is misled by points that went astray and by nodes *)
(* that were moved.                                                         *)
Served == ~foreign /\ (reader = "by point" => ~reused /\ node.shift = 0)

(* "The text of the node": what text returns is the part of the document at *)
(* the bytes that the node reports as its own, however the reader cuts its  *)
(* slices, whether it goes by the offset or by the point it is given, and   *)
(* whatever was in the memory that is read after its release.               *)
TextIsSlice ==
  result.kind = "text" /\ Served => result.bytes = Slice(Text, StartByte, EndByte)

(* "The callback function takes a byte offset and position": in each call   *)
(* the two arguments name the same place of the document.                   *)
PointMatchesOffset ==
  pc = "read" /\ node.shift = 0 /\ ~foreign => point = PointAt(offset)

(* What holds of the two arguments as long as no released chunk has been    *)
(* overwritten: the point is where the bytes collected so far lead to from  *)
(* the node's start, whatever they are, and for a node that was not moved   *)
(* it is the place of the document that the offset names.                   *)
PointKeepsUp ==
  pc = "read" /\ ~reused =>
    /\ point = Advance(StartPoint, collected)
    /\ node.shift = 0 /\ ~foreign => point = PointAt(offset)

(* A text that was asked for is eventually there: for a node that ends      *)
(* within the document, and a reader that could know which bytes were wanted*)
(* and returned them, the loop comes to the end of the node.                *)
TextReturned ==
  pc = "loop" /\ EndByte <= Len(Text) ~> pc \in {"idle", "faulted"} \/ ~Served
=============================================================================
