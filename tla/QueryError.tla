----------------------------- MODULE QueryError -----------------------------
(***************************************************************************)
(* Where a query is wrong: the row and column that query_new() of          *)
(* src/tree_sitter/binding/query.c puts into a QueryError, found by cutting*)
(* the source into lines with strtok().  strtok() skips delimiters, keeps  *)
(* its place between calls and writes a NUL over the newline that ends a   *)
(* line, here in the buffer of the Python str itself.                      *)
(***************************************************************************)
EXTENDS Integers, Sequences, FiniteSets

CONSTANT MaxText     \* bound: the length of a source

ASSUME TextAssumption == MaxText \in Nat

SourceTexts == UNION {[1..n -> {"char", "newline"}] : n \in 0..MaxText}

VARIABLE
  scan   \* the str as it was written and as it is now, how often it was given to
         \* Query(), the error's byte offset and the loop: where strtok() goes on, the
         \* start and the number of the line, and is the position reported?

(* The state before the loop; positions count from 0, as in C.              *)
Scanning(written, text, uses, offset) ==
  [written |-> written, text |-> text, uses |-> uses, offset |-> offset,
   at |-> 0, start |-> 0, row |-> 0, reported |-> FALSE]

ScanInit == \E text \in SourceTexts, offset \in 0..MaxText :
  offset <= Len(text) /\ scan = Scanning(text, text, 1, offset)

NoScan == Scanning(<<>>, <<>>, 0, 0)

(* The first position from p on that holds none, or one, of these.          *)
Skip(p, chars) ==
  CHOOSE n \in p..Len(scan.text) :
    /\ n = Len(scan.text) \/ scan.text[n + 1] \notin chars
    /\ \A m \in p..n-1 : scan.text[m + 1] \in chars

LineStart == Skip(scan.at, {"newline"})
LineEnd == Skip(LineStart, {"char"})

HasLine == LineStart < LineEnd

(* Just behind the line, its newline counted.                               *)
End_NoNewline == scan.start + (LineEnd - LineStart)

End == scan.start + (LineEnd - LineStart) + 1

Scan == scan.uses > 0 /\ ~scan.reported

(* strtok(): the line, cut off at its newline.                              *)
Cut ==
  IF LineEnd = Len(scan.text) \/ scan.text[LineEnd + 1] = "nul" THEN [scan EXCEPT !.at = LineEnd]
  ELSE [scan EXCEPT !.at = LineEnd + 1, !.text[LineEnd + 1] = "nul"]

PassLine ==
  /\ Scan /\ HasLine /\ End <= scan.offset
  /\ scan' = [Cut EXCEPT !.start = End, !.row = @ + 1]

FindLine ==
  /\ Scan /\ HasLine /\ End > scan.offset
  /\ scan' = [Cut EXCEPT !.reported = TRUE]

NoMoreLines ==
  /\ Scan /\ ~HasLine
  /\ scan' = [scan EXCEPT !.reported = TRUE]

Row == scan.row
Column == scan.offset - scan.start

(* The program gives the same str to Query() once more, which fails again.  *)
UseAgain ==
  /\ scan.reported /\ scan.uses = 1
  /\ \E offset \in 0..Len(scan.text) :
       scan' = Scanning(scan.written, scan.text, 2, offset)

ScanNext == PassLine \/ FindLine \/ NoMoreLines \/ UseAgain

-----------------------------------------------------------------------------
Newlines == {p \in 0..scan.offset-1 : scan.written[p + 1] = "newline"}

(* Empty lines before the error are skipped without being counted.          *)
NoEmptyLine == \A p \in Newlines : p > 0 /\ p - 1 \notin Newlines

TrueRow == Cardinality(Newlines)

TrueStart == IF Newlines = {} THEN 0 ELSE 1 + CHOOSE p \in Newlines : \A m \in Newlines : m <= p

(* A QueryError names the row and the column of the error in the source as  *)
(* it was written, if no line before it is empty; and, since the first      *)
(* failure has cut the str off after its first line, only in the first two  *)
(* rows when the same str is used again.                                    *)
PositionReported ==
  scan.reported /\ NoEmptyLine /\ (scan.uses = 1 \/ TrueRow <= 1) =>
    Row = TrueRow /\ Column = scan.offset - TrueStart
=============================================================================
