\* The memory of a released chunk may have been overwritten.
SPECIFICATION Spec
CONSTANTS
  a = a
  b = b
  c = c
  newline = newline
  Newline = newline
  OtherByte = a
  Text <- MCText
  MaxChunk = 3
  Shifts = {0}
INVARIANT PointMatchesOffset
CHECK_DEADLOCK FALSE
