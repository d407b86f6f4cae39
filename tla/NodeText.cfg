\* Nodes in their place and nodes that were moved by one byte.
SPECIFICATION FairSpec
CONSTANTS
  a = a
  b = b
  c = c
  newline = newline
  Newline = newline
  OtherByte = a
  Text <- MCText
  MaxChunk = 3
  Shifts = {0, 1}
INVARIANT TypeOK
INVARIANT TextIsSlice
INVARIANT PointKeepsUp
PROPERTY TextReturned
CHECK_DEADLOCK FALSE
