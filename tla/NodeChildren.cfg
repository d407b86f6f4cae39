\* The program changes lists; a long has more values than uint32_t can hold.
SPECIFICATION Spec
CONSTANTS
  root = root
  n1 = n1
  n2 = n2
  n3 = n3
  Nodes = {root, n1, n2, n3}
  Trees <- MCTrees
  NamedNodes <- MCNamedNodes
  FieldOf <- MCFieldOf
  Fields = {1, 2}
  Other = Other
  MaxList = 3
  MaxEdited = 1
  IndexModulus = 4
  LongMax = 4
INVARIANT TypeOK
INVARIANT ChildrenComplete
INVARIANT FieldComplete
INVARIANT IndexedChildren
INVARIANT FaultNeedsEdit
CHECK_DEADLOCK FALSE
