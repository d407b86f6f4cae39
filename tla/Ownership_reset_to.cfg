\* A cursor reset into another tree keeps its owner.
SPECIFICATION Spec
CONSTANTS
  NULL = NULL
  Garbage = Garbage
  t1 = t1
  t2 = t2
  n1 = n1
  n2 = n2
  c1 = c1
  c2 = c2
  list1 = list1
  s1 = s1
  root = root
  leaf = leaf
  TreeIds = {t1, t2}
  NodeIds = {n1, n2}
  CursorIds = {c1, c2}
  ListIds = {list1}
  SourceIds = {s1}
  Positions = {root, leaf}
  RootPosition = root
  MaxHeld = 1
  Kids <- MCKids
  Under <- MCUnder
SYMMETRY Symmetry
INVARIANT NodeInItsTree
