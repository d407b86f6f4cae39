\* One iterator and one parser over two Language objects.
SPECIFICATION Spec
CONSTANTS
  NULL = NULL
  g1 = g1
  g2 = g2
  gOld = gOld
  a = a
  b = b
  l1 = l1
  l2 = l2
  i1 = i1
  ErrorSymbol = ErrorSymbol
  LangIds = {l1, l2}
  IterIds = {i1}
  Grammars = {g1, g2, gOld}
  Abi <- MCAbi
  AbiMin = 13
  AbiMax = 15
  StrayAbi = {12, 14}
  Symbols = {a, b}
  Valid <- MCValid
  StateModulus = 3
  MaxState = 3
  MaxLost = 2
SYMMETRY Symmetry
INVARIANT TypeOK
INVARIANT RefcountExact
INVARIANT ShownIsIterated
INVARIANT GivenInOrder
INVARIANT AttributeHonest
