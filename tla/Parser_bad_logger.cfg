\* A value that is not callable is assigned as the logger.
SPECIFICATION Spec
CONSTANTS
  NULL = NULL
  l1 = l1
  l2 = l2
  lOld = lOld
  g1 = g1
  g2 = g2
  notCallable = notCallable
  ranges = ranges
  badRanges = badRanges
  text = text
  reader1 = reader1
  reader2 = reader2
  chunk1 = chunk1
  chunk2 = chunk2
  cell1 = cell1
  cell2 = cell2
  Languages = {l1, l2}
  OldLanguages = {lOld}
  Loggers = {g1, g2}
  NotCallables = {notCallable}
  RangeLists = {ranges}
  BadRanges = {badRanges}
  Buffers = {text}
  Readers = {reader1, reader2}
  Chunks = {chunk1, chunk2}
  Cells = {cell1, cell2}
  Raising = {}
  UsesProgress = FALSE
  DeletesLanguage = FALSE
  Catching = FALSE
  Reenters = FALSE
  OtherThreads = FALSE
SYMMETRY Symmetry
INVARIANT NoFault
