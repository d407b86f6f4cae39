\* Callbacks may raise, and handle exceptions of their own; every logger is callable and no
\* parse is cancelled.
SPECIFICATION Spec
SYMMETRY Symmetry
CONSTANTS
  NULL = NULL
  l1 = l1
  l2 = l2
  lOld = lOld
  g1 = g1
  g2 = g2
  notCallable = notCallable
  ranges = ranges
  badRanges = badRanges
  text = text
  reader1 = reader1
  reader2 = reader2
  chunk1 = chunk1
  chunk2 = chunk2
  cell1 = cell1
  cell2 = cell2
  Languages = {l1, l2}
  OldLanguages = {lOld}
  Loggers = {g1, g2}
  NotCallables = {}
  RangeLists = {ranges}
  BadRanges = {badRanges}
  Buffers = {text}
  Readers = {reader1, reader2}
  Chunks = {chunk1, chunk2}
  Cells = {cell1, cell2}
  Raising = {"read", "log"}
  UsesProgress = FALSE
  DeletesLanguage = FALSE
  Catching = TRUE
  Reenters = FALSE
  OtherThreads = FALSE
INVARIANT LoggerAgrees
INVARIANT NoFault
PROPERTY LogGoesToLogger
