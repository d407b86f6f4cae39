\* Everything a program can do, the faults included: a faulting process stops. Only callbacks
\* that discard a pending exception are left to another run.
SPECIFICATION Spec
CONSTANTS
  NULL = NULL
  l1 = l1
  l2 = l2
  lOld = lOld
  g1 = g1
  g2 = g2
  notCallable = notCallable
  ranges = ranges
  badRanges = badRanges
  text = text
  reader1 = reader1
  reader2 = reader2
  chunk1 = chunk1
  chunk2 = chunk2
  cell1 = cell1
  cell2 = cell2
  Languages = {l1}
  OldLanguages = {lOld}
  Loggers = {g1, g2}
  NotCallables = {notCallable}
  RangeLists = {ranges}
  BadRanges = {badRanges}
  Buffers = {text}
  Readers = {reader1, reader2}
  Chunks = {chunk1, chunk2}
  Cells = {cell1, cell2}
  Raising = {"read", "log", "progress"}
  UsesProgress = TRUE
  DeletesLanguage = TRUE
  Catching = FALSE
  Reenters = TRUE
  OtherThreads = TRUE
SYMMETRY Symmetry
INVARIANT TypeOK
INVARIANT ChunkExported
INVARIANT NoExportAtRest
INVARIANT NoStaleDocument
INVARIANT NoTruncatedTree
 
 
PROPERTY KeepsPromise
CHECK_DEADLOCK FALSE
