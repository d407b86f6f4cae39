\* is? and is-not? with the property "local" of the documentation.
SPECIFICATION Spec
CONSTANTS
  n1 = n1
  n2 = n2
  n3 = n3
  x = x
  y = y
  z = z
  xOrY = xOrY
  bad = bad
  local = local
  NONE = NONE
  MaxText = 6
  TextOf <- MCTextOf
  Finds <- MCFinds
  Undecodable = {z}
  Queries <- MCQueriesLocal
  BadPatterns = {bad}
  LengthOf <- MCLengthOf
  PrefixOf = {}
  Runs <- MCRuns
  InnerRuns <- MCInnerRuns
  Sources = {"None", "reader"}
  Raising = {"predicate", "progress", "reader"}
  UsesProgress = TRUE
  MaxInner = 1
  Catching = FALSE
INVARIANT PolarityKept
CHECK_DEADLOCK FALSE
