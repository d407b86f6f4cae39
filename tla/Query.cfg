\* Callbacks raise, cancel and use the cursor; none discards a pending exception.
SPECIFICATION Spec
CONSTANTS
  n1 = n1
  n2 = n2
  n3 = n3
  x = x
  y = y
  z = z
  xOrY = xOrY
  bad = bad
  local = local
  NONE = NONE
  MaxText = 6
  TextOf <- MCTextOf
  Finds <- MCFinds
  Undecodable = {z}
  Queries <- MCQueries
  BadPatterns = {bad}
  LengthOf <- MCLengthOf
  PrefixOf = {}
  Runs <- MCRuns
  InnerRuns <- MCInnerRuns
  Sources = {"None", "reader"}
  Raising = {"predicate", "progress", "reader"}
  UsesProgress = TRUE
  MaxInner = 1
  Catching = FALSE
INVARIANT TypeOK
INVARIANT RejectsMalformed
INVARIANT SettingsKept
INVARIANT AssertionsKept
INVARIANT PositionReported
INVARIANT ResultIsSelection
INVARIANT ExceptionReported
CHECK_DEADLOCK FALSE
