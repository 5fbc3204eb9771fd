CONSTANTS
  p1 = p1 p2 = p2 m1 = m1 m2 = m2 m3 = m3
  NULL = NULL
  Posters = {p1}
  N = 2
  Slots = {m1, m2}
  MaxMessages = 2
  TokenMax = 2
  Faults = {"open"}
SPECIFICATION FairSpec
INVARIANTS SuspendFlagTrue SleeperHasResumer
PROPERTIES CloseReturns PostedHandled
