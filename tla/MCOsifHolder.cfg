CONSTANTS
  d = d p = p v1 = v1 v2 = v2 t1 = t1 t2 = t2 t3 = t3 pf = pf
  NULL = NULL
  Driver = d
  Psocs = {p}
  Vdevs = {v1, v2}
  PsocOf <- TwoVdevs
  Threads = {pf, t1, t2}
  DoneMax = 2
  Initial = {v1}
  Platform = pf
  Flows = {"del", "wait"}
SPECIFICATION OsifSpec
CHECK_DEADLOCK FALSE
SYMMETRY Symmetry
INVARIANTS HolderNodeLives
