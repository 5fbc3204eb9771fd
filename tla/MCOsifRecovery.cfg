CONSTANTS
  d = d p = p v1 = v1 v2 = v2 t1 = t1 t2 = t2 t3 = t3 pf = pf
  NULL = NULL
  Driver = d
  Psocs = {p}
  Vdevs = {v1}
  PsocOf <- OneVdev
  Threads = {pf, t1, t2}
  DoneMax = 1
  Initial = {}
  Platform = pf
  Flows = {"op", "user", "wait", "add", "del", "idle", "mode", "ssr"}
SPECIFICATION UndisturbedSpec
CHECK_DEADLOCK FALSE
PROPERTIES RecoveryCompletes
