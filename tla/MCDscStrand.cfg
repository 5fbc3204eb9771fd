CONSTANTS
  d = d p1 = p1 v1 = v1 v2 = v2 t1 = t1 t2 = t2 t3 = t3
  NULL = NULL
  Driver = d
  Psocs = {p1}
  Vdevs = {v1, v2}
  PsocOf <- OnePsoc
  Threads = {t1, t2, t3}
  DoneMax = 2
SPECIFICATION SteadySpec
INVARIANTS NoStrandedWaiter
