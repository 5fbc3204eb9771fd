SPECIFICATION Spec
CONSTANTS
  v1 = v1 p1 = p1 p2 = p2 p3 = p3 hdd = hdd mc = mc kw = kw r1 = r1 r2 = r2
  NULL = NULL
  Vdevs = {v1}
  Peers = {p1, p2}
  Hdd = hdd
  Mc = mc
  Worker = kw
  Readers = {r1, r2}
  Softirq = {r2}
  Delayed = TRUE
  MaxPeers = 3
  MaxVdevs = 2
CHECK_DEADLOCK FALSE
SYMMETRY Symmetry
INVARIANTS
  TypeOK UsedIsAlive CountExact DestroyedOnce NoSelfDeadlock NoLeak
