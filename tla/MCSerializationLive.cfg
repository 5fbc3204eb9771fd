SPECIFICATION Spec
CONSTANTS
  va = va
  vb = vb
  a1 = a1
  a2 = a2
  b1 = b1
  None = None
  Cmd = {a1, b1}
  Vdev = {va, vb}
  vdevOf <- VdevOf
  Families <- AllBlocking
  Urgent = {a1}
  Ctx = {t1, mc}
  Mc = mc
  MaxVdevPending = 1
  CounterMod = 16
  MaxReq = 2
  MaxCancel = 2
  MaxWaiting = 1
CHECK_DEADLOCK FALSE
PROPERTY EveryCommandReleased
