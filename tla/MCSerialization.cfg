SPECIFICATION Spec
CONSTANTS
  va = va
  vb = vb
  a1 = a1
  a2 = a2
  b1 = b1
  None = None
  Cmd = {a1, b1}
  Vdev = {va, vb}
  vdevOf <- VdevOf
  Families <- Uniform
  Urgent = {}
  Ctx = {t1, mc}
  Mc = mc
  MaxVdevPending = 1
  CounterMod = 16
  MaxReq = 3
  MaxCancel = 1
  MaxWaiting = 2
CHECK_DEADLOCK FALSE
SYMMETRY Exchange
INVARIANTS
  TypeOK
  BlockingAlone
  ReleasedOnce
  ActivationProtected
  ActiveCovered
  NoStranded
