CONSTANTS
  v1 = v1
  v2 = v2
  v3 = v3
  t1 = t1
  t2 = t2
  f1 = f1
  f2 = f2
  w1 = w1
  w2 = w2
  None = None
  Closer = Closer
  Signal = Signal
  Threads = {t1, t2}
  VMs = {v1, v2, v3}
  Funcs = {f1}
  Workers = {w1, w2}
  MaxTasks = 2
  MaxInvalidations = 0
SPECIFICATION Spec
CHECK_DEADLOCK FALSE
SYMMETRY Interchangeable
INVARIANTS TypeOK RoundTripIsSafe StopReachesWorkers CompilesAreAnswered
