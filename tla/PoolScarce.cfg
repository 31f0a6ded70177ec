CONSTANTS
  Threads = {t1, t2, t3}
  Conns = {m1, m2}
  Objects = {o1}
  NULL = NULL
  MaxSignals = 1
  Shutdown = TRUE
SPECIFICATION Spec
INVARIANTS TypeOK Exclusive Accounted NoEmptyFront NoUseAfterClose
PROPERTIES WaitEnds
