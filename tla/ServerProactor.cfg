CONSTANTS
  Conns = {c1, c2}
  Fds = {f1, f2}
  Workers = {w1, w2}
  Main = Main
  None = None
  MaxRequests = 2
  SemMax = 3
  MAX_FD = 2
  Reactor = FALSE
  ET = FALSE
  ListenET = FALSE
  Outcomes = {"keep", "close"}
  Signals = FALSE
  SlowWork = FALSE
  Chunks = 2
  Longest = 2
  READ_BUFFER_SIZE = 2
  Parts = 2
  MaxAsked = 1
SPECIFICATION Spec
INVARIANTS TypeOK OneThreadPerConn ResponseToRequester NoLeak CountExact NotStranded
SYMMETRY Symmetry
