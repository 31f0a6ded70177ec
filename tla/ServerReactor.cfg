CONSTANTS
  Conns = {c1, c2}
  Fds = {f1}
  Workers = {w1, w2}
  Main = Main
  None = None
  MaxRequests = 1
  SemMax = 2
  MAX_FD = 4
  Reactor = TRUE
  ET = FALSE
  ListenET = TRUE
  Outcomes = {"keep", "close"}
  Signals = TRUE
  SlowWork = FALSE
  Chunks = 2
  Longest = 2
  READ_BUFFER_SIZE = 3
  Parts = 1
  MaxAsked = 2
SPECIFICATION Spec
INVARIANTS ServedRightly
SYMMETRY Symmetry
