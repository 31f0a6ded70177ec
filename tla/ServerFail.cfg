CONSTANTS
  Conns = {c1, c2, c3}
  Fds = {f1}
  Workers = {w1, w2}
  Main = Main
  None = None
  MaxRequests = 2
  SemMax = 3
  MAX_FD = 4
  Reactor = FALSE
  ET = TRUE
  ListenET = FALSE
  Outcomes = {"keep", "close", "fail"}
  Signals = FALSE
  SlowWork = FALSE
  Chunks = 1
  Longest = 1
  READ_BUFFER_SIZE = 4
  Parts = 1
  MaxAsked = 1
SPECIFICATION Spec
INVARIANTS FailureContained
SYMMETRY Symmetry
