CONSTANTS
  Conns = {c1, c2}
  Fds = {f1, f2}
  Workers = {w1}
  Main = Main
  None = None
  MaxRequests = 1
  SemMax = 2
  MAX_FD = 1
  Reactor = FALSE
  ET = TRUE
  ListenET = FALSE
  Outcomes = {"keep", "close"}
  Signals = FALSE
  SlowWork = TRUE
  Chunks = 1
  Longest = 1
  READ_BUFFER_SIZE = 2
  Parts = 1
  MaxAsked = 1
SPECIFICATION Spec
INVARIANTS OverloadContained
PROPERTIES ConnReaped
