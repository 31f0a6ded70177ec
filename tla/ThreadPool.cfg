CONSTANTS
  Workers = {w1, w2, w3}
  Requests = {r1, r2}
  MaxRequests = 3
  SemMax = 4
  None = None
SPECIFICATION Spec
INVARIANTS TypeOK NoLostWakeup
PROPERTIES EveryRequestRuns
