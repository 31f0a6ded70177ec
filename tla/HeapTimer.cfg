CONSTANTS
  Ids = {f1, f2, f3, f4}
  Timeout = 1
  MaxNow = 3
  ClockSteps = 0
  Stray = 0
SPECIFICATION Spec
INVARIANTS TypeOK RefExact TopEarliest
PROPERTIES ImplementsService OperationsEnd
