SPECIFICATION TurnsSpec
CONSTANTS
  x = x
  p = p
  Op <- MCOp
  Key <- MCKey
  Family <- MCKey
  Probe = {p}
  Evidence = {e}
  Failure = {f}
  None = None
  MaxTurns = 2
  Extension = 1
  MaxBudget = 3
INVARIANTS ExecutedAtMostOnce OnlyReportsPublished
PROPERTY TaskRunsDown
CHECK_DEADLOCK FALSE
