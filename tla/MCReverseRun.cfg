SPECIFICATION Spec
CONSTANTS
  Task = {t1, t2}
  NoTask = NoTask
  Client = {c1, c2}
  NoClient = NoClient
  MaxRuns = 2
  MaxTurns = 1
  Explored = {}
INVARIANTS OneWorker BusyIsWorked StopReachesWork SignatureCoversReport
SYMMETRY Slots
CHECK_DEADLOCK FALSE
