CONSTANTS
  r1 = r1
  r2 = r2
  f1 = f1
  Request = {r1, r2, r3}
  File = {f1, m1}
  MemoryFile = {m1}
  NoGen = NoGen
  NoTask = NoTask
  Kinds = {"upload"}
  Faults = {}
  MaxCrashes = 1
  Task <- MCTask
SPECIFICATION ScenarioSpec
INVARIANTS ReadyCaseIsAssessed NoBusyStatusAtRest
PROPERTY PairOperationsEnd
CHECK_DEADLOCK FALSE
