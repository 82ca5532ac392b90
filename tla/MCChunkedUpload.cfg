CONSTANTS
  Name = {n1, n2}
  None = None
  MaxChunks = 3
  MaxFile = 3
  MaxCase = 4
  MaxStarts = 2
  CancelPoints = {"start", "append", "rename", "replace"}
  MaxCancels = 2
  MaxCrashes = 1
SPECIFICATION Spec
INVARIANTS UncancelledFileComplete CaseQuota
PROPERTY LateThreadsNeverOverwrite
CHECK_DEADLOCK FALSE
