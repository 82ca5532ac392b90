CONSTANTS
  Request = {r1, r2, r3}
  File = {f1, m1}
  MemoryFile = {m1}
  NoGen = NoGen
  NoTask = NoTask
  Kinds = {"upload", "delete", "reingest", "analysis", "detect", "deleteCase"}
  Faults = {"reject", "swap", "parse", "detect", "purge", "analysis"}
  MaxCrashes = 0
  Task <- MCTask
SPECIFICATION OperationsSpec
INVARIANTS RowsMatchEvidence StaleFindingsOwed DeletedCaseStaysEmpty
PROPERTY EvidenceSurvives
CHECK_DEADLOCK FALSE
