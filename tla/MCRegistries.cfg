CONSTANTS
  Case = {c1, c2}
  Thread = {t1, t2, t3}
  NoThread = NoThread
  Faults = {"schema", "rmtree"}
  MaxCrashes = 1
  Rules <- MCRules
  Family <- MCFamily
  Table <- MCTable
  Legacy <- MCLegacy
  None = none
  Scopes <- MCScopes
  MaxEnabled = 2
  MaxUngated = 1
SPECIFICATION PartSpec
INVARIANTS CreatedCaseStaysWhole ListedCaseWasCreated QuietLoadIsExact RulesStayApart
CHECK_DEADLOCK FALSE
