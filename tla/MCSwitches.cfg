SPECIFICATION RuleSpec
CONSTANTS
  Rules <- MCRules
  Family <- MCFamily
  Table <- MCTable
  Legacy <- MCLegacy
  None = none
  Scopes <- MCScopes
  MaxEnabled = 2
  MaxUngated = 1
INVARIANT SwitchedOffIsSilent
CHECK_DEADLOCK FALSE
