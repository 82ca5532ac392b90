SPECIFICATION Spec
CONSTANTS
  Row <- MCRow
  Proc <- MCProc
  Key <- MCKey
  Gated = {"logon"}
  Table = {"used"}
  Item = {"m"}
  Name = {"file", "exe", "host"}
  Rule <- MCRule
  RuleOf <- MCRuleOf
  Emits <- MCEmits
  Level <- MCLevel
  Trigger <- MCTrigger
  Entity <- MCEntity
  Named <- MCNamed
  Mentions <- MCMentions
  Child <- MCChild
  Parsed <- MCParsed
  Listing <- MCListing
  Toggled = {"r2"}
  Switched = {"r2"}
  Deleted = {"drop"}
  Marked = {"dropped", "m"}
  MaxId = 2
INVARIANTS OverridesHold ManualImpactOwned RebuildForgets
PROPERTY RunGrades
CHECK_DEADLOCK FALSE
