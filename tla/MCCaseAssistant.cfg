SPECIFICATION FairSpec
CONSTANTS
  Detected = {"d1"}
  Written = {"m1"}
  Proposed = {"a1", "a2"}
  Same <- MCSame
  Keep = 1
  Fit = 1
  MaxTools = 1
  Limits <- MCLimits
INVARIANTS VerdictsOnTheirFindings MemoMatchesCursor
PROPERTY AnalysisEnds
CHECK_DEADLOCK FALSE
