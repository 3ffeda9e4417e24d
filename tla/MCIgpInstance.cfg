SPECIFICATION Spec
CONSTANTS
  Keys = {"0", "1"}
  Spellings = {"decimal", "dotted"}
  Values = {"v1", "v2"}
  Scripts <- MCScripts
INVARIANTS ReplayIsDevice NoWithdrawalLost
CHECK_DEADLOCK FALSE
