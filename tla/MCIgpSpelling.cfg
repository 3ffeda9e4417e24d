SPECIFICATION Spec
CONSTANTS
  Keys = {"1"}
  Spellings = {"decimal", "dotted"}
  Values = {"v1"}
  Scripts <- TwoSpellings
INVARIANTS RefreshSuppressesRemoval
CHECK_DEADLOCK FALSE
