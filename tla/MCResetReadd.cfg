SPECIFICATION Spec
CONSTANTS
  Keys = {"k1"}
  Values = {"v1"}
  Scripts <- MCResets
INVARIANTS ReaddRepopulates
CHECK_DEADLOCK FALSE
