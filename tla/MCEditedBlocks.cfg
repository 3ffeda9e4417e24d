SPECIFICATION Spec
CONSTANTS
  Keys = {"k1", "k2"}
  Values = {"v1", "v2"}
  Scripts <- MCScripts
INVARIANTS EditsAreDevice ResetsComeFirst
CHECK_DEADLOCK FALSE
