SPECIFICATION Spec
CONSTANTS
  Peers = {p1}
  Groups = {G}
  Routes = {n1}
  Values = {v1, v2}
  Scripts <- Readds
  Baselines <- MCBaselines
INVARIANTS
  ReaddedIsDevice
CHECK_DEADLOCK FALSE
