SPECIFICATION Spec
CONSTANTS
  Peers = {p1}
  Groups = {G}
  Routes = {n1}
  Values = {v1, v2}
  Scripts <- MCScripts
  Baselines <- MCBaselines
INVARIANTS
  SessionsAreDevice
  GroupsAreDevice
  MembersAreDevice
CHECK_DEADLOCK FALSE
