SPECIFICATION TrunkSpec
CONSTANTS
    VlanIds <- MCVlanIds
    ResetList <- MCResetList
    MaxLines = 4
INVARIANT ReplayIsExact
CHECK_DEADLOCK FALSE
