SPECIFICATION TrunkSpec
CONSTANTS
    VlanIds <- MCVlanIds
    ResetList <- MCResetList
    MaxLines = 4
INVARIANTS
    TrunkTypeOK
    ReplayMatchesDevice
    AnchoredListIsDeviceList
CHECK_DEADLOCK FALSE
PROPERTY OpsImplementDevice
