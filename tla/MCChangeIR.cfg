SPECIFICATION Spec
CONSTANTS
    OperatingSystems = {"ios", "nxos", "eos", "ios_xr", "junos"}
    Definitions <- MCDefinitions
    NativeRemovals <- MCNativeRemovals
    SharedRemovals <- MCSharedRemovals
    LegacyStrings <- MCLegacyStrings
    XrStrings <- MCXrStrings
    MaxLines = 3
INVARIANTS
    ObjectsCreatedOnce
    IntentSurvives
    DeletionsCarriedOnce
    ShimDeletions
    ShimWholeObjects
CHECK_DEADLOCK FALSE
