SPECIFICATION Spec
CONSTANTS
    OperatingSystems = {"ios", "nxos", "eos", "ios_xr", "junos"}
    Definitions <- MCDefinitions
    NativeRemovals <- MCNativeRemovals
    SharedRemovals <- MCSharedRemovals
    LegacyStrings <- MCLegacyStrings
    XrStrings <- MCXrStrings
    MaxLines = 2
INVARIANT ShimIsPreNative
CHECK_DEADLOCK FALSE
