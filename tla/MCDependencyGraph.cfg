SPECIFICATION GraphSpec
CONSTANTS
    ObjectNames <- MCNames
    NoVrf <- NoVrfHere
    Configurations <- MCConfigurations
INVARIANTS
    EveryLinkDrawn
    OrphansAreUnlinked
CHECK_DEADLOCK FALSE
