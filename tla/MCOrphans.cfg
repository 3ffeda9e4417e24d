SPECIFICATION GraphSpec
CONSTANTS
    ObjectNames <- MCNames
    NoVrf <- NoVrfHere
    Configurations <- MCConfigurations
INVARIANT OrphansAreUnreferenced
CHECK_DEADLOCK FALSE
