SPECIFICATION Spec
CONSTANTS
    Names <- MCNames
    Matches <- MCMatches
    Documents <- Absent
INVARIANT WildcardNeverCreates
CHECK_DEADLOCK FALSE
