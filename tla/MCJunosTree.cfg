SPECIFICATION Spec
CONSTANTS
    Names <- MCNames
    Matches <- MCMatches
    Documents <- MCDocuments
INVARIANTS
    RenderingsConverge
    ChangesAreDisclosed
    LocalFirst
    ValueByPrecedence
CHECK_DEADLOCK FALSE
