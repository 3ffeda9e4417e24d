SPECIFICATION Spec
CONSTANTS
    Ifaces <- MCIfaces
    Vrfs <- MCVrfs
    Steps <- MCSteps
    Inputs <- MCInputs
INVARIANTS
    ParsedValueWins
    NothingInvented
    PassivityIsTheFirstWord
    NoNegationVanishes
    ConsumedIsNotFlagged
PROPERTY ParseEnds
CHECK_DEADLOCK FALSE
