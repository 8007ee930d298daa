\* Instructions of all guests.
SPECIFICATION DecodeSpec
CONSTANT Inputs <- MCInputs
INVARIANTS
    OffsetsExact
    MasksDisjoint
CHECK_DEADLOCK FALSE
