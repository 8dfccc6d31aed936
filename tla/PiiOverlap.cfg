SPECIFICATION Spec
CONSTANTS
    Length = 5
    Overlapping = TRUE
INVARIANT PositionsPreserved
CHECK_DEADLOCK FALSE
