CONSTANTS
    Half <- McHalf
    MaxCuts <- McMaxCuts
    Width <- McWidth
    Calls <- McCalls
SPECIFICATION Spec
INVARIANTS TypeOK BoxHoldsPosition CentreReturns  CellsFormGrid NeighbourTouches
CHECK_DEADLOCK FALSE
