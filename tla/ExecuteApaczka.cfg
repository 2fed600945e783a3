SPECIFICATION Spec
CONSTANTS
    Executor = {e1, e2}
    Confirmer = {c1}
    NumParcels = 1
    Courier = "apaczka"
    MaxRuns = 3
    MayCrash = TRUE
    MayFault = TRUE
    MayLose = TRUE
SYMMETRY Symmetry
INVARIANT ErrorIsQueued
PROPERTY CreatedIsFinal
CHECK_DEADLOCK FALSE
