SPECIFICATION Spec
CONSTANTS
    Executor = {e1, e2}
    Confirmer = {c1}
    NumParcels = 2
    Courier = "inpost"
    MaxRuns = 2
    MayCrash = TRUE
    MayFault = TRUE
    MayLose = TRUE
SYMMETRY Symmetry
INVARIANTS TypeOK ClaimExclusive DispatchedOnce NoDuplicateWithoutCause PaidIsRecorded CreatedIsComplete
PROPERTIES LabelsAreKept ImplementsLedger
CHECK_DEADLOCK FALSE
