SPECIFICATION FairSpec
CONSTANTS
    Executor = {e1, e2}
    Confirmer = {c1}
    NumParcels = 2
    Courier = "inpost"
    MaxRuns = 2
    MayCrash = FALSE
    MayFault = FALSE
    MayLose = TRUE
PROPERTIES ClaimIsReleased PendingResolves
CHECK_DEADLOCK FALSE
