SPECIFICATION FairSpec
CONSTANTS
    Request = {r1, r2}
    Collection = {"sales"}
    Prepared = TRUE
    MaxOps = 3
    MayCrash = TRUE
    MayFault = TRUE
    MayOverrun = TRUE
    MayRefuse = TRUE
INVARIANTS OneMail WaiversLapse
PROPERTY PeriodIsFreed
CHECK_DEADLOCK FALSE
