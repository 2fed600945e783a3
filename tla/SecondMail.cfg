SPECIFICATION Spec
CONSTANTS
    Request = {r1, r2}
    Collection = {"sales"}
    Prepared = TRUE
    MaxOps = 4
    MayCrash = TRUE
    MayFault = FALSE
    MayOverrun = FALSE
    MayRefuse = FALSE
INVARIANT MailOnce
CHECK_DEADLOCK FALSE
