SPECIFICATION Spec
CONSTANTS
    Request = {r1, r2}
    Collection = {"sales"}
    Prepared = TRUE
    MaxOps = 4
    MayCrash = TRUE
    MayFault = TRUE
    MayOverrun = FALSE
    MayRefuse = FALSE
SYMMETRY Symmetry
INVARIANTS
    TypeOK
    ClaimExclusive
    MailIsOnRecord
    DoneIsMailed
    MailIsReviewed
CHECK_DEADLOCK FALSE
