SPECIFICATION Spec
CONSTANTS
    Process = {p1, p2}
    Ops <- MCAllOps
    Parcels = 2
    MaxCmds = 2
    MaxPickups = 2
    MaxRequests = 3
    MaxFaults = 2
INVARIANTS TypeOK ParcelsAreOrderedOnce PickupIsOne
 
SYMMETRY MCRequests
CHECK_DEADLOCK FALSE
