SPECIFICATION Spec
CONSTANTS
    Process = {p1, p2}
    Ops = {"execute"}
    Parcels = 2
    MaxCmds = 3
    MaxPickups = 1
    MaxRequests = 2
    MaxFaults = 0
INVARIANT ClaimKeepsOut
SYMMETRY MCRequests
CHECK_DEADLOCK FALSE
