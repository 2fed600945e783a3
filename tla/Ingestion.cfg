SPECIFICATION Spec
CONSTANTS
    COURIER_TITLE_MAP <- MCNoTitles
    INPOST_SERVICE_TITLE_MAP <- MCNoTitles
    APACZKA_SERVICE_TITLE_MAP <- MCApaczkaTitles
    Process = {p1, p2}
    WebhookId = {w1}
    Histories <- MCHistories
    MaxIds = 2
    MaxRuns = 1
    MaxOps = 3
    MaxFaults = 2
INVARIANTS TypeOK OrderHasOneDraft LabelsAreKnown
PROPERTIES FinalStays
CHECK_DEADLOCK FALSE
SYMMETRY MCRequests
