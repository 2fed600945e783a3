SPECIFICATION MCSpec
CONSTANTS
  Order <- MCOrder
  EditPlan <- MCEditPlan
  MaxRows = 2
  MaxParcels = 6
  MaxEdits = 2
  MaxParcelFaults = 1
  Invoice <- MCInvoice
  Wz <- MCWz
  Delivery <- MCDelivery
  PageSize = 2
  MaxDocs = 3
  MaxAudits = 1
  Document <- MCDocument
  MaxUploads = 3
  MaxRuns = 2
  MaxInputFaults = 1
  Shipped <- MCShipped
  MaxBatch = 2
  MaxRequests = 2
  MaxCycles = 3
  MaxAttempts = 2
  MaxDeskFaults = 1
  Setting <- MCSetting
  MaxHealthFaults = 2
  MaxReports = 2
INVARIANTS ShippedAsPlanned  UploadsAreTaken DeskIsTrue HealthIsTrue
CHECK_DEADLOCK FALSE
