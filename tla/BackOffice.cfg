SPECIFICATION MCSpec
CONSTANTS
  web = web
  job = job
  web1 = web1
  cron = cron
  Process = {web, job}
  Client = {web1, cron}
  ProcessOf <- MCProcessOf
  MaxGrants = 2
  MaxTokenFaults = 1
  Worker = {w1, w2}
  MaxAttempts = 2
  MaxJobs = 3
  MaxInvoiceFaults = 2
  Operator = {o1, o2}
  Notice = {n1}
  MaxMoves = 7
  MaxDays = 2
  MaxDamageFaults = 1
  Order_ = {1, 2, 3, 4}
  Customer <- MCCustomer
  Parcel = {1, 2, 3, 4, 5}
  Waybill <- MCWaybill
  MaxScans = 2
  MaxRounds = 14
  MaxBacklog = 4
  Recent = 1
  Turn_ = 1
  MaxCorrFaults = 1
SYMMETRY MCOperators
INVARIANTS TokenIsGood SettledOnce
PROPERTIES InvoicedOnce 
CHECK_DEADLOCK FALSE
