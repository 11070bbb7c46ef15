SPECIFICATION Spec
CONSTANTS
  None = None
  n1 = n1
  i1 = i1
  i2 = i2
  Names = {n1}
  Callers = {c1}
  Handlers = {h1, h2}
  Invoices = {i1, i2}
  Parsable = {i1, i2}
  SECONDS_PER_MINUTE = 1
  MIN_REFRESH_INTERVAL_SEC = 1
  REFRESH_INTERVAL_GRACE_PERIOD = 0
  U32 = 1000
  MAX_SAT = 1000
  CHANNEL_CAPACITY = 1
  ListenToEvents = TRUE
  MaxNow = 0
  MaxHostCalls = 2
  MaxFaults = 1
  MaxCrashes = 1
  InvoiceMsat <- MCInvoiceMsat
  Requests <- PayBoth
  AddRequests <- AddRenewing
  EditRequests <- NoEdits
SYMMETRY HandlerSymmetry
INVARIANTS
  PaidAmountExact
  PaidAmountCovers
  SuccessRecorded
CHECK_DEADLOCK FALSE
