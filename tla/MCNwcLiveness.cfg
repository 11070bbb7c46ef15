SPECIFICATION FairSpec
CONSTANTS
  None = None
  n1 = n1
  i1 = i1
  i2 = i2
  Names = {n1}
  Callers = {c1, c2}
  Handlers = {h1}
  Invoices = {i1}
  Parsable = {i1}
  SECONDS_PER_MINUTE = 1
  MIN_REFRESH_INTERVAL_SEC = 1
  REFRESH_INTERVAL_GRACE_PERIOD = 1
  U32 = 1000
  MAX_SAT = 1000
  CHANNEL_CAPACITY = 1
  ListenToEvents = TRUE
  MaxNow = 4
  MaxHostCalls = 2
  MaxFaults = 0
  MaxCrashes = 0
  InvoiceMsat <- OneInvoiceMsat
  Requests <- PayOne
  AddRequests <- AddExpiring
  EditRequests <- AnyEdit
PROPERTIES
  EventuallyServed
  ExpiredDeleted
  HostCallsReturn
CHECK_DEADLOCK FALSE
