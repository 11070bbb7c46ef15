SPECIFICATION Spec
CONSTANTS
  None = None
  n1 = n1
  i1 = i1
  i2 = i2
  Names = {n1}
  Callers = {c1, c2}
  Handlers = {h1}
  Invoices = {i1}
  Parsable = {i1}
  SECONDS_PER_MINUTE = 1
  MIN_REFRESH_INTERVAL_SEC = 1
  REFRESH_INTERVAL_GRACE_PERIOD = 1
  U32 = 1000
  MAX_SAT = 1000
  CHANNEL_CAPACITY = 1
  ListenToEvents = TRUE
  MaxNow = 2
  MaxHostCalls = 3
  MaxFaults = 1
  MaxCrashes = 0
  InvoiceMsat <- OneInvoiceMsat
  Requests <- PayOne
  AddRequests <- AddEither
  EditRequests <- EditsOfTerms
SYMMETRY CallerSymmetry
INVARIANTS
  ServedAsPersisted
  RevokedNotServed
  RefreshScheduled
PROPERTIES
  ImplementsRegistry
CHECK_DEADLOCK FALSE
