SPECIFICATION Spec
CONSTANTS
  None = None
  n1 = n1
  i1 = i1
  i2 = i2
  Names = {n1}
  Callers = {c1}
  Handlers = {h1, h2}
  Invoices = {i1, i2}
  Parsable = {i1}
  SECONDS_PER_MINUTE = 1
  MIN_REFRESH_INTERVAL_SEC = 1
  REFRESH_INTERVAL_GRACE_PERIOD = 0
  U32 = 1000
  MAX_SAT = 1000
  CHANNEL_CAPACITY = 1
  ListenToEvents = TRUE
  MaxNow = 1
  MaxHostCalls = 2
  MaxFaults = 0
  MaxCrashes = 0
  InvoiceMsat <- OneAmountless
  Requests <- AnyRequest
  AddRequests <- AddRenewing
  EditRequests <- EditsOfSpending
SYMMETRY HandlerSymmetry
INVARIANTS
  TypeOK
  UsedWithinPaid
PROPERTIES
  NoResurrection
  PaymentsWithinTerms
CHECK_DEADLOCK FALSE
