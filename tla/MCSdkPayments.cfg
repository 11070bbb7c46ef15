SPECIFICATION FairSpec
CONSTANTS
  None = None
  i1 = i1
  I1 = I1
  broken = broken
  Handlers = {h1, h2}
  Senders = {h1, h2}
  Invoices = {i1, I1, broken}
  bolt11 <- Bolt11
  ZapRequests = {r1, r2}
  WithPTag = {r1}
  Connections = {c1}
  ZAP_TRACKING_EXPIRY_SEC = 1
  MaxNow = 1
  MaxTracked = 2
  MaxFaults = 1
INVARIANTS
  TypeOK
  AnnouncedIsReceipted
  DroppedHearsNothing
PROPERTIES
  ForgottenOnlyIfReceipted
  OneReceiptPerTask
  CacheCatchesUp
CHECK_DEADLOCK FALSE
