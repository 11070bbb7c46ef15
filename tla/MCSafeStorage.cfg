SPECIFICATION Spec
CONSTANTS
  None = None
  Absent = Absent
  Names = {n1}
  Tasks = {t1, t2}
  SECONDS_PER_MINUTE = 1
  MIN_REFRESH_INTERVAL_SEC = 1
  REFRESH_INTERVAL_GRACE_PERIOD = 1
  U32 = 100
  MAX_SAT = 2
  MaxNow = 1
  MAX_SAFE_WRITE_RETRIES = 3
  MaxCalls = 5
  Data <- MCData
  Ops <- MCOps
  Outcomes <- MCOutcomes
  Results <- MCResults
  EmptyData <- MCEmptyData
INVARIANTS
  TypeOK
  RefusalsPaidFor
  ExhaustionNeedsContention
PROPERTIES
  ImplementsCell
CHECK_DEADLOCK FALSE
