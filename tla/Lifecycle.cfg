SPECIFICATION FairSpec
CONSTANTS
  Tasks = {t1, t2}
  Notifiers = {t1, t2, 1, 2}
  Listeners = {l1}
  CHANNEL_CAPACITY = 1
  MAX_ATTEMPTS = 3
  ListenToEvents = TRUE
  ConfiguredKey = FALSE
  MaxSessions = 2
  MaxCalls = 4
  MaxFaults = 1
INVARIANTS
  TypeOK
  StoppedLeavesNothing
  DisconnectedIsHeard
  WalletKeyKept
  RemovedHearsNothing
PROPERTIES
  DeafRuntimeStays
  CallsReturn
  StoppedLoopsEnd
CHECK_DEADLOCK FALSE
