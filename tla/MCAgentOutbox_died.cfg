SPECIFICATION FairSpec
CONSTANTS
  NoEvent = NoEvent
  NoRecord = NoRecord
  Daemon = p1
  RetryBase = 1
  Events = {1}
  Collectors = {c1}
  Publishers = {p1}
  BatchSize = 1
  MaxUnits = 1
  WalSizes = {0}
  RetryMax = 1
  RetryCap = 0
  Retention = 0
  Stamps = {1}
  MaxCrashes = 0
  MaxErrors = 1
  MaxClockSteps = 0
PROPERTY EveryRowIsDelivered
CHECK_DEADLOCK FALSE
