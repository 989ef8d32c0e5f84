SPECIFICATION FairSpec
CONSTANTS
  NoEvent = NoEvent
  NoRecord = NoRecord
  Daemon = p1
  RetryBase = 1
  Events = {1, 2}
  Collectors = {c1}
  Publishers = {p1}
  BatchSize = 1
  MaxUnits = 2
  WalSizes = {0}
  RetryMax = 2
  RetryCap = 1
  Retention = 0
  Stamps = {1, 2}
  MaxCrashes = 1
  MaxErrors = 0
  MaxClockSteps = 1
PROPERTY EveryRowIsDelivered
CHECK_DEADLOCK FALSE
