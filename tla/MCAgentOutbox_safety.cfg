SPECIFICATION Spec
CONSTANTS
  NoEvent = NoEvent
  NoRecord = NoRecord
  Daemon = p1
  RetryBase = 1
  Events = {1, 2, 3}
  Collectors = {c1, c2}
  Publishers = {p1, p2}
  BatchSize = 2
  MaxUnits = 2
  WalSizes = {0, 1}
  RetryMax = 1
  RetryCap = 0
  Retention = 1
  Stamps = {1}
  MaxCrashes = 1
  MaxErrors = 1
  MaxClockSteps = 0
SYMMETRY Symmetry
INVARIANTS TypeOK SequenceNumbersUnique DeliveredIsInKafka 
PROPERTY ImplementsDurableDelivery
CHECK_DEADLOCK FALSE
