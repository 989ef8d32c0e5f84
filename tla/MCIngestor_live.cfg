SPECIFICATION FairSpec
CONSTANTS
  NoConsumer = NoConsumer
  NoRecord = NoRecord
  Partitions = {t1}
  Consumers = {c1}
  Measurements = {m}
  Others = {}
  Newcomers = {}
  Malformed = {x}
  Poison = {}
  MaxAttempts = 2
  MaxLog = 2
  MaxCrashes = 1
  MaxRebalances = 1
PROPERTY EveryRecordIsCommitted
CHECK_DEADLOCK FALSE
