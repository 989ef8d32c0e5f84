SPECIFICATION Spec
CONSTANTS
  NoConsumer = NoConsumer
  NoRecord = NoRecord
  Partitions = {t1}
  Consumers = {c1, c2}
  Measurements = {m}
  Others = {o}
  Newcomers = {n}
  Malformed = {x}
  Poison = {b}
  MaxAttempts = 2
  MaxLog = 2
  MaxCrashes = 1
  MaxRebalances = 2
SYMMETRY Symmetry
INVARIANTS CommittedIsDone InOrder OneRowEach
PROPERTIES OffsetsNeverRegress ImplementsDurableDelivery
CHECK_DEADLOCK FALSE
