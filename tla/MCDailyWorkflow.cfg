SPECIFICATION FairSpec
CONSTANTS
  NoSession = NoSession
  Sessions = {s1, s2}
  LastDay = 2
  History <- Sparse
  Requests <- FewRequests
  Commands <- FewCommands
  MaximumDays = 2
  Hours = 1
  StaleAfter = 0
  Retries = 1
  MaxActivity = 1
  MaxStarts = 2
  MaxCommands = 1
  MaxFaults = 1
INVARIANTS NoWriteConflict  MismatchMeansNewData
PROPERTIES  RunSettles LockIsReleased
CHECK_DEADLOCK FALSE
