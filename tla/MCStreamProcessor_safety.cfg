SPECIFICATION Spec
CONSTANTS
  Agents = {a, b}
  Registered = {a}
  Sizes = {1, 3}
  MaxTime = 2
  Delay = 1
  MaxRows = 3
  MaxLog = 3
  MaxCopies = 1
  MaxErrors = 1
  MaxCrashes = 1
INVARIANTS  NestedWindows RejectsKept LedgerFollowsCheckpoint
PROPERTIES CountsGrow
CHECK_DEADLOCK FALSE
