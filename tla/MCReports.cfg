SPECIFICATION Spec
CONSTANTS
  Slots <- MCSlots
  Filters <- MCFilters
  Workloads <- MCWorkloads
  Limits = {1, 2}
  MaxCount = 1
  NoCursor = NoCursor
INVARIANTS WalkGoesForward NothingIsSkipped OutputIsOneSnapshot PublishedSurvives SuccessIsFresh
CHECK_DEADLOCK FALSE
