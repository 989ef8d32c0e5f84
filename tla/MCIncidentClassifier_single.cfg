SPECIFICATION Spec
CONSTANTS
  NoItem = NoItem
  Keys = {k1, k2}
  Processes = {p1}
  OpenObservations = 2
  ResolveObservations = 2
  PageSize = 1
  MaxInstances = 2
  MaxRevision = 6
  MaxCrashes = 1
SYMMETRY Symmetry
INVARIANTS TypeOK HistoryComplete HistoryFollowsLifecycle NeverConflicts PublishedInOrder
PROPERTY RevisionsIncrease
