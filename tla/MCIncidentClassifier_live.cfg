SPECIFICATION FairSpec
CONSTANTS
  NoItem = NoItem
  Keys = {k1, k2}
  Processes = {p1}
  OpenObservations = 2
  ResolveObservations = 2
  PageSize = 2
  MaxInstances = 1
  MaxRevision = 6
  MaxCrashes = 1
PROPERTIES RevisionsArePublished IncidentsResolve
