SPECIFICATION Spec
CONSTANTS
  NoItem = NoItem
  Keys = {k1}
  Processes = {p1, p2}
  OpenObservations = 2
  ResolveObservations = 2
  PageSize = 2
  MaxInstances = 2
  MaxRevision = 4
  MaxCrashes = 1
SYMMETRY Symmetry
PROPERTY ImplementsDurableDelivery
