\* Overlapping calls, one of which may be cut short.
SPECIFICATION Spec
CONSTANTS
  Request = {q1, q2, q3, q4, q5}
  RouteType = {shortest}
  Unloaded = Unloaded
  MaxInFlight = 3
  MaxLost = 1
SYMMETRY Symmetric
INVARIANTS
  ReviewHasEvidence
  GenerationsContiguous
  StatusAccountable
  OneBatchPerGeneration
PROPERTIES
  LoneEditKeptOut
  LoneBatchIsListed
  LifecycleSpec
CHECK_DEADLOCK FALSE
