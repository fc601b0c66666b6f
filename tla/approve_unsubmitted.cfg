\* Sent back, then approved, never evaluated.
SPECIFICATION Spec
CONSTANTS
  Request = {q1, q2, q3, q4}
  RouteType = {shortest}
  Unloaded = Unloaded
  MaxInFlight = 1
  MaxLost = 0
SYMMETRY Symmetric
INVARIANT OnlySubmittedApproved
CHECK_DEADLOCK FALSE
