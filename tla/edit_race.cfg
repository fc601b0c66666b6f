\* A PATCH that overlaps the approval.
SPECIFICATION FairSpec
CONSTANTS
  Request = {q1, q2, q3, q4, q5}
  RouteType = {shortest}
  Unloaded = Unloaded
  MaxInFlight = 2
  MaxLost = 0

PROPERTY ClosedProjectNotEdited
CHECK_DEADLOCK FALSE
