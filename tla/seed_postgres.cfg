\* The script on a database that checks foreign keys.
SPECIFICATION MCSpec
CONSTANTS
  Point = {p1, p2}
  FetchCall = {c1, c2}
  FeatureTtl = 2
  MaxEntries = 1
  Kid = {k1, k2, k3}
  KeyTtl = 2
  RequestTime = 1
  Client = {a1, a2, a3}
  MaxRequests = 2
  Window = 2
  MaxClients = 2
  Call = {q1, q2}
  AppUser = {u1}
  SeedUser = {"seed-planner", "seed-site"}
  Plan <- TwoProjects
  Generated = {g1, g2, g3, g4, g5}
  NoUser = NoUser
  NoId = NoId
  MaxCrashes = 2
INVARIANT SeedIsAccepted
CHECK_DEADLOCK FALSE
