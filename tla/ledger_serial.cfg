\* Calls served one after the other; two features, a light vehicle.
SPECIFICATION Spec
CONSTANTS
  bridge = bridge
  school = school
  weight = weight
  exclusion = exclusion
  school001 = school001
  school002 = school002
  height = height
  NoFeature = NoFeature
  Placeholder = Placeholder
  Generated = Generated
  Call = {q1, q2, q3, q4}
  Feature = {bridge, school}
  Rule <- MCRule
  RuleTables <- WindowTables
  SpecRules = {height}
  Inclusions <- AnySources
  Verdict = {"confirmed", "needs_review"}
  Databases = {FALSE}
  MaxCopies = 2
  MaxInFlight = 1
SYMMETRY Symmetric
INVARIANTS ConfirmedHasComment
PROPERTIES ConfirmationSurvives
CHECK_DEADLOCK FALSE
