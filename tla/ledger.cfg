\* Overlapping calls, with and without foreign keys.
SPECIFICATION Spec
CONSTANTS
  bridge = bridge
  school = school
  weight = weight
  exclusion = exclusion
  school001 = school001
  school002 = school002
  height = height
  NoFeature = NoFeature
  Placeholder = Placeholder
  Generated = Generated
  Call = {q1, q2, q3, q4}
  Feature = {bridge}
  Rule <- MCRule
  RuleTables <- BridgeTables
  SpecRules = {height}
  Inclusions <- AllSources
  Verdict = {"confirmed", "needs_review"}
  Databases = {TRUE, FALSE}
  MaxCopies = 2
  MaxInFlight = 3
SYMMETRY Symmetric
INVARIANTS
  NoFabricatedConfirmation
  NoFeatureLost
  NoPlaceholderLeft
  OnlyRacesCollide
  NoRiskMultiplied
PROPERTIES ConfirmTakesEffect
CHECK_DEADLOCK FALSE
