\* A vehicle of 44 t or more, one call at a time.
SPECIFICATION Spec
CONSTANTS
  bridge = bridge
  school = school
  weight = weight
  exclusion = exclusion
  school001 = school001
  school002 = school002
  height = height
  NoFeature = NoFeature
  Placeholder = Placeholder
  Generated = Generated
  Call = {q1, q2, q3}
  Feature = {bridge}
  Rule <- MCRule
  RuleTables <- HeavyBridgeTables
  SpecRules = {height}
  Inclusions <- AllSources
  Verdict = {"confirmed", "needs_review"}
  Databases = {FALSE}
  MaxCopies = 2
  MaxInFlight = 1
INVARIANTS NoRiskMultiplied
CHECK_DEADLOCK FALSE
