\* A confirmation between the two reads of an evaluation.
SPECIFICATION FairSpec
CONSTANTS
  bridge = bridge
  school = school
  weight = weight
  exclusion = exclusion
  school001 = school001
  school002 = school002
  height = height
  NoFeature = NoFeature
  Placeholder = Placeholder
  Generated = Generated
  Call = {q1, q2, q3}
  Feature = {bridge}
  Rule <- MCRule
  RuleTables <- BridgeTables
  SpecRules = {height}
  Inclusions <- AllSources
  Verdict = {"confirmed", "needs_review"}
  Databases = {TRUE}
  MaxCopies = 2
  MaxInFlight = 2
PROPERTIES ConfirmationSurvives
CHECK_DEADLOCK FALSE
