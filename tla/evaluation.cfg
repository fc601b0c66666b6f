\* Generate, edit and evaluate, with every source of candidates and features.
SPECIFICATION Spec
CONSTANTS
  RouteType <- AllRouteTypes
  OsrmEnabled = TRUE
  OverpassEnabled = TRUE
  OverpassAnswers <- SomeAnswers
  SourceChoices <- SomeSources
  NoFeature = NoFeature
  NotFresh = NotFresh
  MaxCopies = 2
INVARIANTS TypeOK LevelIsWorst MissingDataIsShown
PROPERTIES ReEvaluationIsStable FeaturesOnlyShrink FullEvaluationKeepsFeatures
