\* A candidate routed by OSRM, whose area Overpass is not asked about.
SPECIFICATION Spec
CONSTANTS
  RouteType <- AllRouteTypes
  OsrmEnabled = TRUE
  OverpassEnabled = FALSE
  OverpassAnswers <- SomeAnswers
  SourceChoices <- DefaultSources
  NoFeature = NoFeature
  NotFresh = NotFresh
  MaxCopies = 2
INVARIANT NoDataNeverCandidate
