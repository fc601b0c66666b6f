---------------------------- MODULE RouteEvaluation ----------------------------
(***************************************************************************)
(* The risk engine: how a candidate gets its features, how an evaluation   *)
(* turns them into risk rows, a score and a level, and how the rows turn   *)
(* into features again when the candidate is next read.                    *)
(*                                                                         *)
(* One candidate at a time, calls one after the other; RiskLedger has the  *)
(* interleavings and the confirmations.  A feature is its type and the     *)
(* data source it names; two of a kind are one feature with two copies.    *)
(***************************************************************************)
EXTENDS Naturals, FiniteSets, FiniteSetsExt

CONSTANTS
  RouteType,        \* the route types asked for
  OsrmEnabled,      \* ROUTING_PROVIDER=osrm
  OverpassEnabled,  \* OSM_OVERPASS_ENABLED
  OverpassAnswers,  \* the feature sets the Overpass service may answer with
  SourceChoices,    \* the values of include_sources
  NoFeature,        \* the feature of a risk that has none
  NotFresh,         \* "no evaluation since the last edit or generation"
  MaxCopies         \* bound: copies of a feature an evaluation starts from

ASSUME SwitchAssumption == OsrmEnabled \in BOOLEAN /\ OverpassEnabled \in BOOLEAN
ASSUME CopiesAssumption == MaxCopies \in Nat \ {0}

FeatureType == {"bridge", "tunnel", "osm_quality", "school", "hospital",
                "residential", "traffic", "disaster"}

Feature == [type : FeatureType, source : {"osm", "ksj", "xroad"}]

ASSUME MarkAssumption == NoFeature \notin Feature

\* Height 3.8 m and weight 44 t are where rules and overlays change.
Vehicle == [height : {"unknown", "low", "tall"},
            weight : {"unknown", "light", "heavy"}]
Window  == {"peak", "off_peak"}

\* The sample overlay names OpenStreetMap, KSJ or xROAD as its source.
Overlay(type) ==
  [type |-> type,
   source |-> IF type \in {"bridge", "tunnel", "osm_quality"} THEN "osm"
              ELSE IF type = "traffic" THEN "xroad" ELSE "ksj"]

FullOverlay == {Overlay(type) : type \in FeatureType}

\* What Overpass knows of: all under the OpenStreetMap source.
OverpassFeature ==
  [type : {"bridge", "tunnel", "school", "hospital"}, source : {"osm"}]

ASSUME AnswerAssumption == OverpassAnswers \subseteq SUBSET OverpassFeature
ASSUME SourceAssumption ==
  SourceChoices \subseteq SUBSET {"osm", "xroad", "ksj", "plateau", "sample"}

Rules ==
  [bridge_weight  |-> [level |-> "confirm_required", score |-> 25],
   bridge_heavy   |-> [level |-> "exclusion_consideration", score |-> 35],
   tunnel         |-> [level |-> "confirm_required", score |-> 25],
   osm_quality    |-> [level |-> "data_insufficient", score |-> 15],
   school_peak    |-> [level |-> "caution", score |-> 15],
   school         |-> [level |-> "caution", score |-> 10],
   hospital       |-> [level |-> "caution", score |-> 10],
   residential    |-> [level |-> "caution", score |-> 12],
   traffic        |-> [level |-> "caution", score |-> 12],
   disaster       |-> [level |-> "caution", score |-> 10],
   height_missing |-> [level |-> "data_insufficient", score |-> 10],
   weight_missing |-> [level |-> "data_insufficient", score |-> 10]]

Rule == DOMAIN Rules

\* From the least to the most serious.
Severity == [candidate |-> 0, caution |-> 1, data_insufficient |-> 2,
             confirm_required |-> 3, exclusion_consideration |-> 4]

Placeholder == "placeholder"

\* A stored row: a risk of a feature, a risk of none, or a bare feature.
Row == [feature : Feature \cup {NoFeature}, rule : Rule \cup {Placeholder}]

VARIABLES
  vehicle,  \* the vehicle of the project
  window,   \* its delivery time window
  rows,     \* the stored rows of the candidate, with their number
  score,    \* risk_score
  level,    \* risk_level
  status,   \* evaluation_status; "none" before there is a candidate
  fresh     \* history: the sources of the last evaluation, until an edit

project == <<vehicle, window>>
vars == <<vehicle, window, rows, score, level, status, fresh>>

TypeOK ==
  /\ vehicle \in Vehicle
  /\ window \in Window
  /\ DOMAIN rows \subseteq Row /\ \A x \in DOMAIN rows : rows[x] \in Nat \ {0}
  /\ score \in 0..100
  /\ level \in DOMAIN Severity
  /\ status \in {"none", "pending", "evaluated"}
  /\ fresh = NotFresh \/ fresh \in SourceChoices \cup {{}}

Init ==
  /\ vehicle \in Vehicle
  /\ window \in Window
  /\ rows = [x \in {} |-> 0]
  /\ score = 0
  /\ level = "data_insufficient"
  /\ status = "none"
  /\ fresh = NotFresh

-----------------------------------------------------------------------------
(* From features to rows and back.                                         *)

\* sample_overlay_features, for the vehicle at the time of the call.
SampleTypes(routeType) ==
  {"bridge", "osm_quality"}
  \cup {t \in {"tunnel"} : vehicle.height # "low"}
  \cup {t \in {"school", "residential"} : routeType \in {"shortest", "fastest"}}
  \cup {t \in {"traffic"} : routeType \in {"arterial_priority", "fastest"}}
  \cup {t \in {"hospital"} : routeType = "residential_avoid"}
  \cup {t \in {"disaster"} : \/ routeType = "bridge_tunnel_caution"
                             \/ vehicle.weight = "unknown"}

\* A candidate routed by OSRM comes without features.
RoutedFeatures(routeType) ==
  {{Overlay(t) : t \in SampleTypes(routeType)}} \cup
  {s \in {{}} : OsrmEnabled}

\* When the service fails, the adapter answers with a full sample overlay.
Answers == IF OverpassEnabled THEN OverpassAnswers \cup {FullOverlay} ELSE {{}}

\* Overpass is asked at both ends and the answers are added up: each answer has
\* ids of its own, so what is near both ends counts twice.  (Ends so near that
\* they share an entry of the cache get one answer, as if one found nothing.)
\* They replace the features of the candidate, unless there are none.
CandidateFeatures(routed, start, destination) ==
  LET found == start \cup destination
  IN  IF found = {} THEN [f \in routed |-> 1]
      ELSE [f \in found |-> Cardinality({n \in 1..2 : f \in <<start, destination>>[n]})]

\* Fault: a risk of no feature comes back as one of unknown type.
StoredFeaturesFault ==
  {IF x.feature = NoFeature THEN Overlay("osm_quality") ELSE x.feature :
     x \in DOMAIN rows}

\* _db_route_to_pydantic: the features of a stored candidate, and how often
\* each one occurs.  A bare row counts, and so does every risk of a feature.
StoredFeatures == {x.feature : x \in DOMAIN rows} \ {NoFeature}

Copies(f) ==
  MapThenSumSet(LAMBDA x : rows[x], {x \in DOMAIN rows : x.feature = f})

\* Fault: an empty filter means that nothing is included.
IncludedFault(sources) == {f \in StoredFeatures : f.source \in sources}

\* No source named means every source.
Included(sources) ==
  {f \in StoredFeatures : sources = {} \/ f.source \in sources}

\* Fault: the missing weight of a vehicle is taken for a light one.
MissingFault(rule) == rule = "height_missing" /\ vehicle.height = "unknown"

\* The vehicle data that is missing.
Missing(rule) ==
  \/ rule = "height_missing" /\ vehicle.height = "unknown"
  \/ rule = "weight_missing" /\ vehicle.weight = "unknown"

\* The rule of each branch of evaluate_route.  Stored features have lost
\* their attributes, so no bridge has a known weight limit.
Meets(f, rule) ==
  \/ rule = "bridge_weight" /\ f.type = "bridge"
  \/ rule = "bridge_heavy" /\ f.type = "bridge" /\ vehicle.weight = "heavy"
  \/ rule = "school_peak" /\ f.type = "school" /\ window = "peak"
  \/ rule = "school" /\ f.type = "school" /\ window # "peak"
  \/ rule = f.type /\ f.type \in {"tunnel", "osm_quality", "hospital",
                                  "residential", "traffic", "disaster"}

RulesOf(f) == {rule \in Rule : Meets(f, rule)}

Risks(sources) ==
  (UNION {[feature : {f}, rule : RulesOf(f)] : f \in Included(sources)})
  \cup [feature : {NoFeature}, rule : {rule \in Rule : Missing(rule)}]

Bag(risks) ==
  [x \in risks |-> IF x.feature = NoFeature THEN 1 ELSE Copies(x.feature)]

-----------------------------------------------------------------------------
(* Score and level.                                                        *)

AtMost(n, bound) == IF n < bound THEN n ELSE bound

\* Fault: the sum is not capped.
ScoreFault(bag) ==
  MapThenSumSet(LAMBDA x : bag[x] * Rules[x.rule].score, DOMAIN bag)

ScoreOf(bag) ==
  AtMost(MapThenSumSet(LAMBDA x : bag[x] * Rules[x.rule].score, DOMAIN bag), 100)

\* Fault: missing data is looked at after caution.
LevelFault(risks) ==
  LET levels == {Rules[x.rule].level : x \in risks}
  IN  IF "exclusion_consideration" \in levels THEN "exclusion_consideration"
      ELSE IF "confirm_required" \in levels THEN "confirm_required"
      ELSE IF "caution" \in levels THEN "caution"
      ELSE IF "data_insufficient" \in levels THEN "data_insufficient"
      ELSE "candidate"

\* _route_level: the first of a list of levels that some risk has.
LevelOf(risks) ==
  LET levels == {Rules[x.rule].level : x \in risks}
  IN  IF "exclusion_consideration" \in levels THEN "exclusion_consideration"
      ELSE IF "confirm_required" \in levels THEN "confirm_required"
      ELSE IF "data_insufficient" \in levels THEN "data_insufficient"
      ELSE IF "caution" \in levels THEN "caution"
      ELSE "candidate"

-----------------------------------------------------------------------------
(* The calls.                                                              *)

\* PATCH: a stored candidate keeps the features it was generated with.
EditProject(v, w) ==
  /\ <<v, w>> # project
  /\ vehicle' = v
  /\ window' = w
  /\ fresh' = NotFresh
  /\ UNCHANGED <<rows, score, level, status>>

\* A new candidate takes the place of the old one, with bare features.
Generate(features) ==
  /\ rows' = [x \in [feature : DOMAIN features, rule : {Placeholder}]
                |-> features[x.feature]]
  /\ score' = 0
  /\ level' = "data_insufficient"
  /\ status' = "pending"
  /\ fresh' = NotFresh
  /\ UNCHANGED project

\* Fault: an evaluation adds its risks to the stored rows.
EvaluateFault(sources) ==
  /\ status # "none"
  /\ \A f \in StoredFeatures : Copies(f) <= MaxCopies
  /\ rows' = [x \in DOMAIN rows \cup Risks(sources) |->
                IF x \in Risks(sources) THEN Bag(Risks(sources))[x] ELSE rows[x]]
  /\ score' = ScoreOf(Bag(Risks(sources)))
  /\ level' = LevelOf(Risks(sources))
  /\ status' = "evaluated"
  /\ fresh' = sources
  /\ UNCHANGED project

\* The stored rows are replaced by the risks of the included features.
Evaluate(sources) ==
  /\ status # "none"
  /\ \A f \in StoredFeatures : Copies(f) <= MaxCopies
  /\ rows' = Bag(Risks(sources))
  /\ score' = ScoreOf(Bag(Risks(sources)))
  /\ level' = LevelOf(Risks(sources))
  /\ status' = "evaluated"
  /\ fresh' = sources
  /\ UNCHANGED project

\* A report evaluates a candidate nobody has evaluated, with every source.
Report ==
  /\ status = "pending"
  /\ Evaluate({})

Next ==
  \/ \E v \in Vehicle, w \in Window : EditProject(v, w)
  \/ \E t \in RouteType, start \in Answers, destination \in Answers :
       \E routed \in RoutedFeatures(t) :
         Generate(CandidateFeatures(routed, start, destination))
  \/ \E sources \in SourceChoices : Evaluate(sources)
  \/ Report

Spec == Init /\ [][Next]_vars

-----------------------------------------------------------------------------
(* Properties.                                                             *)

\* The level shown is that of the most serious stored risk, and "candidate"
\* only without any: the cascade of _route_level is a maximum, and what is
\* stored with the candidate agrees with its rows.
LevelIsWorst ==
  status = "evaluated" =>
    /\ \A x \in DOMAIN rows :
         x.rule \in Rule /\ Severity[Rules[x.rule].level] <= Severity[level]
    /\ level # "candidate" => \E x \in DOMAIN rows : Rules[x.rule].level = level

\* tests/test_risk_engine.py, "never treats missing weight as candidate": a
\* candidate evaluated without the height or the weight of the vehicle is at
\* best "data_insufficient", whatever sources and features it was left with.
MissingDataIsShown ==
  fresh # NotFresh /\ "unknown" \in {vehicle.height, vehicle.weight} =>
    Severity[level] >= Severity["data_insufficient"]

\* repository.py:666, rules and coordinates "are stable across evaluations":
\* evaluating again with the same inputs changes nothing, for vehicles that
\* meet one rule per feature.
ReEvaluationIsStable ==
  [][fresh' = fresh /\ fresh # NotFresh /\ vehicle.weight # "heavy" =>
       UNCHANGED <<rows, score, level>>]_vars

\* Only a generate call brings features: an evaluation reads them back from
\* the rows it replaces and can at most leave some out.
FeaturesOnlyShrink ==
  [][status' = "evaluated" => StoredFeatures' \subseteq StoredFeatures]_vars

\* Without a filter none is left out, so a report or a default evaluation
\* can be repeated for ever.
FullEvaluationKeepsFeatures ==
  [][status' = "evaluated" /\ fresh' = {} => StoredFeatures' = StoredFeatures]_vars

\* The detailed design, line 1275: missing data is never "no problem": a candidate
\* of which no bridge, tunnel or OSM attribute data has been looked at is not
\* shown as a plain candidate.
NoDataNeverCandidate ==
  status = "evaluated" /\ level = "candidate" =>
    \E f \in StoredFeatures : f.type \in {"bridge", "tunnel", "osm_quality"}
=============================================================================
