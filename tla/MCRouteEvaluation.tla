--------------------------- MODULE MCRouteEvaluation ---------------------------
(* Instances of RouteEvaluation for TLC.                                   *)
EXTENDS RouteEvaluation

AllRouteTypes == {"shortest", "fastest", "arterial_priority",
                  "residential_avoid", "bridge_tunnel_caution"}

\* Nothing found, a bridge and a school, a tunnel.
SomeAnswers ==
  {{}, [type : {"bridge", "school"}, source : {"osm"}],
       [type : {"tunnel"}, source : {"osm"}]}

\* Everything, one source each, and a source no feature names.
SomeSources == {{}, {"osm"}, {"ksj", "xroad"}, {"plateau"}}

DefaultSources == {{}}
=============================================================================
