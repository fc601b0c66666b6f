--------------------------- MODULE MCReviewWorkflow ---------------------------
(* Instances of ReviewWorkflow for TLC.                                    *)
EXTENDS ReviewWorkflow, TLC

\* Calls and route types are interchangeable.
Symmetric == Permutations(Request) \cup Permutations(RouteType)
=============================================================================
