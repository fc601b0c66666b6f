---------------------------- MODULE MCRouteConsole ----------------------------
(* Instances of RouteConsole for TLC.                                      *)
EXTENDS RouteConsole, TLC

\* Jobs are interchangeable.
Symmetric == Permutations(Job)
=============================================================================
