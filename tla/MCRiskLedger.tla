----------------------------- MODULE MCRiskLedger -----------------------------
(* Instances of RiskLedger for TLC.                                        *)
EXTENDS RiskLedger, TLC

CONSTANTS bridge, school,       \* features
          weight, exclusion,    \* RR-BRIDGE-001 and RR-BRIDGE-002
          school001, school002, \* by delivery time window
          height                \* RR-HEIGHT-001

MCRule == {weight, exclusion, school001, school002, height}

\* A vehicle below 44 t meets one rule per feature; the delivery window is
\* edited between evaluations.
WindowTables == {(bridge :> {weight}) @@ (school :> {school001}),
                 (bridge :> {weight}) @@ (school :> {school002})}

BridgeTables == {bridge :> {weight}}

\* A vehicle of 44 t or more meets two rules at a bridge.
HeavyBridgeTables == {bridge :> {weight, exclusion}}

AllSources    == {Feature}
AnySources    == SUBSET Feature
Symmetric     == Permutations(Call)
=============================================================================
