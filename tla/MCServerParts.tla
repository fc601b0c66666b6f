---------------------------- MODULE MCServerParts ----------------------------
(***************************************************************************)
(* The parts of the server beside the review, for TLC: what the process    *)
(* keeps in its memory, the search that keeps nothing, and the users and   *)
(* projects the demonstration data are put among.  They share no state, so *)
(* a behaviour is one of one part; the others stay as they are.  No        *)
(* fairness condition asks anything of a part in its initial state.        *)
(***************************************************************************)
EXTENDS FeatureCache, SigningKeys, KnowledgeGate, KnowledgeSearch,
        DemoSeed

\* The draft and one of the projects with another status, by their owners.
TwoProjects == <<[id |-> "seed-prj-001", owner |-> "seed-planner", status |-> "draft"],
                 [id |-> "seed-prj-005", owner |-> "seed-site", status |-> "reviewed"]>>

VARIABLE part

Parts == {"features", "keys", "gate", "search", "seed"}

MCInit ==
  /\ part \in Parts
  /\ FeatureInit /\ KeysInit /\ GateInit /\ SearchInit /\ SeedInit
  /\ part # "features" => overpassUp
  /\ part # "keys" => published = Kid
  /\ part # "seed" => ~fk

MCNext ==
  \/ part = "features" /\ FeatureNext
     /\ UNCHANGED <<part, keyVars, gateVars, searchVars, seedVars>>
  \/ part = "keys" /\ KeysNext
     /\ UNCHANGED <<part, featureVars, gateVars, searchVars, seedVars>>
  \/ part = "gate" /\ GateNext
     /\ UNCHANGED <<part, featureVars, keyVars, searchVars, seedVars>>
  \/ part = "search" /\ SearchNext
     /\ UNCHANGED <<part, featureVars, keyVars, gateVars, seedVars>>
  \/ part = "seed" /\ SeedNext
     /\ UNCHANGED <<part, featureVars, keyVars, gateVars, searchVars>>

MCVars == <<part, featureVars, keyVars, gateVars, searchVars, seedVars>>

MCSpec == MCInit /\ [][MCNext]_MCVars /\ FeatureFairness /\ GateFairness
=============================================================================
