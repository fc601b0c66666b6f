---------------------------- MODULE ReviewLifecycle ----------------------------
(***************************************************************************)
(* What the review workflow promises of a project, whatever calls overlap  *)
(* and wherever they are cut short: each step is one change of one thing.  *)
(*                                                                         *)
(*   - a project starts as a draft and never becomes one again;            *)
(*   - candidates are only added, one batch per generate call, to a        *)
(*     generation that directly follows one that exists, and never to a    *)
(*     draft; none is removed, renumbered or un-evaluated;                 *)
(*   - a project enters review only with an evaluated candidate;           *)
(*   - nothing is decided about a draft: it is approved or sent back only  *)
(*     after its first generate call.                                      *)
(*                                                                         *)
(* It promises no more: from any later status a project may go to any      *)
(* other, "archived" included, because no status write looks at the status *)
(* it replaces.                                                            *)
(***************************************************************************)
EXTENDS Naturals

CONSTANTS Request, RouteType

Candidate == Request \X RouteType

VARIABLES status, generation, evaluated

lifecycleVars == <<status, generation, evaluated>>

Init ==
  /\ status = "absent"
  /\ generation = [r \in Candidate |-> 0]
  /\ evaluated = {}

\* POST /api/projects
Create ==
  /\ status = "absent"
  /\ status' = "draft"
  /\ UNCHANGED <<generation, evaluated>>

\* The first write of a generate call.
StartGeneration ==
  /\ status # "absent"
  /\ status' = "evaluating"
  /\ UNCHANGED <<generation, evaluated>>

\* The numbers a new batch may get: the first, or one above a batch there is.
NextGeneration == {1} \cup {generation[r] + 1 : r \in Candidate}

\* The one batch of generate call q, with the route types it asked for.
AddBatch(q, types, g) ==
  /\ status \notin {"absent", "draft"}
  /\ types # {}
  /\ \A t \in RouteType : generation[<<q, t>>] = 0
  /\ generation' = [r \in Candidate |-> IF r[1] = q /\ r[2] \in types
                                        THEN g ELSE generation[r]]
  /\ UNCHANGED <<status, evaluated>>

\* An evaluate call or a report evaluates a candidate there is.
Evaluate(r) ==
  /\ generation[r] # 0
  /\ evaluated' = evaluated \cup {r}
  /\ UNCHANGED <<status, generation>>

EnterReview ==
  /\ evaluated # {}
  /\ status' = "review_required"
  /\ UNCHANGED <<generation, evaluated>>

Decide ==
  /\ status \notin {"absent", "draft"}
  /\ status' \in {"reviewed", "change_requested"}
  /\ UNCHANGED <<generation, evaluated>>

Archive ==
  /\ status # "absent"
  /\ status' = "archived"
  /\ UNCHANGED <<generation, evaluated>>

Next ==
  \/ Create
  \/ StartGeneration
  \/ \E q \in Request, types \in SUBSET RouteType, g \in NextGeneration :
       AddBatch(q, types, g)
  \/ \E r \in Candidate : Evaluate(r)
  \/ EnterReview
  \/ Decide
  \/ Archive

Spec == Init /\ [][Next]_lifecycleVars
=============================================================================
