---------------------------- MODULE ReviewWorkflow ----------------------------
(***************************************************************************)
(* The review workflow of one delivery project, as src/app/main.py and     *)
(* src/app/repository.py run it.                                           *)
(*                                                                         *)
(* Every API call is a coroutine with a database session of its own on one *)
(* event loop.  Each awaited statement or commit is a point where other    *)
(* calls run, so a call is a sequence of small steps on the shared         *)
(* database: look at the project, SELECT its row, COMMIT a new status,     *)
(* write the routes, and - in a commit of its own - write the audit row.   *)
(* A call may also end between two steps, when the process stops or a      *)
(* statement fails.                                                        *)
(*                                                                         *)
(* The calls on risks (confirm) do not touch this state: RiskLedger.       *)
(***************************************************************************)
EXTENDS Naturals, FiniteSets

CONSTANTS
  Request,      \* the API calls made on the project; each is served once
  RouteType,    \* the route types a generate call may ask for
  Unloaded,     \* "no status loaded yet"
  MaxInFlight,  \* bound: calls served at the same time
  MaxLost       \* bound: calls that end between two of their steps

ASSUME RequestAssumption   == IsFiniteSet(Request)
ASSUME RouteTypeAssumption == RouteType # {}
ASSUME BoundAssumption     == MaxInFlight \in Nat \ {0} /\ MaxLost \in Nat

Status == {"draft", "evaluating", "review_required", "change_requested",
           "reviewed", "archived"}

ASSUME UnloadedAssumption == Unloaded \notin Status \cup {"absent"}

\* A candidate is created by one generate call for one route type; its id is
\* fresh, so the call and the type name it.
Route == Request \X RouteType

Op == {"create", "update", "archive", "generate", "evaluate", "submit",
       "approve", "request_changes", "report"}

\* The calls that write a status, and the status they write.
Target == [create          |-> "draft",
           generate        |-> "evaluating",
           evaluate        |-> "review_required",
           submit          |-> "review_required",
           approve         |-> "reviewed",
           request_changes |-> "change_requested",
           archive         |-> "archived"]

Ended  == {"done", "refused", "lost"}
Active == {"edit", "save_evaluation", "select", "write", "read_max", "insert",
           "evaluate_pending", "audit"}

VARIABLES
  \* the database
  status,      \* projects.status; "absent" before the row exists
  edits,       \* the update calls whose fields are in the project row
  generation,  \* route_candidates.generation; 0 when there is no such row
  evaluated,   \* the candidates whose evaluation_status is "evaluated"
  reports,     \* the report calls with a row in reports
  auditLog,    \* the calls with a row in audit_logs
  \* the handlers
  op,          \* what a call asks for ("none" until it arrives)
  pc,          \* the next step of a call
  loaded,      \* the status its SELECT loaded
  maxGen,      \* the newest generation its SELECT max(...) saw
  todo,        \* the candidates it still has to evaluate
  \* history
  met          \* the calls that have not been served alone

db    == <<status, edits, generation, evaluated, reports, auditLog>>
local == <<loaded, maxGen, todo>>
vars  == <<status, edits, generation, evaluated, reports, auditLog,
           op, pc, loaded, maxGen, todo, met>>

TypeOK ==
  /\ status \in Status \cup {"absent"}
  /\ edits \subseteq Request
  /\ generation \in [Route -> Nat]
  /\ evaluated \subseteq Route
  /\ reports \subseteq Request
  /\ auditLog \subseteq Request
  /\ op \in [Request -> Op \cup {"none"}]
  /\ pc \in [Request -> {"idle"} \cup Active \cup Ended]
  /\ loaded \in [Request -> Status \cup {"absent", Unloaded}]
  /\ maxGen \in [Request -> Nat]
  /\ todo \in [Request -> SUBSET Route]
  /\ met \subseteq Request

Init ==
  /\ status = "absent"
  /\ edits = {}
  /\ generation = [r \in Route |-> 0]
  /\ evaluated = {}
  /\ reports = {}
  /\ auditLog = {}
  /\ op = [q \in Request |-> "none"]
  /\ pc = [q \in Request |-> "idle"]
  /\ loaded = [q \in Request |-> Unloaded]
  /\ maxGen = [q \in Request |-> 0]
  /\ todo = [q \in Request |-> {}]
  /\ met = {}

-----------------------------------------------------------------------------
(* What a query returns.                                                   *)

Stored == {r \in Route : generation[r] # 0}

\* SELECT max(generation): 0 on a project without candidates.
IsNewest(g) ==
  /\ \A r \in Route : generation[r] <= g
  /\ g = 0 \/ \E r \in Route : generation[r] = g

\* The candidates of the newest generation, as lists and reports see them.
Listed == {r \in Stored : IsNewest(generation[r])}

-----------------------------------------------------------------------------
(* How a call moves.                                                       *)

InFlight == {p \in Request : pc[p] \in Active}

Arrive(q, o, step) ==
  /\ pc[q] = "idle"
  /\ Cardinality(InFlight) < MaxInFlight
  /\ op' = [op EXCEPT ![q] = o]
  /\ pc' = [pc EXCEPT ![q] = step]
  /\ met' = IF InFlight = {} THEN met ELSE met \cup InFlight \cup {q}

\* A call that reads the project, and goes on only when the check holds
\* (otherwise it answers 409 and has changed nothing).
Check(q, o, ok, step) ==
  /\ status # "absent"
  /\ Arrive(q, o, IF ok THEN step ELSE "refused")
  /\ UNCHANGED <<db, local>>

Goto(q, from, to) ==
  /\ pc[q] = from
  /\ pc' = [pc EXCEPT ![q] = to]
  /\ UNCHANGED <<op, met>>

-----------------------------------------------------------------------------
(* Faults: the forms a plausible mistake would give some of the steps      *)
(* below.  No specification uses them; they show the properties can fail.  *)

\* PATCH without its status check.
BeginUpdateFault(q) == Check(q, "update", TRUE, "edit")

\* Submission without the evaluated-route check.
BeginSubmitFault(q) == Check(q, "submit", TRUE, "select")

\* The status of an archived project is written without its audit row.
CommitStatusFault(q) ==
  /\ Goto(q, "write", IF op[q] = "generate" THEN "read_max"
                      ELSE IF op[q] = "archive" THEN "done" ELSE "audit")
  /\ status' = IF loaded[q] = Target[op[q]] THEN status ELSE Target[op[q]]
  /\ loaded' = [loaded EXCEPT ![q] = Unloaded]
  /\ UNCHANGED <<edits, generation, evaluated, reports, auditLog,
                 maxGen, todo>>

\* The next generation is numbered by counting the candidates there are.
ReadMaxGenerationFault(q) ==
  /\ Goto(q, "read_max", "insert")
  /\ maxGen' = [maxGen EXCEPT ![q] = Cardinality(Stored)]
  /\ UNCHANGED <<db, loaded, todo>>

\* A new batch joins the newest generation.
InsertRoutesFault(q, types) ==
  /\ types # {}
  /\ Goto(q, "insert", "audit")
  /\ generation' = [r \in Route |->
                      IF r[1] = q /\ r[2] \in types
                      THEN IF maxGen[q] = 0 THEN 1 ELSE maxGen[q]
                      ELSE generation[r]]
  /\ maxGen' = [maxGen EXCEPT ![q] = 0]
  /\ UNCHANGED <<status, edits, evaluated, reports, auditLog, loaded, todo>>

\* A new batch replaces the earlier candidates.
ReplaceRoutesFault(q, types) ==
  /\ types # {}
  /\ Goto(q, "insert", "audit")
  /\ generation' = [r \in Route |->
                      IF r[1] = q /\ r[2] \in types THEN 1 ELSE 0]
  /\ maxGen' = [maxGen EXCEPT ![q] = 0]
  /\ UNCHANGED <<status, edits, evaluated, reports, auditLog, loaded, todo>>

-----------------------------------------------------------------------------
(* A call arrives: its checks, up to the first step that changes state.    *)

BeginUpdate(q) ==
  Check(q, "update", status \in {"draft", "evaluating", "change_requested"},
        "edit")

BeginArchive(q) == Check(q, "archive", TRUE, "select")

BeginGenerate(q) == Check(q, "generate", TRUE, "select")

BeginSubmit(q) ==
  Check(q, "submit", Listed \cap evaluated # {}, "select")

BeginApprove(q) ==
  Check(q, "approve", status \in {"review_required", "change_requested"},
        "select")

BeginRequestChanges(q) ==
  Check(q, "request_changes", status \in {"review_required", "evaluating"},
        "select")

\* The candidate may be of any generation.
BeginEvaluate(q, r) ==
  /\ r \in Stored
  /\ Arrive(q, "evaluate", "save_evaluation")
  /\ todo' = [todo EXCEPT ![q] = {r}]
  /\ UNCHANGED <<db, loaded, maxGen>>

BeginReport(q) ==
  /\ status # "absent"
  /\ Arrive(q, "report", IF Listed = {} THEN "refused" ELSE "evaluate_pending")
  /\ todo' = [todo EXCEPT ![q] = Listed \ evaluated]
  /\ UNCHANGED <<db, loaded, maxGen>>

\* The row is inserted as "draft" in one commit.
CreateProject(q) ==
  /\ status = "absent"
  /\ Arrive(q, "create", "audit")
  /\ status' = Target["create"]
  /\ UNCHANGED <<edits, generation, evaluated, reports, auditLog, local>>

-----------------------------------------------------------------------------
(* The steps of a call.                                                    *)

\* The commit of update_project: the fields, whatever the status is by now.
SaveEdit(q) ==
  /\ Goto(q, "edit", "audit")
  /\ edits' = edits \cup {q}
  /\ UNCHANGED <<status, generation, evaluated, reports, auditLog, local>>

\* The commit of update_route in an evaluate call.
SaveEvaluation(q) ==
  /\ Goto(q, "save_evaluation", "select")
  /\ evaluated' = evaluated \cup todo[q]
  /\ todo' = [todo EXCEPT ![q] = {}]
  /\ UNCHANGED <<status, edits, generation, reports, auditLog, loaded, maxGen>>

\* The SELECT of update_project_status and of archive_project.
SelectStatus(q) ==
  /\ Goto(q, "select", "write")
  /\ loaded' = [loaded EXCEPT ![q] = status]
  /\ UNCHANGED <<db, maxGen, todo>>

\* The COMMIT that follows: the session emits an UPDATE of the status only
\* when the new value differs from the one it loaded.
CommitStatus(q) ==
  /\ Goto(q, "write", IF op[q] = "generate" THEN "read_max" ELSE "audit")
  /\ status' = IF loaded[q] = Target[op[q]] THEN status ELSE Target[op[q]]
  /\ loaded' = [loaded EXCEPT ![q] = Unloaded]
  /\ UNCHANGED <<edits, generation, evaluated, reports, auditLog,
                 maxGen, todo>>

\* save_routes: read the newest generation ...
ReadMaxGeneration(q) ==
  /\ Goto(q, "read_max", "insert")
  /\ \E g \in {generation[r] : r \in Route} \cup {0} :
       /\ IsNewest(g)
       /\ maxGen' = [maxGen EXCEPT ![q] = g]
  /\ UNCHANGED <<db, loaded, todo>>

\* ... and insert the whole batch one above it, in one commit.  A routing
\* service may have answered for some of the types only, never for none.
InsertRoutes(q, types) ==
  /\ types # {}
  /\ Goto(q, "insert", "audit")
  /\ generation' = [r \in Route |->
                      IF r[1] = q /\ r[2] \in types THEN maxGen[q] + 1
                                                    ELSE generation[r]]
  /\ maxGen' = [maxGen EXCEPT ![q] = 0]
  /\ UNCHANGED <<status, edits, evaluated, reports, auditLog, loaded, todo>>

\* A report evaluates the listed candidates nobody has evaluated, one commit
\* each, without a status write and without an audit row ...
EvaluatePending(q, r) ==
  /\ r \in todo[q]
  /\ Goto(q, "evaluate_pending", "evaluate_pending")
  /\ evaluated' = evaluated \cup {r}
  /\ todo' = [todo EXCEPT ![q] = @ \ {r}]
  /\ UNCHANGED <<status, edits, generation, reports, auditLog, loaded, maxGen>>

\* ... and is then saved.
SaveReport(q) ==
  /\ todo[q] = {}
  /\ Goto(q, "evaluate_pending", "done")
  /\ reports' = reports \cup {q}
  /\ UNCHANGED <<status, edits, generation, evaluated, auditLog, local>>

\* create_audit_log: a commit of its own after the change it records.
WriteAudit(q) ==
  /\ Goto(q, "audit", "done")
  /\ auditLog' = auditLog \cup {q}
  /\ UNCHANGED <<status, edits, generation, evaluated, reports, local>>

\* The process stops, or a statement raises: the call ends where it is and
\* what it has committed stays.
Lose(q) ==
  /\ pc[q] \in Active
  /\ Cardinality({p \in Request : pc[p] = "lost"}) < MaxLost
  /\ pc' = [pc EXCEPT ![q] = "lost"]
  /\ loaded' = [loaded EXCEPT ![q] = Unloaded]
  /\ maxGen' = [maxGen EXCEPT ![q] = 0]
  /\ todo' = [todo EXCEPT ![q] = {}]
  /\ UNCHANGED <<db, op, met>>

-----------------------------------------------------------------------------

Begin(q) ==
  \/ CreateProject(q)
  \/ BeginUpdate(q)
  \/ BeginArchive(q)
  \/ BeginGenerate(q)
  \/ BeginSubmit(q)
  \/ BeginApprove(q)
  \/ BeginRequestChanges(q)
  \/ BeginReport(q)
  \/ \E r \in Route : BeginEvaluate(q, r)

Step(q) ==
  \/ SaveEdit(q)
  \/ SaveEvaluation(q)
  \/ SelectStatus(q)
  \/ CommitStatus(q)
  \/ ReadMaxGeneration(q)
  \/ \E types \in SUBSET RouteType : InsertRoutes(q, types)
  \/ \E r \in Route : EvaluatePending(q, r)
  \/ SaveReport(q)
  \/ WriteAudit(q)

Next == \E q \in Request : Begin(q) \/ Step(q) \/ Lose(q)

Spec == Init /\ [][Next]_vars

\* The event loop serves every call under way; nothing is assumed of arrivals.
FairSpec == Spec /\ \A q \in Request : WF_vars(Step(q))

-----------------------------------------------------------------------------
(* Safety, however the calls interleave and wherever they end.             *)

\* A project waits for review only when some candidate of it has been
\* evaluated: submit checks this long before it writes, and evaluate writes
\* the candidate and the status in two commits (main.py, submit/evaluate).
ReviewHasEvidence == status = "review_required" => evaluated # {}

\* A project shown as a draft has no candidates: generate marks the project
\* before it works on them, and nothing makes a project a draft again.
DraftHasNoRoutes == status \in {"absent", "draft"} => Stored = {}

\* Generations are numbered without gaps, although the number is read in one
\* statement and used in a later one (save_routes).
GenerationsContiguous ==
  \A r \in Route : generation[r] > 1 =>
    \E s \in Route : generation[s] = generation[r] - 1

\* The status a project has was written by a call of the right kind that is
\* in the audit log, is still on its way to it, or was lost on that way.
StatusAccountable ==
  status # "absent" =>
    \E q \in Request :
      /\ op[q] \in DOMAIN Target
      /\ Target[op[q]] = status
      /\ q \in auditLog \/ pc[q] \in {"read_max", "insert", "audit", "lost"}

\* A report is on file only when the project has an evaluated candidate, and
\* the report was itself the call that evaluated what was pending.
ReportHasEvidence == reports # {} => evaluated # {}

-----------------------------------------------------------------------------
(* The inductive invariant: what each call relies on at each of its steps. *)

\* A call is at a step of its own operation, and its audit row is its last.
StepsFitOp ==
  \A q \in Request :
    /\ pc[q] \in {"select", "write"} =>
         op[q] \in {"generate", "evaluate", "submit", "approve",
                   "request_changes", "archive"}
    /\ pc[q] \in {"read_max", "insert"} => op[q] = "generate"
    /\ pc[q] \in Active => status # "absent"
    /\ q \in auditLog => pc[q] = "done"

\* A call about to write "review_required" has its evidence behind it, and a
\* call that holds candidates to evaluate holds stored ones.
EvidenceInHand ==
  \A q \in Request :
    /\ todo[q] \subseteq Stored
    /\ pc[q] = "save_evaluation" =>
         op[q] = "evaluate" /\ \E r \in Route : todo[q] = {r}
    /\ pc[q] = "evaluate_pending" => todo[q] # {} \/ evaluated # {}
    /\ pc[q] \in {"select", "write"} /\ op[q] \in {"evaluate", "submit"} =>
         evaluated # {}

\* Once a call has seen or made the project more than a draft, it is one:
\* this covers the commit that writes nothing because the loaded status was
\* already the wanted one.
DraftIsOver ==
  \A q \in Request :
    /\ loaded[q] # "absent"
    /\ loaded[q] \notin {Unloaded, "draft"} => status \notin {"absent", "draft"}
    /\ pc[q] \in {"read_max", "insert"} => status \notin {"absent", "draft"}
    /\ pc[q] \in {"select", "write"} /\ op[q] \in {"approve", "request_changes"}
         => status \notin {"absent", "draft"}

\* A number read stays the number of a batch, and a call that has not
\* inserted yet owns no candidates.
BatchesFit ==
  \A q \in Request :
    /\ maxGen[q] # 0 => \E s \in Route : generation[s] = maxGen[q]
    /\ pc[q] \notin {"audit", "done", "lost"} =>
         \A t \in RouteType : generation[<<q, t>>] = 0

IndInv ==
  /\ TypeOK
  /\ ReviewHasEvidence
  /\ DraftHasNoRoutes
  /\ GenerationsContiguous
  /\ StatusAccountable
  /\ ReportHasEvidence
  /\ StepsFitOp
  /\ EvidenceInHand
  /\ DraftIsOver
  /\ BatchesFit

-----------------------------------------------------------------------------
(* What holds of a call that was served alone, whatever calls overlapped   *)
(* before and after it.                                                    *)

\* README.md:353, a reviewed or archived project is not edited: the check of
\* PATCH and its commit are several awaits apart, so an edit is kept out of a
\* closed project unless another call was served at the same time.
LoneEditKeptOut ==
  [][\A q \in edits' \ edits :
       q \notin met => status \notin {"reviewed", "archived"}]_vars

\* tests/test_workflow.py:149: generating again does not make a candidate
\* appear twice.  A generation is the batch of one call; two batches share
\* one only when both calls overlapped others.
OneBatchPerGeneration ==
  \A r, s \in Stored :
    generation[r] = generation[s] /\ r[1] # s[1] => {r[1], s[1]} \subseteq met

\* The batch a lone generate call has just saved is what the list shows, and
\* nothing else is: every other candidate is of an older generation.
LoneBatchIsListed ==
  [][\A r \in Route :
       generation[r] = 0 /\ generation'[r] # 0 /\ r[1] \notin met =>
         \A s \in Route : s[1] # r[1] => generation'[s] < generation'[r]]_vars

\* The invariant behind them: a lone call has nobody beside it, a lone edit
\* still finds the project open, and a batch above the number a call has read
\* was saved by a call it met.
LoneCalls ==
  \A q \in Request :
    /\ q \in InFlight \ met => InFlight = {q}
    /\ pc[q] = "edit" /\ q \notin met =>
         status \in {"draft", "evaluating", "change_requested"}
    /\ pc[q] = "insert" =>
         \A r \in Route :
           generation[r] > maxGen[q] => {r[1], q} \subseteq met

-----------------------------------------------------------------------------
(* What a message of the API says, and the code does not keep.             *)

\* README.md:353: a reviewed or archived project is not edited.
ClosedProjectNotEdited ==
  [][edits' # edits => status \notin {"reviewed", "archived"}]_vars

\* main.py:411, "Only submitted projects can be approved.": whatever counts
\* as a submission, the project has an evaluated candidate by then.
OnlySubmittedApproved == status = "reviewed" => evaluated # {}

-----------------------------------------------------------------------------
(* The life cycle the workflow implements.                                 *)

\* Of the handlers' steps, the life cycle sees what they leave in the project
\* row and in the candidates.
Lifecycle == INSTANCE ReviewLifecycle
  WITH Request <- Request, RouteType <- RouteType,
       status <- status, generation <- generation, evaluated <- evaluated

LifecycleSpec == Lifecycle!Spec
=============================================================================
