------------------------- MODULE ReviewWorkflowProofs -------------------------
(***************************************************************************)
(* Proofs about ReviewWorkflow, for any number of calls and route types    *)
(* and whatever the bounds on calls in flight and on lost calls.           *)
(***************************************************************************)
EXTENDS ReviewWorkflow, TLAPS

-----------------------------------------------------------------------------
(* Type correctness.                                                       *)

\* What a status write writes is a status.
LEMMA TargetType ==
  ASSUME NEW o \in DOMAIN Target
  PROVE  Target[o] \in Status
  BY DEF Target, Status

\* Every call that arrives keeps the types.
LEMMA BeginType ==
  ASSUME TypeOK, NEW q \in Request, Begin(q)
  PROVE  TypeOK'
<1> USE DEF TypeOK, Arrive, Check, db, local, Active, Ended, Op, InFlight
<1>1. CASE CreateProject(q)
  BY <1>1, TargetType DEF CreateProject, Target, Status
<1>2. CASE BeginUpdate(q)
  BY <1>2 DEF BeginUpdate
<1>3. CASE BeginArchive(q)
  BY <1>3 DEF BeginArchive
<1>4. CASE BeginGenerate(q)
  BY <1>4 DEF BeginGenerate
<1>5. CASE BeginSubmit(q)
  BY <1>5 DEF BeginSubmit
<1>6. CASE BeginApprove(q)
  BY <1>6 DEF BeginApprove
<1>7. CASE BeginRequestChanges(q)
  BY <1>7 DEF BeginRequestChanges
<1>8. CASE BeginReport(q)
  BY <1>8 DEF BeginReport, Listed, Stored
<1>9. CASE \E r \in Route : BeginEvaluate(q, r)
  BY <1>9 DEF BeginEvaluate, Stored
<1>10. QED
  BY <1>1, <1>2, <1>3, <1>4, <1>5, <1>6, <1>7, <1>8, <1>9 DEF Begin

\* Every step of a call keeps the types, given that a status writer is at it.
LEMMA StepType ==
  ASSUME TypeOK, StepsFitOp, NEW q \in Request, Step(q)
  PROVE  TypeOK'
<1> USE DEF TypeOK, Goto, db, local, Active, Ended
<1>1. CASE SaveEdit(q)
  BY <1>1 DEF SaveEdit
<1>2. CASE SaveEvaluation(q)
  BY <1>2 DEF SaveEvaluation
<1>3. CASE SelectStatus(q)
  BY <1>3 DEF SelectStatus
<1>4. CASE CommitStatus(q)
  <2>1. op[q] \in DOMAIN Target
    BY <1>4 DEF CommitStatus, StepsFitOp, Target
  <2>2. status' \in Status \cup {"absent"}
    BY <1>4, <2>1, TargetType DEF CommitStatus
  <2>3. QED
    BY <1>4, <2>2 DEF CommitStatus
<1>5. CASE ReadMaxGeneration(q)
  <2>1. PICK g \in {generation[r] : r \in Route} \cup {0} :
          maxGen' = [maxGen EXCEPT ![q] = g]
    BY <1>5 DEF ReadMaxGeneration
  <2>2. g \in Nat
    OBVIOUS
  <2>3. QED
    BY <1>5, <2>1, <2>2 DEF ReadMaxGeneration
<1>6. CASE \E types \in SUBSET RouteType : InsertRoutes(q, types)
  <2>1. PICK types \in SUBSET RouteType : InsertRoutes(q, types)
    BY <1>6
  <2>2. generation' \in [Route -> Nat]
    BY <2>1 DEF InsertRoutes
  <2>3. QED
    BY <2>1, <2>2 DEF InsertRoutes
<1>7. CASE \E r \in Route : EvaluatePending(q, r)
  BY <1>7 DEF EvaluatePending
<1>8. CASE SaveReport(q)
  BY <1>8 DEF SaveReport
<1>9. CASE WriteAudit(q)
  BY <1>9 DEF WriteAudit
<1>10. QED
  BY <1>1, <1>2, <1>3, <1>4, <1>5, <1>6, <1>7, <1>8, <1>9 DEF Step

LEMMA LoseType ==
  ASSUME TypeOK, NEW q \in Request, Lose(q)
  PROVE  TypeOK'
  BY DEF TypeOK, Lose, db, Active, Ended

-----------------------------------------------------------------------------
(* The inductive invariant: arrivals.                                      *)

\* A call that passes (or fails) its check keeps the invariant, given what
\* the check established: evidence for a submission, a project that is no
\* draft for a decision.
LEMMA CheckInd ==
  ASSUME IndInv, NEW q \in Request, NEW ok,
         NEW o \in {"update", "archive", "generate", "submit", "approve",
                    "request_changes"},
         NEW step \in {"edit", "select"},
         step = "select" => o # "update",
         ok /\ o = "submit" => evaluated # {},
         ok /\ o \in {"approve", "request_changes"} =>
           status \notin {"absent", "draft"},
         Check(q, o, ok, step)
  PROVE  /\ StatusAccountable'
         /\ StepsFitOp'
         /\ EvidenceInHand'
         /\ DraftIsOver'
         /\ BatchesFit'
         /\ UNCHANGED <<db, local>>
<1> USE DEF IndInv, Check, Arrive, db, local, Active, Ended
<1>1. StatusAccountable'
  BY DEF StatusAccountable, StepsFitOp, TypeOK
<1>2. StepsFitOp'
  BY DEF StepsFitOp, TypeOK
<1>3. EvidenceInHand'
  BY DEF EvidenceInHand, TypeOK, Stored
<1>4. DraftIsOver'
  BY DEF DraftIsOver, TypeOK
<1>5. BatchesFit'
  BY DEF BatchesFit, TypeOK
<1>6. QED
  BY <1>1, <1>2, <1>3, <1>4, <1>5

\* The invariants that only speak of the database are kept with it.
LEMMA DbInvStutter ==
  ASSUME IndInv, UNCHANGED <<status, generation, evaluated, reports>>
  PROVE  /\ ReviewHasEvidence'
         /\ DraftHasNoRoutes'
         /\ GenerationsContiguous'
         /\ ReportHasEvidence'
  BY DEF IndInv, ReviewHasEvidence, DraftHasNoRoutes, GenerationsContiguous,
         ReportHasEvidence, Stored

LEMMA BeginInd ==
  ASSUME IndInv, NEW q \in Request, Begin(q)
  PROVE  IndInv'
<1> USE DEF IndInv, db, local
<1>0. TypeOK'
  BY BeginType
<1>1. CASE CreateProject(q)
  <2> USE <1>1 DEF CreateProject, Arrive, Active, Ended
  <2>1. ReviewHasEvidence' /\ ReportHasEvidence'
    BY DEF ReviewHasEvidence, ReportHasEvidence, Target
  <2>2. DraftHasNoRoutes' /\ GenerationsContiguous'
    BY DEF DraftHasNoRoutes, GenerationsContiguous, Stored
  <2>3. StatusAccountable'
    BY DEF StatusAccountable, Target, TypeOK
  <2>4. StepsFitOp'
    BY DEF StepsFitOp, TypeOK, Target
  <2>5. EvidenceInHand'
    BY DEF EvidenceInHand, TypeOK, Stored
  <2>6. DraftIsOver'
    BY DEF DraftIsOver, TypeOK
  <2>7. BatchesFit'
    BY DEF BatchesFit, TypeOK
  <2>8. QED
    BY <1>0, <2>1, <2>2, <2>3, <2>4, <2>5, <2>6, <2>7
<1>2. CASE BeginUpdate(q)
  BY <1>0, <1>2, CheckInd, DbInvStutter DEF BeginUpdate
<1>3. CASE BeginArchive(q)
  BY <1>0, <1>3, CheckInd, DbInvStutter DEF BeginArchive
<1>4. CASE BeginGenerate(q)
  BY <1>0, <1>4, CheckInd, DbInvStutter DEF BeginGenerate
<1>5. CASE BeginSubmit(q)
  BY <1>0, <1>5, CheckInd, DbInvStutter DEF BeginSubmit
<1>6. CASE BeginApprove(q)
  BY <1>0, <1>6, CheckInd, DbInvStutter DEF BeginApprove
<1>7. CASE BeginRequestChanges(q)
  BY <1>0, <1>7, CheckInd, DbInvStutter DEF BeginRequestChanges
<1>8. CASE BeginReport(q)
  <2> USE <1>8 DEF BeginReport, Arrive, Active, Ended
  <2>1. StatusAccountable'
    BY DEF StatusAccountable, StepsFitOp, TypeOK
  <2>2. StepsFitOp'
    BY DEF StepsFitOp, TypeOK
  <2>3. EvidenceInHand'
    BY DEF EvidenceInHand, TypeOK, Stored, Listed
  <2>4. DraftIsOver'
    BY DEF DraftIsOver, TypeOK
  <2>5. BatchesFit'
    BY DEF BatchesFit, TypeOK
  <2>6. QED
    BY <1>0, <2>1, <2>2, <2>3, <2>4, <2>5, DbInvStutter
<1>9. CASE \E r \in Route : BeginEvaluate(q, r)
  <2>1. PICK r \in Route : BeginEvaluate(q, r)
    BY <1>9
  <2> USE <2>1 DEF BeginEvaluate, Arrive, Active, Ended
  <2>2. status # "absent"
    BY DEF DraftHasNoRoutes
  <2>3. StatusAccountable'
    BY DEF StatusAccountable, StepsFitOp, TypeOK
  <2>4. StepsFitOp'
    BY <2>2 DEF StepsFitOp, TypeOK
  <2>5. EvidenceInHand'
    BY DEF EvidenceInHand, TypeOK, Stored
  <2>6. DraftIsOver'
    BY DEF DraftIsOver, TypeOK
  <2>7. BatchesFit'
    BY DEF BatchesFit, TypeOK
  <2>8. QED
    BY <1>0, <2>3, <2>4, <2>5, <2>6, <2>7, DbInvStutter
<1>10. QED
  BY <1>1, <1>2, <1>3, <1>4, <1>5, <1>6, <1>7, <1>8, <1>9 DEF Begin

-----------------------------------------------------------------------------
(* The inductive invariant: steps.                                         *)

LEMMA SaveEditInd ==
  ASSUME IndInv, NEW q \in Request, SaveEdit(q)
  PROVE  IndInv'
<1> USE DEF IndInv, SaveEdit, Goto, local, Active, Ended
<1>1. StatusAccountable' /\ StepsFitOp'
  BY DEF StatusAccountable, StepsFitOp, TypeOK
<1>2. EvidenceInHand' /\ DraftIsOver' /\ BatchesFit'
  BY DEF EvidenceInHand, DraftIsOver, BatchesFit, TypeOK, Stored
<1>3. QED
  BY <1>1, <1>2, DbInvStutter, StepType DEF Step

\* The candidate in hand becomes the evidence of the status write to come.
LEMMA SaveEvaluationInd ==
  ASSUME IndInv, NEW q \in Request, SaveEvaluation(q)
  PROVE  IndInv'
<1> USE DEF IndInv, SaveEvaluation, Goto, Active, Ended
<1>1. PICK r \in Route : todo[q] = {r} /\ op[q] = "evaluate"
  BY DEF EvidenceInHand
<1>2. r \in evaluated'
  BY <1>1
<1>3. ReviewHasEvidence' /\ ReportHasEvidence'
  BY <1>2 DEF ReviewHasEvidence, ReportHasEvidence
<1>4. DraftHasNoRoutes' /\ GenerationsContiguous'
  BY DEF DraftHasNoRoutes, GenerationsContiguous, Stored
<1>5. StatusAccountable' /\ StepsFitOp'
  BY <1>1 DEF StatusAccountable, StepsFitOp, TypeOK
<1>6. EvidenceInHand'
  BY <1>1, <1>2 DEF EvidenceInHand, TypeOK, Stored
<1>7. DraftIsOver' /\ BatchesFit'
  BY <1>1 DEF DraftIsOver, BatchesFit, TypeOK
<1>8. QED
  BY <1>3, <1>4, <1>5, <1>6, <1>7, StepType DEF Step

LEMMA SelectStatusInd ==
  ASSUME IndInv, NEW q \in Request, SelectStatus(q)
  PROVE  IndInv'
<1> USE DEF IndInv, SelectStatus, Goto, db, Active, Ended
<1>1. StatusAccountable' /\ StepsFitOp'
  BY DEF StatusAccountable, StepsFitOp, TypeOK
<1>2. EvidenceInHand' /\ BatchesFit'
  BY DEF EvidenceInHand, BatchesFit, TypeOK, Stored
<1>3. DraftIsOver'
  BY DEF DraftIsOver, StepsFitOp, TypeOK
<1>4. QED
  BY <1>1, <1>2, <1>3, DbInvStutter, StepType DEF Step

\* The status written, or left because it was loaded, is never a draft, and
\* is "review_required" only with the evidence the call brought along.
LEMMA CommitStatusInd ==
  ASSUME IndInv, NEW q \in Request, CommitStatus(q)
  PROVE  IndInv'
<1> USE DEF IndInv, CommitStatus, Goto, Active, Ended
<1>1. op[q] \in {"generate", "evaluate", "submit", "approve",
                "request_changes", "archive"}
  BY DEF StepsFitOp
<1>2. Target[op[q]] \in Status \ {"draft"}
  BY <1>1 DEF Target, Status
<1>3. status' \notin {"absent", "draft"}
  BY <1>2, UnloadedAssumption DEF DraftIsOver, Status
<1>4. Target[op[q]] = "review_required" => op[q] \in {"evaluate", "submit"}
  BY <1>1 DEF Target
<1>5. ReviewHasEvidence' /\ ReportHasEvidence'
  BY <1>4 DEF ReviewHasEvidence, ReportHasEvidence, EvidenceInHand
<1>6. DraftHasNoRoutes' /\ GenerationsContiguous'
  BY <1>3 DEF DraftHasNoRoutes, GenerationsContiguous
<1>7. StatusAccountable'
  <2>1. CASE status' = status
    BY <2>1 DEF StatusAccountable, StepsFitOp, TypeOK
  <2>2. CASE status' = Target[op[q]]
    BY <1>1, <2>2 DEF StatusAccountable, TypeOK, Target
  <2>3. QED
    BY <2>1, <2>2
<1>8. StepsFitOp'
  BY <1>1, <1>3 DEF StepsFitOp, TypeOK
<1>9. EvidenceInHand'
  BY DEF EvidenceInHand, TypeOK, Stored
<1>10. DraftIsOver'
  BY <1>3, UnloadedAssumption DEF DraftIsOver, TypeOK
<1>11. BatchesFit'
  BY DEF BatchesFit, TypeOK
<1>12. QED
  BY <1>5, <1>6, <1>7, <1>8, <1>9, <1>10, <1>11, StepType DEF Step

LEMMA ReadMaxGenerationInd ==
  ASSUME IndInv, NEW q \in Request, ReadMaxGeneration(q)
  PROVE  IndInv'
<1> USE DEF IndInv, ReadMaxGeneration, Goto, db, Active, Ended
<1>1. StatusAccountable' /\ StepsFitOp'
  BY DEF StatusAccountable, StepsFitOp, TypeOK
<1>2. EvidenceInHand' /\ DraftIsOver'
  BY DEF EvidenceInHand, DraftIsOver, TypeOK, Stored
<1>3. PICK g \in {generation[r] : r \in Route} \cup {0} :
        IsNewest(g) /\ maxGen' = [maxGen EXCEPT ![q] = g]
  OBVIOUS
<1>4. BatchesFit'
  BY <1>3 DEF BatchesFit, IsNewest, TypeOK
<1>5. QED
  BY <1>1, <1>2, <1>4, DbInvStutter, StepType DEF Step

\* The batch is new and goes one above a batch that is still there.
LEMMA InsertRoutesInd ==
  ASSUME IndInv, NEW q \in Request, NEW types \in SUBSET RouteType,
         InsertRoutes(q, types)
  PROVE  IndInv'
<1> USE DEF IndInv, InsertRoutes, Goto, Active, Ended
<1>1. \A r \in Route : r[1] = q => generation[r] = 0
  BY DEF BatchesFit, Route
<1>2. \A r \in Stored : generation'[r] = generation[r]
  BY <1>1 DEF Stored
<1>3. \A r \in Route : \/ generation'[r] = generation[r]
                       \/ r[1] = q /\ generation'[r] = maxGen[q] + 1
  OBVIOUS
<1>4. ReviewHasEvidence' /\ ReportHasEvidence'
  BY DEF ReviewHasEvidence, ReportHasEvidence
<1>5. DraftHasNoRoutes'
  BY DEF DraftHasNoRoutes, DraftIsOver
<1>6. \A s \in Route : generation[s] # 0 => generation'[s] = generation[s]
  BY <1>2 DEF Stored
<1>7. GenerationsContiguous'
  <2> SUFFICES ASSUME NEW r \in Route, generation'[r] > 1
               PROVE  \E s \in Route : generation'[s] = generation'[r] - 1
    BY DEF GenerationsContiguous
  <2>1. CASE generation'[r] = generation[r]
    <3>1. PICK s \in Route : generation[s] = generation[r] - 1
      BY <2>1 DEF GenerationsContiguous
    <3>2. generation[s] # 0
      BY <2>1, <3>1 DEF TypeOK
    <3>3. QED
      BY <1>6, <2>1, <3>1, <3>2
  <2>2. CASE generation'[r] = maxGen[q] + 1
    <3>1. maxGen[q] \in Nat /\ maxGen[q] # 0
      BY <2>2 DEF TypeOK
    <3>2. PICK s \in Route : generation[s] = maxGen[q]
      BY <3>1 DEF BatchesFit
    <3>3. QED
      BY <1>6, <2>2, <3>1, <3>2
  <2>3. QED
    BY <1>3, <2>1, <2>2
<1>8. StatusAccountable' /\ StepsFitOp'
  BY DEF StatusAccountable, StepsFitOp, TypeOK
<1>9. EvidenceInHand'
  BY <1>6 DEF EvidenceInHand, TypeOK, Stored
<1>10. DraftIsOver'
  BY DEF DraftIsOver, TypeOK
<1>11. BatchesFit'
  <2>1. ASSUME NEW p \in Request, maxGen'[p] # 0
        PROVE  \E s \in Route : generation'[s] = maxGen'[p]
    <3>1. p # q /\ maxGen'[p] = maxGen[p]
      BY <2>1 DEF TypeOK
    <3>2. PICK s \in Route : generation[s] = maxGen[p]
      BY <2>1, <3>1 DEF BatchesFit
    <3>3. QED
      BY <1>6, <2>1, <3>1, <3>2
  <2>2. ASSUME NEW p \in Request, pc'[p] \notin {"audit", "done", "lost"},
               NEW t \in RouteType
        PROVE  generation'[<<p, t>>] = 0
    <3>1. p # q /\ pc'[p] = pc[p]
      BY <2>2 DEF TypeOK
    <3>2. QED
      BY <2>2, <3>1 DEF BatchesFit, Route
  <2>3. QED
    BY <2>1, <2>2 DEF BatchesFit
<1>12. QED
  BY <1>4, <1>5, <1>7, <1>8, <1>9, <1>10, <1>11, StepType DEF Step

LEMMA EvaluatePendingInd ==
  ASSUME IndInv, NEW q \in Request, NEW r \in Route, EvaluatePending(q, r)
  PROVE  IndInv'
<1> USE DEF IndInv, EvaluatePending, Goto, Active, Ended
<1>1. ReviewHasEvidence' /\ ReportHasEvidence'
  BY DEF ReviewHasEvidence, ReportHasEvidence
<1>2. DraftHasNoRoutes' /\ GenerationsContiguous'
  BY DEF DraftHasNoRoutes, GenerationsContiguous, Stored
<1>3. StatusAccountable' /\ StepsFitOp'
  BY DEF StatusAccountable, StepsFitOp, TypeOK
<1>4. EvidenceInHand'
  BY DEF EvidenceInHand, TypeOK, Stored
<1>5. DraftIsOver' /\ BatchesFit'
  BY DEF DraftIsOver, BatchesFit, TypeOK
<1>6. QED
  BY <1>1, <1>2, <1>3, <1>4, <1>5, StepType DEF Step

LEMMA SaveReportInd ==
  ASSUME IndInv, NEW q \in Request, SaveReport(q)
  PROVE  IndInv'
<1> USE DEF IndInv, SaveReport, Goto, local, Active, Ended
<1>1. ReviewHasEvidence' /\ ReportHasEvidence'
  BY DEF ReviewHasEvidence, ReportHasEvidence, EvidenceInHand
<1>2. DraftHasNoRoutes' /\ GenerationsContiguous'
  BY DEF DraftHasNoRoutes, GenerationsContiguous, Stored
<1>3. StatusAccountable' /\ StepsFitOp'
  BY DEF StatusAccountable, StepsFitOp, TypeOK
<1>4. EvidenceInHand' /\ DraftIsOver' /\ BatchesFit'
  BY DEF EvidenceInHand, DraftIsOver, BatchesFit, TypeOK, Stored
<1>5. QED
  BY <1>1, <1>2, <1>3, <1>4, StepType DEF Step

LEMMA WriteAuditInd ==
  ASSUME IndInv, NEW q \in Request, WriteAudit(q)
  PROVE  IndInv'
<1> USE DEF IndInv, WriteAudit, Goto, local, Active, Ended
<1>1. StatusAccountable' /\ StepsFitOp'
  BY DEF StatusAccountable, StepsFitOp, TypeOK
<1>2. EvidenceInHand' /\ DraftIsOver' /\ BatchesFit'
  BY DEF EvidenceInHand, DraftIsOver, BatchesFit, TypeOK, Stored
<1>3. QED
  BY <1>1, <1>2, DbInvStutter, StepType DEF Step

LEMMA LoseInd ==
  ASSUME IndInv, NEW q \in Request, Lose(q)
  PROVE  IndInv'
<1> USE DEF IndInv, Lose, db, Active, Ended
<1>1. StatusAccountable' /\ StepsFitOp'
  BY DEF StatusAccountable, StepsFitOp, TypeOK
<1>2. EvidenceInHand'
  BY DEF EvidenceInHand, TypeOK, Stored
<1>3. DraftIsOver'
  BY UnloadedAssumption DEF DraftIsOver, TypeOK
<1>4. BatchesFit'
  BY DEF BatchesFit, TypeOK
<1>5. QED
  BY <1>1, <1>2, <1>3, <1>4, DbInvStutter, LoseType

LEMMA InitInd == Init => IndInv
<1> SUFFICES ASSUME Init PROVE IndInv
  OBVIOUS
<1> USE DEF Init
<1>1. TypeOK
  BY DEF TypeOK
<1>2. /\ ReviewHasEvidence /\ ReportHasEvidence /\ StatusAccountable
      /\ DraftHasNoRoutes /\ GenerationsContiguous
  BY DEF ReviewHasEvidence, ReportHasEvidence, StatusAccountable,
         DraftHasNoRoutes, GenerationsContiguous, Stored
<1>3. StepsFitOp /\ EvidenceInHand
  BY DEF StepsFitOp, EvidenceInHand, Active
<1>4. DraftIsOver
  BY UnloadedAssumption DEF DraftIsOver
<1>5. BatchesFit
  BY DEF BatchesFit, Route
<1>6. QED
  BY <1>1, <1>2, <1>3, <1>4, <1>5 DEF IndInv

LEMMA NextInd == IndInv /\ [Next]_vars => IndInv'
<1> SUFFICES ASSUME IndInv, [Next]_vars PROVE IndInv'
  OBVIOUS
<1>1. ASSUME NEW q \in Request, Begin(q) PROVE IndInv'
  BY <1>1, BeginInd
<1>2. ASSUME NEW q \in Request, Step(q) PROVE IndInv'
  BY <1>2, SaveEditInd, SaveEvaluationInd, SelectStatusInd, CommitStatusInd,
     ReadMaxGenerationInd, InsertRoutesInd, EvaluatePendingInd,
     SaveReportInd, WriteAuditInd DEF Step
<1>3. ASSUME NEW q \in Request, Lose(q) PROVE IndInv'
  BY <1>3, LoseInd
<1>4. CASE UNCHANGED vars
  BY <1>4 DEF vars, IndInv, TypeOK, ReviewHasEvidence, DraftHasNoRoutes,
     GenerationsContiguous, StatusAccountable, ReportHasEvidence, StepsFitOp,
     EvidenceInHand, DraftIsOver, BatchesFit, Stored
<1>5. QED
  BY <1>1, <1>2, <1>3, <1>4 DEF Next

-----------------------------------------------------------------------------
(* The theorems.                                                           *)

\* The inductive invariant holds in every reachable state.
THEOREM SpecIndInv == Spec => []IndInv
  BY InitInd, NextInd, PTL DEF Spec

\* All state of the database and of the handlers stays well-typed.
THEOREM SpecTypeOK == Spec => []TypeOK
<1>1. IndInv => TypeOK
  BY DEF IndInv
<1>2. QED
  BY <1>1, SpecIndInv, PTL

\* However submit and evaluate calls overlap with the others, a project
\* waits for review only with an evaluated candidate.
THEOREM SpecReviewHasEvidence == Spec => []ReviewHasEvidence
<1>1. IndInv => ReviewHasEvidence
  BY DEF IndInv
<1>2. QED
  BY <1>1, SpecIndInv, PTL

\* A draft has no candidates.
THEOREM SpecDraftHasNoRoutes == Spec => []DraftHasNoRoutes
<1>1. IndInv => DraftHasNoRoutes
  BY DEF IndInv
<1>2. QED
  BY <1>1, SpecIndInv, PTL

\* The generations of a project are numbered without gaps.
THEOREM SpecGenerationsContiguous == Spec => []GenerationsContiguous
<1>1. IndInv => GenerationsContiguous
  BY DEF IndInv
<1>2. QED
  BY <1>1, SpecIndInv, PTL

\* A call of the right kind answers for the status of a project.
THEOREM SpecStatusAccountable == Spec => []StatusAccountable
<1>1. IndInv => StatusAccountable
  BY DEF IndInv
<1>2. QED
  BY <1>1, SpecIndInv, PTL

\* A report on file has an evaluated candidate behind it.
THEOREM SpecReportHasEvidence == Spec => []ReportHasEvidence
<1>1. IndInv => ReportHasEvidence
  BY DEF IndInv
<1>2. QED
  BY <1>1, SpecIndInv, PTL

-----------------------------------------------------------------------------
(* Approval.                                                               *)

\* Changes are asked for only once a candidate of the project is evaluated.
\* (The check of request-changes lets a project pass that is "evaluating",
\* which it is from the first generate call on.)
ChangesAfterEvaluation ==
  \A q \in Request :
    pc[q] = "idle" /\ op'[q] = "request_changes" /\ pc'[q] = "select" =>
      evaluated # {}

\* A project that is approved or sent back, or about to be, is evaluated.
DecidedEvaluated ==
  /\ status \in {"reviewed", "change_requested"} => evaluated # {}
  /\ \A q \in Request :
       pc[q] \in {"select", "write"} /\ op[q] \in {"approve", "request_changes"} =>
         evaluated # {}

LEMMA BeginDecided ==
  ASSUME IndInv, DecidedEvaluated, NEW q \in Request, Begin(q),
         ChangesAfterEvaluation
  PROVE  DecidedEvaluated'
<1> USE DEF IndInv, TypeOK, DecidedEvaluated
<1>1. evaluated' = evaluated
  BY DEF Begin, CreateProject, BeginUpdate, BeginArchive, BeginGenerate, BeginSubmit,
     BeginApprove, BeginRequestChanges, BeginReport, BeginEvaluate, Check, db
<1>2. status' = status \/ status' = "draft"
  BY DEF Begin, CreateProject, BeginUpdate, BeginArchive, BeginGenerate, BeginSubmit,
     BeginApprove, BeginRequestChanges, BeginReport, BeginEvaluate, Check, db, Target
<1>3. \A p \in Request \ {q} : pc'[p] = pc[p] /\ op'[p] = op[p]
  BY DEF Begin, CreateProject, BeginUpdate, BeginArchive, BeginGenerate, BeginSubmit,
     BeginApprove, BeginRequestChanges, BeginReport, BeginEvaluate, Check, Arrive
<1>4. ASSUME pc'[q] \in {"select", "write"}, op'[q] \in {"approve", "request_changes"}
      PROVE  evaluated # {}
  <2>1. CASE BeginApprove(q)
    <3>1. status \in {"review_required", "change_requested"}
      BY <1>4, <2>1 DEF BeginApprove, Check, Arrive
    <3>2. QED
      BY <3>1 DEF ReviewHasEvidence
  <2>2. CASE BeginRequestChanges(q)
    <3>1. pc[q] = "idle" /\ op'[q] = "request_changes" /\ pc'[q] = "select"
      BY <1>4, <2>2 DEF BeginRequestChanges, Check, Arrive
    <3>2. QED
      BY <3>1 DEF ChangesAfterEvaluation
  <2>3. CASE ~BeginApprove(q) /\ ~BeginRequestChanges(q)
    BY <1>4, <2>3 DEF Begin, CreateProject, BeginUpdate, BeginArchive, BeginGenerate,
       BeginSubmit, BeginReport, BeginEvaluate, Check, Arrive
  <2>4. QED
    BY <2>1, <2>2, <2>3
<1>5. QED
  BY <1>1, <1>2, <1>3, <1>4

LEMMA StepDecided ==
  ASSUME IndInv, DecidedEvaluated, NEW q \in Request, Step(q) \/ Lose(q)
  PROVE  DecidedEvaluated'
<1> USE DEF IndInv, TypeOK, DecidedEvaluated
<1>1. evaluated \subseteq evaluated'
  BY DEF Step, SaveEdit, SaveEvaluation, SelectStatus, CommitStatus,
     ReadMaxGeneration, InsertRoutes, EvaluatePending, SaveReport, WriteAudit, Lose, db
<1>2. op' = op /\ \A p \in Request \ {q} : pc'[p] = pc[p]
  BY DEF Step, SaveEdit, SaveEvaluation, SelectStatus, CommitStatus,
     ReadMaxGeneration, InsertRoutes, EvaluatePending, SaveReport, WriteAudit, Lose, Goto
<1>3. CASE CommitStatus(q)
  <2>1. /\ pc[q] = "write" /\ pc'[q] \in {"read_max", "audit"}
        /\ status' = status \/ status' = Target[op[q]]
    BY <1>3 DEF CommitStatus, Goto
  <2>2. op[q] \in {"generate", "evaluate", "submit", "approve",
                   "request_changes", "archive"}
    BY <2>1 DEF StepsFitOp
  <2>3. status' \in {"reviewed", "change_requested"} =>
          status' = status \/ op[q] \in {"approve", "request_changes"}
    BY <2>1, <2>2 DEF Target
  <2>4. QED
    BY <1>1, <1>2, <2>1, <2>3
<1>4. CASE ~CommitStatus(q)
  <2>1. status' = status
    BY <1>4 DEF Step, SaveEdit, SaveEvaluation, SelectStatus,
       ReadMaxGeneration, InsertRoutes, EvaluatePending, SaveReport, WriteAudit,
       Lose, db
  <2>2. pc'[q] \in {"select", "write"} =>
          pc[q] = "select" \/ (pc[q] = "save_evaluation" /\ op[q] = "evaluate")
    BY <1>4 DEF Step, SaveEdit, SaveEvaluation, SelectStatus,
       ReadMaxGeneration, InsertRoutes, EvaluatePending, SaveReport, WriteAudit,
       Lose, Goto, EvidenceInHand
  <2>3. QED
    BY <1>1, <1>2, <2>1, <2>2
<1>5. QED
  BY <1>3, <1>4

\* main.py:411, "Only submitted projects can be approved.", is true of every
\* project nobody sends back before its first evaluation, however the calls
\* overlap and wherever they are lost; approve_unsubmitted shows that it is
\* not of the others.
THEOREM SpecOnlySubmittedApproved ==
  Spec /\ [][ChangesAfterEvaluation]_vars => []OnlySubmittedApproved
<1>1. Init => DecidedEvaluated
  BY DEF Init, DecidedEvaluated
<1>2. IndInv /\ DecidedEvaluated /\ [Next]_vars /\ [ChangesAfterEvaluation]_vars
        => DecidedEvaluated'
  <2> SUFFICES ASSUME IndInv, DecidedEvaluated, [Next]_vars,
                      [ChangesAfterEvaluation]_vars
               PROVE  DecidedEvaluated'
    OBVIOUS
  <2>1. CASE UNCHANGED vars
    BY <2>1 DEF vars, DecidedEvaluated
  <2>2. CASE ~UNCHANGED vars
    BY <2>2, BeginDecided, StepDecided DEF Next
  <2>3. QED
    BY <2>1, <2>2
<1>3. DecidedEvaluated => OnlySubmittedApproved
  BY DEF DecidedEvaluated, OnlySubmittedApproved
<1>4. QED
  BY <1>1, <1>2, <1>3, SpecIndInv, PTL DEF Spec

-----------------------------------------------------------------------------
(* Edits.                                                                  *)

Closed == {"reviewed", "archived"}

\* No commit closes the project between the check of a PATCH and its commit.
ClosesApart ==
  status \notin Closed /\ status' \in Closed => \A q \in Request : pc[q] # "edit"

\* An edit under way has an open project to write to.
EditsOpen == \A q \in Request : pc[q] = "edit" => status \notin Closed

LEMMA EditsOpenNext ==
  ASSUME TypeOK, EditsOpen, [Next]_vars, [ClosesApart]_vars
  PROVE  EditsOpen'
<1> USE DEF TypeOK, EditsOpen
<1>1. CASE UNCHANGED vars
  BY <1>1 DEF vars
<1>2. CASE ~UNCHANGED vars
  <2> SUFFICES ASSUME NEW q \in Request, pc'[q] = "edit" PROVE status' \notin Closed
    OBVIOUS
  <2>1. PICK p \in Request : Begin(p) \/ Step(p) \/ Lose(p)
    BY <1>2 DEF Next
  <2>2. CASE pc[q] = "edit"
    BY <1>2, <2>2 DEF ClosesApart
  <2>3. CASE pc[q] # "edit"
    <3>1. BeginUpdate(q)
      BY <2>1, <2>3 DEF Begin, CreateProject, BeginUpdate, BeginArchive,
         BeginGenerate, BeginSubmit, BeginApprove, BeginRequestChanges, BeginReport,
         BeginEvaluate, Check, Arrive, Step, SaveEdit, SaveEvaluation, SelectStatus,
         CommitStatus, ReadMaxGeneration, InsertRoutes, EvaluatePending, SaveReport,
         WriteAudit, Lose, Goto
    <3>2. QED
      BY <3>1 DEF BeginUpdate, Check, Arrive, db, Closed
  <2>4. QED
    BY <2>2, <2>3
<1>3. QED
  BY <1>1, <1>2

\* README.md:353, a reviewed or archived project is not edited, is kept as long
\* as no approval or archiving is committed while an edit is under way, and
\* whatever else overlaps it; edit_race shows what happens otherwise.
THEOREM SpecClosedProjectNotEdited ==
  Spec /\ [][ClosesApart]_vars => ClosedProjectNotEdited
<1>1. Init => EditsOpen
  BY DEF Init, EditsOpen
<1>2. TypeOK /\ EditsOpen /\ [Next]_vars /\ [ClosesApart]_vars => EditsOpen'
  BY EditsOpenNext
<1>3. TypeOK /\ EditsOpen /\ [Next]_vars =>
        [edits' # edits => status \notin {"reviewed", "archived"}]_vars
  <2> SUFFICES ASSUME EditsOpen, Next, edits' # edits
               PROVE  status \notin {"reviewed", "archived"}
    BY DEF vars
  <2>1. PICK q \in Request : SaveEdit(q)
    BY DEF Next, Begin, Step, Lose, CreateProject, BeginUpdate, BeginArchive,
       BeginGenerate, BeginSubmit, BeginApprove, BeginRequestChanges, BeginReport,
       BeginEvaluate, Check, SaveEdit, SaveEvaluation, SelectStatus, CommitStatus,
       ReadMaxGeneration, InsertRoutes, EvaluatePending, SaveReport, WriteAudit, db
  <2>2. QED
    BY <2>1 DEF SaveEdit, Goto, EditsOpen, Closed
<1>4. QED
  BY <1>1, <1>2, <1>3, SpecTypeOK, PTL DEF Spec, ClosedProjectNotEdited

-----------------------------------------------------------------------------
(* Calls that were served alone.                                           *)

\* An arrival makes everybody meet whom it finds, and a lone arrival finds a
\* project nobody else is about to change.
LEMMA BeginLone ==
  ASSUME IndInv, LoneCalls, OneBatchPerGeneration, NEW q \in Request, Begin(q)
  PROVE  LoneCalls' /\ OneBatchPerGeneration'
<1> USE DEF IndInv, TypeOK, db, local, Check, Arrive, InFlight, Active, Ended
<1>1. UNCHANGED <<generation, maxGen>>
  BY DEF Begin, CreateProject, BeginUpdate, BeginArchive, BeginGenerate,
     BeginSubmit, BeginApprove, BeginRequestChanges, BeginReport, BeginEvaluate
<1>2. /\ \A p \in Request : pc'[p] \in Active => pc[p] \in Active \/ p = q
      /\ met' = IF InFlight = {} THEN met ELSE met \cup InFlight \cup {q}
      /\ pc[q] = "idle" /\ pc'[q] # "insert"
      /\ \A p \in Request \ {q} : pc'[p] = pc[p]
  BY DEF Begin, CreateProject, BeginUpdate, BeginArchive, BeginGenerate,
     BeginSubmit, BeginApprove, BeginRequestChanges, BeginReport, BeginEvaluate
<1>3. met \subseteq met'
  BY <1>2
<1>4. pc'[q] = "edit" => status' \in {"draft", "evaluating", "change_requested"}
  BY DEF Begin, CreateProject, BeginUpdate, BeginArchive, BeginGenerate,
     BeginSubmit, BeginApprove, BeginRequestChanges, BeginReport, BeginEvaluate
<1>5. status' = status \/ status = "absent"
  BY DEF Begin, CreateProject, BeginUpdate, BeginArchive, BeginGenerate,
     BeginSubmit, BeginApprove, BeginRequestChanges, BeginReport, BeginEvaluate
<1>6. \A p \in Request \ {q} : pc[p] = "edit" => status' = status
  BY <1>5 DEF StepsFitOp
<1>7. ASSUME NEW p \in InFlight' \ met'
      PROVE  InFlight' = {p}
  <2>1. CASE InFlight = {}
    BY <1>2, <1>7, <2>1
  <2>2. CASE InFlight # {}
    BY <1>2, <1>7, <2>2
  <2>3. QED
    BY <2>1, <2>2
<1>8. ASSUME NEW p \in Request, pc'[p] = "edit", p \notin met'
      PROVE  status' \in {"draft", "evaluating", "change_requested"}
  BY <1>2, <1>3, <1>4, <1>6, <1>8 DEF LoneCalls
<1>9. ASSUME NEW p \in Request, pc'[p] = "insert",
             NEW r \in Route, generation'[r] > maxGen'[p]
      PROVE  {r[1], p} \subseteq met'
  BY <1>1, <1>2, <1>3, <1>9 DEF LoneCalls
<1>10. LoneCalls'
  BY <1>7, <1>8, <1>9 DEF LoneCalls
<1>11. OneBatchPerGeneration'
  BY <1>1, <1>3 DEF OneBatchPerGeneration, Stored
<1>12. QED
  BY <1>10, <1>11

\* A step changes nothing for a lone call but its own: while it is alone no
\* other call takes one.
LEMMA StepLone ==
  ASSUME IndInv, LoneCalls, OneBatchPerGeneration, NEW q \in Request, Step(q)
  PROVE  LoneCalls' /\ OneBatchPerGeneration'
<1> USE DEF IndInv, TypeOK, db, local, Goto, Active, Ended
<1>1. /\ met' = met
      /\ \A p \in Request \ {q} : pc'[p] = pc[p]
      /\ pc[q] \in Active /\ pc'[q] # "edit"
      /\ \A p \in Request \ {q} : maxGen'[p] = maxGen[p]
  BY DEF Step, SaveEdit, SaveEvaluation, SelectStatus, CommitStatus,
     ReadMaxGeneration, InsertRoutes, EvaluatePending, SaveReport, WriteAudit
<1>2. \A p \in Request : p \in InFlight' => p \in InFlight
  BY <1>1 DEF InFlight
<1>3. \A p \in InFlight \ met : InFlight = {p}
  BY DEF LoneCalls, InFlight
<1>4. ASSUME NEW p \in InFlight' \ met' PROVE InFlight' = {p}
  BY <1>1, <1>2, <1>3, <1>4 DEF InFlight
<1>5. ASSUME NEW p \in Request, pc'[p] = "edit", p \notin met'
      PROVE  status' \in {"draft", "evaluating", "change_requested"}
  <2>1. p # q /\ pc[p] = "edit"
    BY <1>1, <1>5
  <2>2. p \in InFlight \ met /\ q \in InFlight
    BY <1>1, <1>5, <2>1 DEF InFlight
  <2>3. QED
    BY <1>3, <2>1, <2>2
<1>6. CASE \E types \in SUBSET RouteType : InsertRoutes(q, types)
  <2>1. PICK types \in SUBSET RouteType : InsertRoutes(q, types)
    BY <1>6
  <2>2. /\ pc[q] = "insert" /\ pc'[q] = "audit" /\ maxGen[q] \in Nat
        /\ generation' = [r \in Route |->
              IF r[1] = q /\ r[2] \in types THEN maxGen[q] + 1
                                             ELSE generation[r]]
    BY <2>1 DEF InsertRoutes
  <2>3. \A r \in Route : \/ generation'[r] = generation[r]
                         \/ (r[1] = q /\ generation'[r] = maxGen[q] + 1)
    BY <2>2
  <2>4. ASSUME NEW p \in Request, pc'[p] = "insert",
               NEW r \in Route, generation'[r] > maxGen'[p]
        PROVE  {r[1], p} \subseteq met'
    <3>1. p # q /\ pc[p] = "insert" /\ maxGen'[p] = maxGen[p]
      BY <1>1, <2>2, <2>4
    <3>2. CASE generation'[r] = generation[r]
      BY <1>1, <2>4, <3>1, <3>2 DEF LoneCalls
    <3>3. CASE r[1] = q
      <4>1. p \in InFlight /\ q \in InFlight
        BY <1>1, <3>1 DEF InFlight
      <4>2. p \in met /\ q \in met
        BY <1>3, <3>1, <4>1
      <4>3. QED
        BY <1>1, <3>3, <4>2
    <3>4. QED
      BY <2>3, <3>2, <3>3
  <2>5. ASSUME NEW r \in Stored', NEW s \in Stored',
               generation'[r] = generation'[s], r[1] # s[1]
        PROVE  {r[1], s[1]} \subseteq met'
    <3>0. r \in Route /\ s \in Route
      BY DEF Stored
    <3>1. CASE r[1] # q /\ s[1] # q
      <4>1. generation'[r] = generation[r] /\ generation'[s] = generation[s]
        BY <2>3, <3>0, <3>1
      <4>2. r \in Stored /\ s \in Stored
        BY <3>0, <4>1 DEF Stored
      <4>3. generation[r] = generation[s] /\ r[1] # s[1]
        BY <2>5, <4>1
      <4>4. {r[1], s[1]} \subseteq met
        BY <4>2, <4>3 DEF OneBatchPerGeneration
      <4>5. QED
        BY <1>1, <4>4
    <3>2. ASSUME NEW x \in Route, NEW y \in Route, x[1] = q, y[1] # q,
                 generation'[x] # 0, generation'[x] = generation'[y]
          PROVE  {x[1], y[1]} \subseteq met'
      <4>1. generation[x] = 0
        BY <2>2, <3>2 DEF BatchesFit, Route
      <4>2. generation'[x] = maxGen[q] + 1 /\ generation'[y] = generation[y]
        BY <2>3, <3>2, <4>1
      <4>3. generation[y] > maxGen[q]
        BY <2>2, <3>2, <4>2
      <4>4. QED
        BY <1>1, <2>2, <3>2, <4>3 DEF LoneCalls
    <3>3. QED
      BY <2>5, <3>0, <3>1, <3>2 DEF Stored
  <2>6. QED
    BY <1>4, <1>5, <2>4, <2>5 DEF LoneCalls, OneBatchPerGeneration
<1>7. CASE ~(\E types \in SUBSET RouteType : InsertRoutes(q, types))
  <2>1. generation' = generation
    BY <1>7 DEF Step, SaveEdit, SaveEvaluation, SelectStatus, CommitStatus,
       ReadMaxGeneration, EvaluatePending, SaveReport, WriteAudit
  <2>2. ASSUME NEW p \in Request, pc'[p] = "insert",
               NEW r \in Route, generation'[r] > maxGen'[p]
        PROVE  {r[1], p} \subseteq met'
    <3>1. CASE p # q
      BY <1>1, <2>1, <2>2, <3>1 DEF LoneCalls
    <3>2. CASE p = q
      <4>1. ReadMaxGeneration(q)
        BY <1>7, <2>2, <3>2 DEF Step, SaveEdit, SaveEvaluation, SelectStatus,
           CommitStatus, EvaluatePending, SaveReport, WriteAudit
      <4>2. PICK g \in {generation[x] : x \in Route} \cup {0} :
              IsNewest(g) /\ maxGen' = [maxGen EXCEPT ![q] = g]
        BY <4>1 DEF ReadMaxGeneration
      <4>3. generation[r] <= maxGen'[q]
        BY <4>2 DEF IsNewest
      <4>4. generation[r] \in Nat /\ maxGen'[q] \in Nat
        BY <4>2
      <4>5. QED
        BY <2>1, <2>2, <3>2, <4>3, <4>4
    <3>3. QED
      BY <3>1, <3>2
  <2>3. QED
    BY <1>1, <1>4, <1>5, <2>1, <2>2
    DEF LoneCalls, OneBatchPerGeneration, Stored
<1>8. QED
  BY <1>6, <1>7

LEMMA LoseLone ==
  ASSUME IndInv, LoneCalls, OneBatchPerGeneration, NEW q \in Request, Lose(q)
  PROVE  LoneCalls' /\ OneBatchPerGeneration'
  BY DEF IndInv, TypeOK, Lose, db, LoneCalls, OneBatchPerGeneration, Stored,
     InFlight, Active

LoneInv == IndInv /\ LoneCalls /\ OneBatchPerGeneration

LEMMA LoneInvInduction ==
  /\ Init => LoneInv
  /\ LoneInv /\ [Next]_vars => LoneInv'
<1>1. Init => LoneInv
  BY InitInd DEF LoneInv, Init, LoneCalls, OneBatchPerGeneration, Stored,
     InFlight, Active
<1>2. ASSUME LoneInv, [Next]_vars PROVE LoneInv'
  <2>1. CASE UNCHANGED vars
    BY <1>2, <2>1, NextInd DEF LoneInv, vars, LoneCalls,
       OneBatchPerGeneration, Stored, InFlight
  <2>2. CASE Next
    BY <1>2, <2>2, NextInd, BeginLone, StepLone, LoseLone DEF LoneInv, Next
  <2>3. QED
    BY <1>2, <2>1, <2>2
<1>3. QED
  BY <1>1, <1>2

THEOREM SpecLoneInv == Spec => []LoneInv
  BY LoneInvInduction, PTL DEF Spec

\* A generation is the batch of one generate call, unless each of the calls
\* that share it overlapped another one.
THEOREM SpecOneBatchPerGeneration == Spec => []OneBatchPerGeneration
<1>1. LoneInv => OneBatchPerGeneration
  BY DEF LoneInv
<1>2. QED
  BY <1>1, SpecLoneInv, PTL

\* A call served alone finds nobody beside it and what it has checked as it
\* was.
THEOREM SpecLoneCalls == Spec => []LoneCalls
<1>1. LoneInv => LoneCalls
  BY DEF LoneInv
<1>2. QED
  BY <1>1, SpecLoneInv, PTL

\* An edit served alone never reaches a reviewed or archived project.
THEOREM SpecLoneEditKeptOut == Spec => LoneEditKeptOut
<1>1. LoneInv /\ [Next]_vars =>
        [\A q \in edits' \ edits :
           q \notin met => status \notin {"reviewed", "archived"}]_vars
  <2> SUFFICES ASSUME LoneInv, Next, NEW q \in edits' \ edits, q \notin met
               PROVE  status \notin {"reviewed", "archived"}
    BY DEF vars
  <2>1. q \in Request /\ SaveEdit(q)
    BY DEF LoneInv, IndInv, TypeOK, Next, Begin, Step, Lose, CreateProject,
       BeginUpdate, BeginArchive, BeginGenerate, BeginSubmit, BeginApprove,
       BeginRequestChanges, BeginReport, BeginEvaluate, Check, SaveEdit,
       SaveEvaluation, SelectStatus, CommitStatus, ReadMaxGeneration,
       InsertRoutes, EvaluatePending, SaveReport, WriteAudit, db, local
  <2>2. QED
    BY <2>1 DEF LoneInv, LoneCalls, SaveEdit, Goto
<1>2. QED
  BY <1>1, SpecLoneInv, PTL DEF Spec, LoneEditKeptOut

\* The batch a generate call served alone has saved is newer than any other.
THEOREM SpecLoneBatchIsListed == Spec => LoneBatchIsListed
<1>1. LoneInv /\ [Next]_vars =>
        [\A r \in Route :
           generation[r] = 0 /\ generation'[r] # 0 /\ r[1] \notin met =>
             \A s \in Route :
               s[1] # r[1] => generation'[s] < generation'[r]]_vars
  <2> SUFFICES ASSUME LoneInv, Next, NEW r \in Route, NEW s \in Route,
                      generation[r] = 0, generation'[r] # 0, r[1] \notin met,
                      s[1] # r[1]
               PROVE  generation'[s] < generation'[r]
    BY DEF vars
  <2>1. PICK q \in Request, types \in SUBSET RouteType : InsertRoutes(q, types)
    BY DEF LoneInv, IndInv, TypeOK, Next, Begin, Step, Lose, CreateProject,
       BeginUpdate, BeginArchive, BeginGenerate, BeginSubmit, BeginApprove,
       BeginRequestChanges, BeginReport, BeginEvaluate, Check, SaveEdit,
       SaveEvaluation, SelectStatus, CommitStatus, ReadMaxGeneration,
       EvaluatePending, SaveReport, WriteAudit, db, local
  <2>2. r[1] = q /\ generation'[r] = maxGen[q] + 1 /\ pc[q] = "insert"
    BY <2>1 DEF InsertRoutes, Goto
  <2>3. generation[s] <= maxGen[q]
    BY <2>2 DEF LoneInv, LoneCalls, IndInv, TypeOK
  <2>4. generation'[s] = generation[s]
    BY <2>1, <2>2 DEF InsertRoutes
  <2>5. maxGen[q] \in Nat /\ generation[s] \in Nat
    BY DEF LoneInv, IndInv, TypeOK
  <2>6. QED
    BY <2>2, <2>3, <2>4, <2>5
<1>2. QED
  BY <1>1, SpecLoneInv, PTL DEF Spec, LoneBatchIsListed

-----------------------------------------------------------------------------
(* The workflow implements the life cycle.                                 *)

LEMMA InitLifecycle == Init => Lifecycle!Init
  BY DEF Init, Lifecycle!Init, Lifecycle!Candidate, Route

LEMMA BeginLifecycle ==
  ASSUME NEW q \in Request, Begin(q)
  PROVE  [Lifecycle!Next]_(Lifecycle!lifecycleVars)
<1> USE DEF db, Check, Lifecycle!lifecycleVars
<1>1. CASE CreateProject(q)
  BY <1>1 DEF CreateProject, Target, Lifecycle!Next, Lifecycle!Create
<1>2. CASE BeginReport(q)
  BY <1>2 DEF BeginReport
<1>3. CASE \E r \in Route : BeginEvaluate(q, r)
  BY <1>3 DEF BeginEvaluate
<1>4. QED
  BY <1>1, <1>2, <1>3 DEF Begin, BeginUpdate, BeginArchive, BeginGenerate,
     BeginSubmit, BeginApprove, BeginRequestChanges

\* A status commit is the life cycle's change of that status, or nothing.
LEMMA CommitStatusLifecycle ==
  ASSUME IndInv, NEW q \in Request, CommitStatus(q)
  PROVE  [Lifecycle!Next]_(Lifecycle!lifecycleVars)
<1> USE DEF IndInv, CommitStatus, Goto, Active, Lifecycle!lifecycleVars
<1>1. pc[q] = "write" /\ status # "absent"
  BY DEF StepsFitOp
<1>2. op[q] \in {"generate", "evaluate", "submit", "approve",
                "request_changes", "archive"}
  BY DEF StepsFitOp
<1>3. CASE status' = status
  BY <1>3
<1>4. CASE status' = Target[op[q]]
  <2>1. CASE op[q] = "generate"
    BY <1>1, <1>4, <2>1 DEF Target, Lifecycle!StartGeneration, Lifecycle!Next
  <2>2. CASE op[q] \in {"evaluate", "submit"}
    BY <1>1, <1>4, <2>2
    DEF Target, EvidenceInHand, Lifecycle!EnterReview, Lifecycle!Next
  <2>3. CASE op[q] \in {"approve", "request_changes"}
    BY <1>1, <1>4, <2>3
    DEF Target, DraftIsOver, Lifecycle!Decide, Lifecycle!Next
  <2>4. CASE op[q] = "archive"
    BY <1>1, <1>4, <2>4 DEF Target, Lifecycle!Archive, Lifecycle!Next
  <2>5. QED
    BY <1>2, <2>1, <2>2, <2>3, <2>4
<1>5. QED
  BY <1>3, <1>4

\* Saving a batch is the life cycle's AddBatch with the number read before.
LEMMA InsertRoutesLifecycle ==
  ASSUME IndInv, NEW q \in Request, NEW types \in SUBSET RouteType,
         InsertRoutes(q, types)
  PROVE  Lifecycle!Next
<1> DEFINE g == maxGen[q] + 1
<1> USE DEF IndInv, InsertRoutes, Goto
<1>1. \A t \in RouteType : generation[<<q, t>>] = 0
  BY DEF BatchesFit
<1>2. g \in Lifecycle!NextGeneration
  <2>1. CASE maxGen[q] = 0
    BY <2>1 DEF Lifecycle!NextGeneration
  <2>2. CASE maxGen[q] # 0
    <3>1. PICK s \in Route : generation[s] = maxGen[q]
      BY <2>2 DEF BatchesFit
    <3>2. QED
      BY <3>1 DEF Lifecycle!NextGeneration, Lifecycle!Candidate, Route
  <2>3. QED
    BY <2>1, <2>2
<1>3. status \notin {"absent", "draft"}
  BY DEF DraftIsOver
<1>4. Lifecycle!AddBatch(q, types, g)
  BY <1>1, <1>3 DEF Lifecycle!AddBatch, Lifecycle!Candidate, Route
<1>5. QED
  BY <1>2, <1>4 DEF Lifecycle!Next

LEMMA StepLifecycle ==
  ASSUME IndInv, NEW q \in Request, Step(q)
  PROVE  [Lifecycle!Next]_(Lifecycle!lifecycleVars)
<1> USE DEF db, Lifecycle!lifecycleVars
<1>1. CASE SaveEvaluation(q)
  <2>1. PICK r \in Route : todo[q] = {r}
    BY <1>1 DEF IndInv, EvidenceInHand, SaveEvaluation, Goto
  <2>2. generation[r] # 0
    BY <2>1 DEF IndInv, EvidenceInHand, Stored
  <2>3. Lifecycle!Evaluate(r)
    BY <1>1, <2>1, <2>2 DEF SaveEvaluation, Lifecycle!Evaluate
  <2>4. QED
    BY <2>3 DEF Lifecycle!Next, Lifecycle!Candidate, Route
<1>2. CASE \E r \in Route : EvaluatePending(q, r)
  <2>1. PICK r \in Route : EvaluatePending(q, r)
    BY <1>2
  <2>2. generation[r] # 0
    BY <2>1 DEF IndInv, EvidenceInHand, EvaluatePending, Stored
  <2>3. Lifecycle!Evaluate(r)
    BY <2>1, <2>2 DEF EvaluatePending, Lifecycle!Evaluate
  <2>4. QED
    BY <2>3 DEF Lifecycle!Next, Lifecycle!Candidate, Route
<1>3. CASE CommitStatus(q)
  BY <1>3, CommitStatusLifecycle
<1>4. CASE \E types \in SUBSET RouteType : InsertRoutes(q, types)
  BY <1>4, InsertRoutesLifecycle
<1>5. CASE \/ SaveEdit(q) \/ SelectStatus(q) \/ ReadMaxGeneration(q)
           \/ SaveReport(q) \/ WriteAudit(q)
  BY <1>5 DEF SaveEdit, SelectStatus, ReadMaxGeneration, SaveReport, WriteAudit
<1>6. QED
  BY <1>1, <1>2, <1>3, <1>4, <1>5 DEF Step

\* The workflow with overlapping and lost calls implements the life cycle:
\* candidates are only added, review needs evidence, drafts are not decided.
THEOREM SpecLifecycle == Spec => LifecycleSpec
<1>1. IndInv /\ [Next]_vars => [Lifecycle!Next]_(Lifecycle!lifecycleVars)
  <2> SUFFICES ASSUME IndInv, [Next]_vars
               PROVE  [Lifecycle!Next]_(Lifecycle!lifecycleVars)
    OBVIOUS
  <2>1. CASE UNCHANGED vars
    BY <2>1 DEF vars, Lifecycle!lifecycleVars
  <2>2. ASSUME NEW q \in Request, Lose(q)
        PROVE  UNCHANGED Lifecycle!lifecycleVars
    BY <2>2 DEF Lose, db, Lifecycle!lifecycleVars
  <2>3. QED
    BY <2>1, <2>2, BeginLifecycle, StepLifecycle DEF Next
<1>2. QED
  BY <1>1, InitLifecycle, SpecIndInv, PTL DEF Spec, LifecycleSpec, Lifecycle!Spec
=============================================================================
