-------------------------- MODULE RouteConsoleProofs --------------------------
(***************************************************************************)
(* Proofs about RouteConsole, for any projects, any number of jobs and of  *)
(* candidates in an answer.                                                *)
(***************************************************************************)
EXTENDS RouteConsole, FiniteSetTheorems, WellFoundedInduction, TLAPS

-----------------------------------------------------------------------------
(* Type correctness.                                                       *)

\* What a job waits for tells what else its record holds.
LEMMA TaskFields ==
  ASSUME NEW task \in Task
  PROVE  /\ task.pc \in {"generating", "opening", "deleting", "posting",
                         "confirming", "evaluating", "reporting", "downloading"}
              => task.project \in Project
         /\ task.pc = "evaluating" => /\ task.todo \in SUBSET Candidate
                                      /\ task.todo # {}
         /\ task.pc = "reporting" => task.format \in CodeFormat
         /\ task.pc = "downloading" => task.format \in Format
         /\ task.pc = "saving" => /\ task.project \in Project \cup {NoProject}
                                  /\ task.generate \in BOOLEAN
         /\ task.pc = "listing" => /\ task.generate \in BOOLEAN
                                   /\ task.generate => task.project \in Project
<1>1. CASE task \in {Unused, Ended}
  BY <1>1 DEF Unused, Ended
<1>2. CASE task \in [pc : {"generating", "opening", "deleting", "posting",
                           "confirming"}, project : Project]
  BY <1>2
<1>3. CASE task \in [pc : {"evaluating"}, project : Project,
                     todo : (SUBSET Candidate) \ {{}}]
  BY <1>3
<1>4. CASE task \in [pc : {"reporting"}, project : Project, format : CodeFormat]
  BY <1>4
<1>5. CASE task \in [pc : {"downloading"}, project : Project, format : Format]
  BY <1>5
<1>6. CASE task \in [pc : {"saving"}, project : Project \cup {NoProject},
                     form : Project \cup {NoProject}, generate : BOOLEAN]
  BY <1>6
<1>7. CASE task \in [pc : {"listing"}, project : Project, generate : BOOLEAN]
  BY <1>7
<1>8. CASE task \in [pc : {"listing"}, project : {NoProject}, generate : {FALSE}]
  BY <1>8
<1>9. QED
  BY <1>1, <1>2, <1>3, <1>4, <1>5, <1>6, <1>7, <1>8 DEF Task

LEMMA ClickType ==
  ASSUME TypeOK, ClickNext
  PROVE  TypeOK'
<1> USE DEF TypeOK, ScreenState, Start, Click, Waits, Opened, CodeFormat, Format
<1>1. ASSUME NEW p \in Project, ReopenProject(p)
      PROVE  TypeOK'
  BY <1>1 DEF ReopenProject
<1>2. ASSUME NEW generate \in BOOLEAN, SaveInvalid(generate)
      PROVE  TypeOK'
  BY <1>2 DEF SaveInvalid
<1>3. ASSUME CancelEdit
      PROVE  TypeOK'
  BY <1>3 DEF CancelEdit
<1>4. ASSUME NEW f \in Format, ChooseFormat(f)
      PROVE  TypeOK'
  BY <1>4 DEF ChooseFormat
<1>5. ASSUME NEW j \in Job, NEW p \in Project, SelectProject(j, p)
      PROVE  TypeOK'
  <2>1. Waits("generating", p) \in Task
    BY DEF Task
  <2>2. QED
    BY <1>5, <2>1 DEF SelectProject
<1>6. ASSUME NEW j \in Job, NEW p \in Project, EditProject(j, p)
      PROVE  TypeOK'
  <2>1. Waits("opening", p) \in Task
    BY DEF Task
  <2>2. QED
    BY <1>6, <2>1 DEF EditProject
<1>7. ASSUME NEW j \in Job, NEW p \in Project, DeleteProject(j, p)
      PROVE  TypeOK'
  <2>1. Waits("deleting", p) \in Task
    BY DEF Task
  <2>2. QED
    BY <1>7, <2>1 DEF DeleteProject
<1>8. ASSUME NEW j \in Job, NEW generate \in BOOLEAN, SaveProject(j, generate)
      PROVE  TypeOK'
  <2>1. [pc |-> "saving", project |-> state.editingProjectId,
         form |-> state.projectForm, generate |-> generate] \in Task
    BY DEF Task
  <2>2. QED
    BY <1>8, <2>1 DEF SaveProject
<1>9. ASSUME NEW j \in Job, NEW f \in Format, FetchReport(j, f)
      PROVE  TypeOK'
  <2>1. [pc |-> "reporting", project |-> state.activeProjectId,
         format |-> f] \in Task
    BY <1>9 DEF Task, FetchReport
  <2>2. QED
    BY <1>9, <2>1 DEF FetchReport
<1>10. ASSUME NEW j \in Job, NEW r \in Pins, ConfirmRisk(j, r)
       PROVE  TypeOK'
  <2>1. r.project \in Project
    BY DEF Pins, Candidate
  <2>2. Waits("confirming", r.project) \in Task
    BY <2>1 DEF Task
  <2>3. QED
    BY <1>10, <2>2 DEF ConfirmRisk
<1>11. ASSUME NEW j \in Job, RegenRoutes(j)
       PROVE  TypeOK'
  <2>1. Waits("generating", state.activeProjectId) \in Task
    BY <1>11 DEF Task, RegenRoutes
  <2>2. QED
    BY <1>11, <2>1 DEF RegenRoutes
<1>12. ASSUME NEW j \in Job, DownloadReport(j)
       PROVE  TypeOK'
  <2>1. [pc |-> "downloading", project |-> state.activeProjectId,
         format |-> state.reportFormat] \in Task
    BY <1>12 DEF Task, DownloadReport
  <2>2. QED
    BY <1>12, <2>1 DEF DownloadReport
<1>13. ASSUME NEW j \in Job, Review(j)
       PROVE  TypeOK'
  <2>1. Waits("posting", state.activeProjectId) \in Task
    BY <1>13 DEF Task, Review
  <2>2. QED
    BY <1>13, <2>1 DEF Review
<1>14. ASSUME NEW j \in Job, FetchProjects(j)
       PROVE  TypeOK'
  <2>1. [pc |-> "listing", project |-> NoProject, generate |-> FALSE] \in Task
    BY DEF Task
  <2>2. QED
    BY <1>14, <2>1 DEF FetchProjects
<1>15. QED
  BY <1>1, <1>2, <1>3, <1>4, <1>5, <1>6, <1>7, <1>8, <1>9, <1>10, <1>11,
     <1>12, <1>13, <1>14 DEF ClickNext

\* The answer of the server is a batch, and not an empty one.
LEMMA BatchFacts ==
  ASSUME NEW j \in Job, NEW p \in Project
  PROVE  LET batch == [batch : {j}, project : {p}, place : 1..BatchSize]
         IN  batch \in SUBSET Candidate /\ batch # {}
<1> DEFINE batch == [batch : {j}, project : {p}, place : 1..BatchSize]
<1>1. 1 \in 1..BatchSize
  BY BatchAssumption
<1>2. [batch |-> j, project |-> p, place |-> 1] \in batch
  BY <1>1
<1>3. batch \in SUBSET Candidate
  BY DEF Candidate
<1>4. QED
  BY <1>2, <1>3

\* What is left after an evaluation are candidates still.
LEMMA EvaluatingType ==
  ASSUME TypeOK, NEW j \in Job, job[j].project \in Project,
         NEW todo \in SUBSET Candidate, todo # {}
  PROVE  Evaluating(j, todo) \in Task
BY DEF Evaluating, Task

LEMMA FirstOfTodo ==
  ASSUME NEW todo \in SUBSET Candidate, todo # {}
  PROVE  First(todo) \in todo
<1> DEFINE places == {r.place : r \in todo}
<1>1. places \in SUBSET Nat /\ places # {}
  BY BatchAssumption DEF Candidate
<1>2. PICK n \in places : \A m \in places : ~(<<m, n>> \in OpToRel(<, Nat))
  BY <1>1, NatLessThanWellFounded, WFMin
<1>3. ASSUME NEW m \in places
      PROVE  n <= m
  <2>1. m \in Nat /\ n \in Nat
    BY <1>1
  <2>2. <<m, n>> \notin {pair \in Nat \X Nat : pair[1] < pair[2]}
    BY <1>2 DEF OpToRel
  <2>3. <<m, n>> \in Nat \X Nat /\ <<m, n>>[1] = m /\ <<m, n>>[2] = n
    BY <2>1
  <2>4. ~(m < n)
    BY <2>2, <2>3
  <2>5. QED
    BY <2>1, <2>4
<1>4. \E r \in todo : \A q \in todo : r.place <= q.place
  BY <1>3
<1>5. QED
  BY <1>4 DEF First

LEMMA RestType ==
  ASSUME TypeOK, NEW j \in Job, job[j].pc = "evaluating"
  PROVE  /\ First(job[j].todo) \in Candidate
         /\ LET rest == job[j].todo \ {First(job[j].todo)}
            IN  (IF rest = {} THEN Ended ELSE Evaluating(j, rest)) \in Task
<1>1. job[j] \in Task
  BY DEF TypeOK
<1>2. /\ job[j].project \in Project
      /\ job[j].todo \in SUBSET Candidate
      /\ job[j].todo # {}
  BY <1>1, TaskFields
<1> DEFINE rest == job[j].todo \ {First(job[j].todo)}
<1>3. rest \in SUBSET Candidate
  BY <1>2
<1>4. rest # {} => Evaluating(j, rest) \in Task
  BY <1>2, <1>3, EvaluatingType
<1>5. Ended \in Task
  BY DEF Task
<1>6. First(job[j].todo) \in Candidate
  BY <1>2, FirstOfTodo
<1>7. QED
  BY <1>4, <1>5, <1>6

\* After the list of projects a job goes on to generate, or it ends.
LEMMA ListCases ==
  ASSUME TypeOK, NEW j \in Job, ListAnswer(j)
  PROVE  /\ job[j].pc = "listing"
         /\ UNCHANGED <<generatedFor, known, patient>>
         /\ \/ /\ state' = [state EXCEPT !.apiLoading = TRUE, !.apiRoutes = Null]
               /\ job' = [job EXCEPT ![j] = Waits("generating", job[j].project)]
               /\ job[j].project \in Project
            \/ /\ state' = [state EXCEPT !.apiLoading = FALSE]
               /\ job' = [job EXCEPT ![j] = Ended]
<1> USE DEF ListAnswer, Answer, Continue
<1>1. CASE job[j].generate
  <2>1. job[j] \in Task
    BY DEF TypeOK
  <2>2. job[j].pc = "listing" /\ job[j].project \in Project
    BY <1>1, <2>1, TaskFields
  <2>3. QED
    BY <1>1, <2>2
<1>2. CASE ~job[j].generate
  BY <1>2
<1>3. QED
  BY <1>1, <1>2

LEMMA AnswerType ==
  ASSUME TypeOK, NEW j \in Job, AnswerNext(j)
  PROVE  TypeOK'
<1> USE DEF TypeOK, ScreenState, Answer, Continue, CodeFormat, Format
<1> Ended \in Task
  BY DEF Task
<1> job[j] \in Task
  OBVIOUS
<1> [pc |-> "listing", project |-> NoProject, generate |-> FALSE] \in Task
  BY DEF Task
<1>1. CASE GenerateAnswer(j)
  <2> DEFINE batch == [batch : {j}, project : {job[j].project},
                       place : 1..BatchSize]
  <2>1. job[j].project \in Project
    BY <1>1, TaskFields DEF GenerateAnswer
  <2>2. batch \in SUBSET Candidate /\ batch # {}
    BY <2>1, BatchFacts
  <2>3. Evaluating(j, batch) \in Task
    BY <2>1, <2>2, EvaluatingType
  <2>4. QED
    BY <1>1, <2>2, <2>3 DEF GenerateAnswer
<1>2. CASE GenerateFails(j)
  <2>1. job[j].project \in Project
    BY <1>2, TaskFields DEF GenerateFails
  <2>2. RoutesShown \in SUBSET Candidate
    BY DEF RoutesShown
  <2>3. RoutesShown # {} => Evaluating(j, RoutesShown) \in Task
    BY <2>1, <2>2, EvaluatingType
  <2>4. CASE RoutesShown = {}
    BY <1>2, <2>4 DEF GenerateFails
  <2>5. CASE RoutesShown # {}
    <3>1. /\ state' = [state EXCEPT !.apiLoading = TRUE]
          /\ job' = [job EXCEPT ![j] = Evaluating(j, RoutesShown)]
      BY <1>2, <2>5 DEF GenerateFails
    <3>2. UNCHANGED <<generatedFor, known, patient>>
      BY <1>2 DEF GenerateFails
    <3>3. QED
      BY <2>3, <2>5, <3>1, <3>2
  <2>6. QED
    BY <2>4, <2>5
<1>3. CASE EvaluateAnswer(j)
  <2> DEFINE rest == job[j].todo \ {First(job[j].todo)}
  <2>1. First(job[j].todo) \in Candidate
    BY <1>3, RestType DEF EvaluateAnswer
  <2>2. (IF rest = {} THEN Ended ELSE Evaluating(j, rest)) \in Task
    BY <1>3, RestType DEF EvaluateAnswer
  <2>3. RoutesShown \in SUBSET Candidate
    BY DEF RoutesShown
  <2>4. job' \in [Job -> Task]
    BY <1>3, <2>2 DEF EvaluateAnswer, NextEvaluation
  <2>5. state' \in ScreenState
    BY <1>3, <2>1, <2>3 DEF EvaluateAnswer
  <2>6. QED
    BY <1>3, <2>4, <2>5 DEF EvaluateAnswer
<1>4. CASE EvaluateFails(j)
  <2> DEFINE rest == job[j].todo \ {First(job[j].todo)}
  <2>1. (IF rest = {} THEN Ended ELSE Evaluating(j, rest)) \in Task
    BY <1>4, RestType DEF EvaluateFails
  <2>2. QED
    BY <1>4, <2>1 DEF EvaluateFails, NextEvaluation
<1>5. CASE SaveAnswer(j)
  <2>1. /\ job[j].project \in Project \cup {NoProject}
        /\ job[j].generate \in BOOLEAN
    BY <1>5, TaskFields DEF SaveAnswer
  <2>2. PICK p \in IF job[j].project = NoProject THEN Project \ known
                   ELSE {job[j].project} :
          /\ known' = known \cup {p}
          /\ state' = [state EXCEPT !.activeProjectId = p, !.apiLoading = TRUE]
          /\ Continue(j, [pc |-> "listing", project |-> p,
                          generate |-> job[j].generate])
    BY <1>5 DEF SaveAnswer
  <2>3. p \in Project
    BY <2>1, <2>2
  <2>4. [pc |-> "listing", project |-> p, generate |-> job[j].generate] \in Task
    BY <2>1, <2>3 DEF Task
  <2>5. QED
    BY <1>5, <2>2, <2>3, <2>4 DEF SaveAnswer
<1>6. CASE ListAnswer(j)
  <2>1. CASE /\ state' = [state EXCEPT !.apiLoading = TRUE, !.apiRoutes = Null]
             /\ job' = [job EXCEPT ![j] = Waits("generating", job[j].project)]
             /\ job[j].project \in Project
             /\ UNCHANGED <<generatedFor, known, patient>>
    BY <2>1 DEF Waits, Task
  <2>2. CASE /\ state' = [state EXCEPT !.apiLoading = FALSE]
             /\ job' = [job EXCEPT ![j] = Ended]
             /\ UNCHANGED <<generatedFor, known, patient>>
    BY <2>2
  <2>3. QED
    BY <1>6, <2>1, <2>2, ListCases
<1>7. CASE EditAnswer(j)
  <2>1. job[j].project \in Project
    BY <1>7, TaskFields DEF EditAnswer
  <2>2. QED
    BY <1>7, <2>1 DEF EditAnswer
<1>8. CASE DeleteAnswer(j)
  BY <1>8 DEF DeleteAnswer, Opened
<1>9. CASE ReportAnswer(j)
  <2>1. job[j].project \in Project /\ job[j].format \in CodeFormat
    BY <1>9, TaskFields DEF ReportAnswer
  <2>2. QED
    BY <1>9, <2>1 DEF ReportAnswer, ReportOf
<1>10. CASE DownloadAnswer(j)
  <2>1. job[j].project \in Project
    BY <1>10, TaskFields DEF DownloadAnswer
  <2>2. QED
    BY <1>10, <2>1 DEF DownloadAnswer, ReportOf
<1>11. CASE ConfirmAnswer(j)
  BY <1>11 DEF ConfirmAnswer
<1>12. CASE ReviewAnswer(j)
  BY <1>12 DEF ReviewAnswer
<1>13. CASE RequestFails(j)
  BY <1>13 DEF RequestFails, EndsQuietly
<1>14. QED
  BY <1>1, <1>2, <1>3, <1>4, <1>5, <1>6, <1>7, <1>8, <1>9, <1>10, <1>11,
     <1>12, <1>13 DEF AnswerNext

LEMMA NextType ==
  ASSUME TypeOK, [Next]_vars
  PROVE  TypeOK'
<1>1. CASE UNCHANGED vars
  BY <1>1 DEF TypeOK, vars
<1>2. CASE Next
  BY <1>2, ClickType, AnswerType DEF Next
<1>3. QED
  BY <1>1, <1>2

-----------------------------------------------------------------------------
(* What is saved, and the lock of confirmations.                           *)

\* A click starts a save with the form and the target as they are.
LEMMA ClickForm ==
  ASSUME TypeOK, FormFits, SavesFitTarget, ClickNext
  PROVE  FormFits' /\ SavesFitTarget'
<1> USE DEF TypeOK, ScreenState, Start, Click, Waits, Unused, FormFits, SavesFitTarget
<1>1. ASSUME NEW p \in Project, ReopenProject(p)
      PROVE  FormFits' /\ SavesFitTarget'
  BY <1>1 DEF ReopenProject, Opened
<1>2. ASSUME NEW generate \in BOOLEAN, SaveInvalid(generate)
      PROVE  FormFits' /\ SavesFitTarget'
  BY <1>2 DEF SaveInvalid
<1>3. ASSUME CancelEdit
      PROVE  FormFits' /\ SavesFitTarget'
  BY <1>3 DEF CancelEdit
<1>4. ASSUME NEW f \in Format, ChooseFormat(f)
      PROVE  FormFits' /\ SavesFitTarget'
  BY <1>4 DEF ChooseFormat
<1>5. ASSUME NEW j \in Job, NEW p \in Project, SelectProject(j, p)
      PROVE  FormFits' /\ SavesFitTarget'
  BY <1>5 DEF SelectProject, Opened
<1>6. ASSUME NEW j \in Job, NEW p \in Project, EditProject(j, p)
      PROVE  FormFits' /\ SavesFitTarget'
  BY <1>6 DEF EditProject
<1>7. ASSUME NEW j \in Job, NEW p \in Project, DeleteProject(j, p)
      PROVE  FormFits' /\ SavesFitTarget'
  BY <1>7 DEF DeleteProject
<1>8. ASSUME NEW j \in Job, NEW generate \in BOOLEAN, SaveProject(j, generate)
      PROVE  FormFits' /\ SavesFitTarget'
  BY <1>8 DEF SaveProject
<1>9. ASSUME NEW j \in Job, NEW f \in Format, FetchReport(j, f)
      PROVE  FormFits' /\ SavesFitTarget'
  BY <1>9 DEF FetchReport
<1>10. ASSUME NEW j \in Job, NEW r \in Pins, ConfirmRisk(j, r)
       PROVE  FormFits' /\ SavesFitTarget'
  BY <1>10 DEF ConfirmRisk
<1>11. ASSUME NEW j \in Job, RegenRoutes(j)
       PROVE  FormFits' /\ SavesFitTarget'
  BY <1>11 DEF RegenRoutes
<1>12. ASSUME NEW j \in Job, DownloadReport(j)
       PROVE  FormFits' /\ SavesFitTarget'
  BY <1>12 DEF DownloadReport
<1>13. ASSUME NEW j \in Job, Review(j)
       PROVE  FormFits' /\ SavesFitTarget'
  BY <1>13 DEF Review
<1>14. ASSUME NEW j \in Job, FetchProjects(j)
       PROVE  FormFits' /\ SavesFitTarget'
  BY <1>14 DEF FetchProjects
<1>15. QED
  BY <1>1, <1>2, <1>3, <1>4, <1>5, <1>6, <1>7, <1>8, <1>9, <1>10, <1>11, <1>12, <1>13, <1>14 DEF ClickNext

\* An answer fills the form or leaves it, and no answer starts a save.
LEMMA AnswerForm ==
  ASSUME TypeOK, FormFits, SavesFitTarget, NEW j \in Job, AnswerNext(j)
  PROVE  FormFits' /\ SavesFitTarget'
<1> USE DEF TypeOK, ScreenState, Answer, Continue, Ended, Waits, FormFits, SavesFitTarget
<1>1. CASE GenerateAnswer(j)
  BY <1>1 DEF GenerateAnswer, Evaluating
<1>2. CASE GenerateFails(j)
  BY <1>2 DEF GenerateFails, Evaluating
<1>3. CASE EvaluateAnswer(j)
  BY <1>3 DEF EvaluateAnswer, NextEvaluation, Evaluating
<1>4. CASE EvaluateFails(j)
  BY <1>4 DEF EvaluateFails, NextEvaluation, Evaluating
<1>5. CASE SaveAnswer(j)
  BY <1>5 DEF SaveAnswer
<1>6. CASE ListAnswer(j)
  <2>1. CASE /\ state' = [state EXCEPT !.apiLoading = TRUE, !.apiRoutes = Null]
             /\ job' = [job EXCEPT ![j] = Waits("generating", job[j].project)]
             /\ job[j].project \in Project
             /\ UNCHANGED <<generatedFor, known, patient>>
    BY <2>1
  <2>2. CASE /\ state' = [state EXCEPT !.apiLoading = FALSE]
             /\ job' = [job EXCEPT ![j] = Ended]
             /\ UNCHANGED <<generatedFor, known, patient>>
    BY <2>2
  <2>3. QED
    BY <1>6, <2>1, <2>2, ListCases
<1>7. CASE EditAnswer(j)
  BY <1>7 DEF EditAnswer
<1>8. CASE DeleteAnswer(j)
  BY <1>8 DEF DeleteAnswer, Opened
<1>9. CASE ReportAnswer(j)
  BY <1>9 DEF ReportAnswer, ReportOf
<1>10. CASE DownloadAnswer(j)
  BY <1>10 DEF DownloadAnswer, ReportOf
<1>11. CASE ConfirmAnswer(j)
  BY <1>11 DEF ConfirmAnswer
<1>12. CASE ReviewAnswer(j)
  BY <1>12 DEF ReviewAnswer
<1>13. CASE RequestFails(j)
  BY <1>13 DEF RequestFails, EndsQuietly
<1>14. QED
  BY <1>1, <1>2, <1>3, <1>4, <1>5, <1>6, <1>7, <1>8, <1>9, <1>10, <1>11, <1>12, <1>13 DEF AnswerNext

\* Only a confirmation takes the lock, and it finds it free.
LEMMA ClickLock ==
  ASSUME TypeOK, LockFits, ClickNext
  PROVE  LockFits'
<1> USE DEF TypeOK, ScreenState, Start, Click, Waits, Unused, LockFits, Confirming
<1>1. ASSUME NEW p \in Project, ReopenProject(p)
      PROVE  LockFits'
  BY <1>1 DEF ReopenProject, Opened
<1>2. ASSUME NEW generate \in BOOLEAN, SaveInvalid(generate)
      PROVE  LockFits'
  BY <1>2 DEF SaveInvalid
<1>3. ASSUME CancelEdit
      PROVE  LockFits'
  BY <1>3 DEF CancelEdit
<1>4. ASSUME NEW f \in Format, ChooseFormat(f)
      PROVE  LockFits'
  BY <1>4 DEF ChooseFormat
<1>5. ASSUME NEW j \in Job, NEW p \in Project, SelectProject(j, p)
      PROVE  LockFits'
  BY <1>5 DEF SelectProject, Opened
<1>6. ASSUME NEW j \in Job, NEW p \in Project, EditProject(j, p)
      PROVE  LockFits'
  BY <1>6 DEF EditProject
<1>7. ASSUME NEW j \in Job, NEW p \in Project, DeleteProject(j, p)
      PROVE  LockFits'
  BY <1>7 DEF DeleteProject
<1>8. ASSUME NEW j \in Job, NEW generate \in BOOLEAN, SaveProject(j, generate)
      PROVE  LockFits'
  BY <1>8 DEF SaveProject
<1>9. ASSUME NEW j \in Job, NEW f \in Format, FetchReport(j, f)
      PROVE  LockFits'
  BY <1>9 DEF FetchReport
<1>10. ASSUME NEW j \in Job, NEW r \in Pins, ConfirmRisk(j, r)
       PROVE  LockFits'
  BY <1>10 DEF ConfirmRisk
<1>11. ASSUME NEW j \in Job, RegenRoutes(j)
       PROVE  LockFits'
  BY <1>11 DEF RegenRoutes
<1>12. ASSUME NEW j \in Job, DownloadReport(j)
       PROVE  LockFits'
  BY <1>12 DEF DownloadReport
<1>13. ASSUME NEW j \in Job, Review(j)
       PROVE  LockFits'
  BY <1>13 DEF Review
<1>14. ASSUME NEW j \in Job, FetchProjects(j)
       PROVE  LockFits'
  BY <1>14 DEF FetchProjects
<1>15. QED
  BY <1>1, <1>2, <1>3, <1>4, <1>5, <1>6, <1>7, <1>8, <1>9, <1>10, <1>11, <1>12, <1>13, <1>14 DEF ClickNext

\* Only the answer to a confirmation gives it back.
LEMMA AnswerLock ==
  ASSUME TypeOK, LockFits, NEW j \in Job, AnswerNext(j)
  PROVE  LockFits'
<1> USE DEF TypeOK, ScreenState, Answer, Continue, Ended, Waits, LockFits, Confirming
<1>1. CASE GenerateAnswer(j)
  BY <1>1 DEF GenerateAnswer, Evaluating
<1>2. CASE GenerateFails(j)
  BY <1>2 DEF GenerateFails, Evaluating
<1>3. CASE EvaluateAnswer(j)
  BY <1>3 DEF EvaluateAnswer, NextEvaluation, Evaluating
<1>4. CASE EvaluateFails(j)
  BY <1>4 DEF EvaluateFails, NextEvaluation, Evaluating
<1>5. CASE SaveAnswer(j)
  BY <1>5 DEF SaveAnswer
<1>6. CASE ListAnswer(j)
  <2>1. CASE /\ state' = [state EXCEPT !.apiLoading = TRUE, !.apiRoutes = Null]
             /\ job' = [job EXCEPT ![j] = Waits("generating", job[j].project)]
             /\ job[j].project \in Project
             /\ job[j].pc = "listing"
    BY <2>1
  <2>2. CASE /\ state' = [state EXCEPT !.apiLoading = FALSE]
             /\ job' = [job EXCEPT ![j] = Ended]
             /\ job[j].pc = "listing"
    BY <2>2
  <2>3. QED
    BY <1>6, <2>1, <2>2, ListCases
<1>7. CASE EditAnswer(j)
  BY <1>7 DEF EditAnswer
<1>8. CASE DeleteAnswer(j)
  BY <1>8 DEF DeleteAnswer, Opened
<1>9. CASE ReportAnswer(j)
  BY <1>9 DEF ReportAnswer, ReportOf
<1>10. CASE DownloadAnswer(j)
  BY <1>10 DEF DownloadAnswer, ReportOf
<1>11. CASE ConfirmAnswer(j)
  BY <1>11 DEF ConfirmAnswer
<1>12. CASE ReviewAnswer(j)
  BY <1>12 DEF ReviewAnswer
<1>13. CASE RequestFails(j)
  BY <1>13 DEF RequestFails, EndsQuietly
<1>14. QED
  BY <1>1, <1>2, <1>3, <1>4, <1>5, <1>6, <1>7, <1>8, <1>9, <1>10, <1>11, <1>12, <1>13 DEF AnswerNext

-----------------------------------------------------------------------------
(* A user who waits for each answer.                                       *)

\* A click finds no request under way, and starts one at most.
LEMMA ClickCalm ==
  ASSUME TypeOK, Calm, InFlight = {}, ClickNext
  PROVE  Calm'
<1> USE ProjectAssumption, NullAssumption
    DEF TypeOK, ScreenState, Start, Click, Waits, Unused, Ended, InFlight, Calm, AnswerFits,
          Renders, ReportFits
<1>1. ASSUME NEW p \in Project, ReopenProject(p)
      PROVE  Calm'
  BY <1>1 DEF ReopenProject, Opened
<1>2. ASSUME NEW generate \in BOOLEAN, SaveInvalid(generate)
      PROVE  Calm'
  BY <1>2 DEF SaveInvalid
<1>3. ASSUME CancelEdit
      PROVE  Calm'
  BY <1>3 DEF CancelEdit
<1>4. ASSUME NEW f \in Format, ChooseFormat(f)
      PROVE  Calm'
  BY <1>4 DEF ChooseFormat
<1>5. ASSUME NEW j \in Job, NEW p \in Project, SelectProject(j, p)
      PROVE  Calm'
  BY <1>5 DEF SelectProject, Opened
<1>6. ASSUME NEW j \in Job, NEW p \in Project, EditProject(j, p)
      PROVE  Calm'
  BY <1>6 DEF EditProject
<1>7. ASSUME NEW j \in Job, NEW p \in Project, DeleteProject(j, p)
      PROVE  Calm'
  BY <1>7 DEF DeleteProject
<1>8. ASSUME NEW j \in Job, NEW generate \in BOOLEAN, SaveProject(j, generate)
      PROVE  Calm'
  BY <1>8 DEF SaveProject
<1>9. ASSUME NEW j \in Job, NEW f \in Format, FetchReport(j, f)
      PROVE  Calm'
  BY <1>9 DEF FetchReport
<1>10. ASSUME NEW j \in Job, NEW r \in Pins, ConfirmRisk(j, r)
       PROVE  Calm'
  BY <1>10 DEF ConfirmRisk
<1>11. ASSUME NEW j \in Job, RegenRoutes(j)
       PROVE  Calm'
  BY <1>11 DEF RegenRoutes
<1>12. ASSUME NEW j \in Job, DownloadReport(j)
       PROVE  Calm'
  BY <1>12 DEF DownloadReport
<1>13. ASSUME NEW j \in Job, Review(j)
       PROVE  Calm'
  BY <1>13 DEF Review
<1>14. ASSUME NEW j \in Job, FetchProjects(j)
       PROVE  Calm'
  BY <1>14 DEF FetchProjects
<1>15. QED
  BY <1>1, <1>2, <1>3, <1>4, <1>5, <1>6, <1>7, <1>8, <1>9, <1>10, <1>11, <1>12, <1>13, <1>14 DEF ClickNext

\* An answer meets the screen it counts on, and no other job.
LEMMA AnswerCalm ==
  ASSUME TypeOK, Calm, NEW j \in Job, AnswerNext(j)
  PROVE  Calm'
<1> USE ProjectAssumption, NullAssumption
    DEF TypeOK, ScreenState, Answer, Continue, Waits, Unused, Ended, InFlight, Calm, AnswerFits,
          Renders, ReportFits
<1>1. CASE GenerateAnswer(j)
  <2> DEFINE batch == [batch : {j}, project : {job[j].project},
                       place : 1..BatchSize]
  <2>1. job[j] \in Task /\ job[j].pc = "generating"
    BY <1>1 DEF GenerateAnswer
  <2>2. batch \in SUBSET Candidate /\ batch # {}
    BY <2>1, TaskFields, BatchFacts
  <2>3. batch # Null
    BY <2>2
  <2>4. /\ job' = [job EXCEPT ![j] = Evaluating(j, batch)]
        /\ state' = [state EXCEPT !.apiRoutes = batch, !.apiRouteKeyMap = batch,
                                  !.apiRisksByRoute = {}, !.apiLoading = TRUE]
    BY <1>1 DEF GenerateAnswer
  <2>5. /\ state'.apiRoutes = batch
        /\ state'.apiReport = state.apiReport
        /\ state'.activeProjectId = state.activeProjectId
        /\ state'.reportFormat = state.reportFormat
    BY <2>4
  <2>6. job'[j].pc = "evaluating"
    BY <2>4 DEF Evaluating
  <2>7. \A i \in Job \ {j} : job'[i] = job[i]
    BY <2>4
  <2> HIDE DEF batch
  <2>8. QED
    BY <2>1, <2>2, <2>3, <2>5, <2>6, <2>7
<1>2. CASE GenerateFails(j)
  <2>1. job[j].pc = "generating"
    BY <1>2 DEF GenerateFails
  <2>2. CASE RoutesShown = {}
    <3>1. /\ job' = [job EXCEPT ![j] = Ended]
          /\ state' = [state EXCEPT !.apiLoading = FALSE]
      BY <1>2, <2>2 DEF GenerateFails
    <3>2. QED
      BY <2>1, <3>1
  <2>3. CASE RoutesShown # {}
    <3>1. /\ job' = [job EXCEPT ![j] = Evaluating(j, RoutesShown)]
          /\ state' = [state EXCEPT !.apiLoading = TRUE]
      BY <1>2, <2>3 DEF GenerateFails
    <3>2. state.apiRoutes # Null
      BY <2>3 DEF RoutesShown
    <3>3. QED
      BY <2>1, <3>1, <3>2 DEF Evaluating
  <2>4. QED
    BY <2>2, <2>3
<1>3. CASE EvaluateAnswer(j)
  <2> DEFINE rest == job[j].todo \ {First(job[j].todo)}
  <2>1. job[j].pc = "evaluating" /\ j \in InFlight
    BY <1>3 DEF EvaluateAnswer
  <2>2. state.apiRoutes # Null /\ RoutesShown = state.apiRoutes
    BY <2>1 DEF RoutesShown
  <2>3. /\ state' = [state EXCEPT !.apiRisksByRoute = @ \cup {First(job[j].todo)},
                                  !.apiRoutes = RoutesShown,
                                  !.apiLoading = (rest # {})]
        /\ job' = [job EXCEPT ![j] = IF rest = {} THEN Ended
                                     ELSE Evaluating(j, rest)]
    BY <1>3 DEF EvaluateAnswer, NextEvaluation
  <2>4. /\ state'.apiRoutes = state.apiRoutes
        /\ state'.apiReport = state.apiReport
        /\ state'.activeProjectId = state.activeProjectId
        /\ state'.reportFormat = state.reportFormat
    BY <2>2, <2>3
  <2>5. job'[j] = Ended \/ job'[j].pc = "evaluating"
    BY <2>3 DEF Evaluating
  <2>6. \A i \in Job \ {j} : job'[i] = job[i]
    BY <2>3
  <2>7. QED
    BY <2>1, <2>2, <2>4, <2>5, <2>6
<1>4. CASE EvaluateFails(j)
  BY <1>4 DEF EvaluateFails, NextEvaluation, Evaluating
<1>5. CASE SaveAnswer(j)
  BY <1>5 DEF SaveAnswer
<1>6. CASE ListAnswer(j)
  <2>1. CASE /\ state' = [state EXCEPT !.apiLoading = TRUE, !.apiRoutes = Null]
             /\ job' = [job EXCEPT ![j] = Waits("generating", job[j].project)]
             /\ job[j].pc = "listing"
    BY <2>1
  <2>2. CASE /\ state' = [state EXCEPT !.apiLoading = FALSE]
             /\ job' = [job EXCEPT ![j] = Ended]
             /\ job[j].pc = "listing"
    BY <2>2
  <2>3. QED
    BY <1>6, <2>1, <2>2, ListCases
<1>7. CASE EditAnswer(j)
  BY <1>7 DEF EditAnswer
<1>8. CASE DeleteAnswer(j)
  BY <1>8 DEF DeleteAnswer, Opened
<1>9. CASE ReportAnswer(j)
  BY <1>9 DEF ReportAnswer, ReportOf
<1>10. CASE DownloadAnswer(j)
  BY <1>10 DEF DownloadAnswer, ReportOf
<1>11. CASE ConfirmAnswer(j)
  BY <1>11 DEF ConfirmAnswer
<1>12. CASE ReviewAnswer(j)
  BY <1>12 DEF ReviewAnswer
<1>13. CASE RequestFails(j)
  BY <1>13 DEF RequestFails, EndsQuietly
<1>14. QED
  BY <1>1, <1>2, <1>3, <1>4, <1>5, <1>6, <1>7, <1>8, <1>9, <1>10, <1>11, <1>12, <1>13 DEF AnswerNext

\* Every click leaves its mark on the history, and no answer does.
LEMMA ClickIdle ==
  ASSUME ClickNext, patient'
  PROVE  patient /\ InFlight = {}
<1> USE DEF Start, Click
<1>1. Click
  BY DEF ClickNext, ReopenProject, SaveInvalid, CancelEdit, ChooseFormat,
         SelectProject, EditProject, DeleteProject, SaveProject, FetchReport,
         ConfirmRisk, RegenRoutes, DownloadReport, Review, FetchProjects
<1>2. QED
  BY <1>1

LEMMA AnswerPatient ==
  ASSUME NEW j \in Job, AnswerNext(j)
  PROVE  patient' = patient
BY DEF AnswerNext, GenerateAnswer, GenerateFails, EvaluateAnswer, EvaluateFails,
       SaveAnswer, ListAnswer, EditAnswer, DeleteAnswer, ReportAnswer,
       DownloadAnswer, ConfirmAnswer, ReviewAnswer, RequestFails, EndsQuietly,
       Answer

LEMMA PatientInd ==
  ASSUME TypeOK, PatientInv, Next
  PROVE  PatientInv'
<1> SUFFICES ASSUME patient'
             PROVE  Calm'
  BY DEF PatientInv
<1>1. CASE ClickNext
  <2>1. InFlight = {} /\ Calm
    BY <1>1, ClickIdle DEF PatientInv
  <2>2. QED
    BY <1>1, <2>1, ClickCalm
<1>2. ASSUME NEW j \in Job, AnswerNext(j)
      PROVE  Calm'
  <2>1. Calm
    BY <1>2, AnswerPatient DEF PatientInv
  <2>2. QED
    BY <1>2, <2>1, AnswerCalm
<1>3. QED
  BY <1>1, <1>2 DEF Next

-----------------------------------------------------------------------------
(* Theorems.                                                               *)

LEMMA InitConsoleInv ==
  ASSUME Init
  PROVE  ConsoleInv
<1> USE ProjectAssumption, NullAssumption
    DEF Init, Unused
<1>1. TypeOK
  BY DEF TypeOK, ScreenState, Task, CodeFormat, Format
<1>2. FormFits /\ SavesFitTarget /\ LockFits
  BY DEF FormFits, SavesFitTarget, LockFits, Confirming
<1>3. InFlight = {}
  BY DEF InFlight
<1>4. PatientInv
  BY <1>3 DEF PatientInv, Calm, Renders, ReportFits
<1>5. QED
  BY <1>1, <1>2, <1>4 DEF ConsoleInv

LEMMA NextConsoleInv ==
  ASSUME ConsoleInv, [Next]_vars
  PROVE  ConsoleInv'
<1>1. TypeOK /\ FormFits /\ SavesFitTarget /\ LockFits /\ PatientInv
  BY DEF ConsoleInv
<1>2. CASE UNCHANGED vars
  BY <1>1, <1>2
     DEF ConsoleInv, TypeOK, FormFits, SavesFitTarget, LockFits, Confirming,
         PatientInv, Calm, AnswerFits, InFlight, Renders, ReportFits, vars
<1>3. CASE Next
  <2>1. TypeOK'
    BY <1>1, NextType
  <2>2. FormFits' /\ SavesFitTarget'
    BY <1>1, <1>3, ClickForm, AnswerForm DEF Next
  <2>3. LockFits'
    BY <1>1, <1>3, ClickLock, AnswerLock DEF Next
  <2>4. PatientInv'
    BY <1>1, <1>3, PatientInd
  <2>5. QED
    BY <2>1, <2>2, <2>3, <2>4 DEF ConsoleInv
<1>4. QED
  BY <1>2, <1>3

\* The console keeps its inductive invariant, for any projects and any number
\* of jobs and candidates (component.js as a whole).
THEOREM SpecConsoleInv == Spec => []ConsoleInv
BY InitConsoleInv, NextConsoleInv, PTL DEF Spec

\* Every field of the screen state keeps to its values (the state of
\* component.js).
THEOREM SpecTypeOK == Spec => []TypeOK
<1>1. ConsoleInv => TypeOK
  BY DEF ConsoleInv
<1>2. QED
  BY <1>1, SpecConsoleInv, PTL

\* What is saved fits the project it is saved to, however edits overlap
\* (saveProject, editProject, cancelEdit).
THEOREM SpecSavesFitTarget == Spec => []SavesFitTarget
<1>1. ConsoleInv => SavesFitTarget
  BY DEF ConsoleInv
<1>2. QED
  BY <1>1, SpecConsoleInv, PTL

LEMMA LockCounts ==
  ASSUME LockFits, TypeOK
  PROVE  ConfirmLockHeld
<1> DEFINE jobs == {j \in Job : job[j].pc = "confirming"}
<1>1. CASE state.riskConfirming
  <2>1. PICK j \in Job : Confirming(j)
    BY <1>1 DEF LockFits
  <2>2. jobs = {j}
    BY <2>1 DEF LockFits, Confirming
  <2>3. Cardinality(jobs) = 1
    BY <2>2, FS_Singleton
  <2>4. QED
    BY <1>1, <2>3 DEF ConfirmLockHeld
<1>2. CASE ~state.riskConfirming
  <2>1. jobs = {}
    BY <1>2 DEF LockFits, Confirming
  <2>2. Cardinality(jobs) = 0
    BY <2>1, FS_EmptySet
  <2>3. QED
    BY <1>2, <2>2 DEF ConfirmLockHeld
<1>3. QED
  BY <1>1, <1>2

\* The lock of confirmations is held exactly while one is under way
\* (confirmRisk).
THEOREM SpecConfirmLockHeld == Spec => []ConfirmLockHeld
<1>1. ConsoleInv => ConfirmLockHeld
  BY LockCounts DEF ConsoleInv
<1>2. QED
  BY <1>1, SpecConsoleInv, PTL

\* Whoever waits for each answer can see the screen (generateAndEvaluate,
\* evaluateRoute, renderVals).
THEOREM SpecPatientScreenRenders == Spec => []PatientScreenRenders
<1>1. ConsoleInv => PatientScreenRenders
  BY DEF ConsoleInv, PatientInv, Calm, PatientScreenRenders
<1>2. QED
  BY <1>1, SpecConsoleInv, PTL

\* Whoever waits reads the report in the format chosen last (fetchReport,
\* downloadReport).
THEOREM SpecPatientReportFits == Spec => []PatientReportFits
<1>1. ConsoleInv => PatientReportFits
  BY DEF ConsoleInv, PatientInv, Calm, PatientReportFits
<1>2. QED
  BY <1>1, SpecConsoleInv, PTL

-----------------------------------------------------------------------------
(* The projects on the screen.                                             *)

\* What keeps the screen to the active project: nothing comes to it but
\* candidates and a report of that project.
LEMMA ScreenKeeps ==
  ASSUME ScreenFits,
         state'.activeProjectId = state.activeProjectId,
         \A r \in RoutesShown' \cup Pins' :
            r \in RoutesShown \cup Pins \/ r.project = state.activeProjectId,
         \/ state'.apiReport \in {Null, state.apiReport}
         \/ state'.apiReport # Null /\ state'.apiReport.project = state.activeProjectId
  PROVE  ScreenFits'
<1>1. ASSUME NEW r \in RoutesShown' \cup Pins'
      PROVE  r.project = state.activeProjectId
  BY DEF ScreenFits, ProjectsShown
<1>2. state'.apiReport # Null => state'.apiReport.project = state.activeProjectId
  BY DEF ScreenFits, ProjectsShown
<1>3. QED
  BY <1>1, <1>2 DEF ScreenFits, ProjectsShown

\* Candidates that are dropped leave pins of their own batch behind, at most.
LEMMA SameCandidates ==
  ASSUME RoutesFitKeys,
         state'.apiRoutes \in {Null, state.apiRoutes},
         state'.apiRouteKeyMap = state.apiRouteKeyMap,
         state'.apiRisksByRoute = state.apiRisksByRoute
  PROVE  /\ RoutesShown' \cup Pins' \subseteq RoutesShown \cup Pins
         /\ RoutesFitKeys'
<1>1. CASE state'.apiRoutes = state.apiRoutes
  BY <1>1 DEF RoutesShown, Pins, RoutesFitKeys
<1>2. CASE state'.apiRoutes = Null
  <2>1. RoutesShown' = {} /\ Pins' \subseteq state.apiRisksByRoute \cap state.apiRouteKeyMap
    BY <1>2 DEF RoutesShown, Pins
  <2>2. RoutesShown \in {{}, state.apiRouteKeyMap}
    BY DEF RoutesFitKeys, RoutesShown
  <2>3. state.apiRisksByRoute \cap state.apiRouteKeyMap \subseteq RoutesShown \cup Pins
    BY <2>2 DEF Pins
  <2>4. QED
    BY <1>2, <2>1, <2>3 DEF RoutesFitKeys
<1>3. QED
  BY <1>1, <1>2

\* A step that adds nothing to the screen.
Plain ==
  /\ state'.activeProjectId = state.activeProjectId
  /\ state'.apiRoutes \in {Null, state.apiRoutes}
  /\ state'.apiRouteKeyMap = state.apiRouteKeyMap
  /\ state'.apiRisksByRoute = state.apiRisksByRoute
  /\ state'.apiReport \in {Null, state.apiReport}

\* A step that clears the screen.
Clears ==
  /\ state'.apiRoutes = Null
  /\ state'.apiRisksByRoute = {}
  /\ state'.apiReport = Null

LEMMA PlainKeeps ==
  ASSUME RoutesFitKeys, Plain \/ Clears
  PROVE  RoutesFitKeys' /\ (ScreenFits => ScreenFits')
<1>1. CASE Plain
  <2>1. /\ RoutesShown' \cup Pins' \subseteq RoutesShown \cup Pins
        /\ RoutesFitKeys'
    BY <1>1, SameCandidates DEF Plain
  <2>2. ASSUME ScreenFits
        PROVE  ScreenFits'
    BY <1>1, <2>1, <2>2, ScreenKeeps DEF Plain
  <2>3. QED
    BY <2>1, <2>2
<1>2. CASE Clears
  BY <1>2 DEF Clears, RoutesFitKeys, ScreenFits, ProjectsShown, RoutesShown, Pins
<1>3. QED
  BY <1>1, <1>2

\* A click adds nothing to the screen, or clears it.
LEMMA ClickPlain ==
  ASSUME TypeOK, ClickNext
  PROVE  Plain \/ Clears
<1> USE DEF TypeOK, ScreenState, Start, Plain, Clears
<1>1. ASSUME NEW p \in Project, ReopenProject(p)
      PROVE  Clears
  BY <1>1 DEF ReopenProject, Opened
<1>2. ASSUME NEW j \in Job, NEW p \in Project, SelectProject(j, p)
      PROVE  Clears
  BY <1>2 DEF SelectProject, Opened
<1>3. ASSUME \/ CancelEdit
             \/ \E generate \in BOOLEAN : SaveInvalid(generate)
             \/ \E f \in Format : ChooseFormat(f)
      PROVE  Plain
  BY <1>3 DEF CancelEdit, SaveInvalid, ChooseFormat
<1>4. ASSUME NEW j \in Job,
             \/ \E p \in Project : EditProject(j, p) \/ DeleteProject(j, p)
             \/ \E generate \in BOOLEAN : SaveProject(j, generate)
             \/ \E r \in Pins : ConfirmRisk(j, r)
             \/ DownloadReport(j) \/ Review(j) \/ FetchProjects(j)
      PROVE  Plain
  BY <1>4 DEF EditProject, DeleteProject, SaveProject, ConfirmRisk,
              DownloadReport, Review, FetchProjects
<1>5. ASSUME NEW j \in Job, NEW f \in Format, FetchReport(j, f)
      PROVE  Plain
  BY <1>5 DEF FetchReport
<1>6. ASSUME NEW j \in Job, RegenRoutes(j)
      PROVE  Plain
  BY <1>6 DEF RegenRoutes
<1>7. QED
  BY <1>1, <1>2, <1>3, <1>4, <1>5, <1>6 DEF ClickNext

\* An answer that brings no data adds nothing to the screen, or clears it.
LEMMA AnswerPlain ==
  ASSUME TypeOK, NEW j \in Job,
         \/ GenerateFails(j) \/ EvaluateFails(j) \/ ListAnswer(j) \/ EditAnswer(j)
         \/ DeleteAnswer(j) \/ ConfirmAnswer(j) \/ ReviewAnswer(j) \/ RequestFails(j)
  PROVE  Plain \/ Clears
<1> USE DEF TypeOK, ScreenState, Plain, Clears
<1>1. CASE GenerateFails(j)
  BY <1>1 DEF GenerateFails
<1>2. CASE EvaluateFails(j)
  BY <1>2 DEF EvaluateFails
<1>3. CASE ListAnswer(j)
  BY <1>3 DEF ListAnswer
<1>4. CASE DeleteAnswer(j)
  BY <1>4 DEF DeleteAnswer, Opened
<1>5. CASE EditAnswer(j) \/ ConfirmAnswer(j) \/ ReviewAnswer(j) \/ RequestFails(j)
  BY <1>5 DEF EditAnswer, ConfirmAnswer, ReviewAnswer, RequestFails, EndsQuietly
<1>6. QED
  BY <1>1, <1>2, <1>3, <1>4, <1>5

\* An answer belongs to a job under way, which goes on with something else.
LEMMA AnswerMoves ==
  ASSUME TypeOK, NEW j \in Job, AnswerNext(j)
  PROVE  j \in InFlight /\ job'[j] # job[j]
<1> USE DEF TypeOK, Answer, Continue, InFlight, Unused, Ended
<1>1. CASE GenerateAnswer(j) \/ GenerateFails(j)
  BY <1>1 DEF GenerateAnswer, GenerateFails, Evaluating
<1>2. CASE EvaluateAnswer(j) \/ EvaluateFails(j)
  <2> DEFINE rest == job[j].todo \ {First(job[j].todo)}
  <2>1. job[j] \in Task /\ job[j].pc = "evaluating"
    BY <1>2 DEF EvaluateAnswer, EvaluateFails
  <2>2. First(job[j].todo) \in job[j].todo
    BY <2>1, TaskFields, FirstOfTodo
  <2>3. rest # job[j].todo
    BY <2>2
  <2>4. job'[j] = IF rest = {} THEN Ended ELSE Evaluating(j, rest)
    BY <1>2 DEF EvaluateAnswer, EvaluateFails, NextEvaluation
  <2>5. Evaluating(j, rest).todo = rest
    BY DEF Evaluating
  <2> HIDE DEF rest
  <2>6. QED
    BY <2>1, <2>3, <2>4, <2>5
<1>3. CASE SaveAnswer(j)
  BY <1>3 DEF SaveAnswer
<1>4. CASE ListAnswer(j)
  BY <1>4, ListCases DEF Waits
<1>5. CASE EditAnswer(j) \/ DeleteAnswer(j) \/ ConfirmAnswer(j) \/ ReviewAnswer(j)
  BY <1>5 DEF EditAnswer, DeleteAnswer, ConfirmAnswer, ReviewAnswer
<1>6. CASE ReportAnswer(j) \/ DownloadAnswer(j)
  BY <1>6 DEF ReportAnswer, DownloadAnswer
<1>7. CASE RequestFails(j)
  BY <1>7 DEF RequestFails, EndsQuietly
<1>8. QED
  BY <1>1, <1>2, <1>3, <1>4, <1>5, <1>6, <1>7 DEF AnswerNext

\* An answer about the active project adds nothing of another one; it takes a
\* save to make another project active.
LEMMA AnswerScreen ==
  ASSUME TypeOK, RoutesFitKeys, NEW j \in Job, AnswerNext(j)
  PROVE  /\ RoutesFitKeys'
         /\ ScreenFits => \/ ScreenFits'
                          \/ job[j].pc = "saving"
                          \/ ~(ProjectsOf(j) \subseteq {state.activeProjectId})
<1> DEFINE about == ProjectsOf(j) \subseteq {state.activeProjectId}
<1> USE DEF TypeOK, ScreenState
<1>1. CASE GenerateAnswer(j)
  <2> DEFINE batch == [batch : {j}, project : {job[j].project},
                       place : 1..BatchSize]
  <2>1. /\ state'.apiRoutes = batch
        /\ state'.apiRouteKeyMap = batch
        /\ state'.apiRisksByRoute = {}
        /\ state'.activeProjectId = state.activeProjectId
        /\ state'.apiReport = state.apiReport
    BY <1>1 DEF GenerateAnswer
  <2>2. RoutesShown' \cup Pins' \subseteq batch
    BY <2>1 DEF RoutesShown, Pins
  <2>3. \A r \in batch : r.project = job[j].project
    OBVIOUS
  <2> HIDE DEF batch
  <2>4. ASSUME ScreenFits, about
        PROVE  ScreenFits'
    <3>1. job[j].project = state.activeProjectId
      BY <2>4 DEF ProjectsOf
    <3>2. \A r \in RoutesShown' \cup Pins' : r.project = state.activeProjectId
      BY <2>2, <2>3, <3>1, Zenon
    <3>3. QED
      BY <2>1, <2>4, <3>2, ScreenKeeps
  <2>5. QED
    BY <2>1, <2>4 DEF RoutesFitKeys
<1>2. CASE EvaluateAnswer(j)
  <2>1. /\ job[j] \in Task
        /\ job[j].pc = "evaluating"
    BY <1>2 DEF EvaluateAnswer, Answer
  <2>2. First(job[j].todo) \in job[j].todo
    BY <2>1, TaskFields, FirstOfTodo
  <2>3. /\ state'.apiRoutes = RoutesShown
        /\ state'.apiRouteKeyMap = state.apiRouteKeyMap
        /\ state'.apiRisksByRoute = state.apiRisksByRoute \cup {First(job[j].todo)}
        /\ state'.activeProjectId = state.activeProjectId
        /\ state'.apiReport = state.apiReport
    BY <1>2 DEF EvaluateAnswer
  <2>4. RoutesFitKeys'
    BY <2>3 DEF RoutesFitKeys, RoutesShown
  <2>5. RoutesShown' = RoutesShown
    BY <2>3 DEF RoutesShown
  <2>6. Pins' \subseteq Pins \cup {First(job[j].todo)}
    BY <2>3, <2>5 DEF Pins
  <2>7. ASSUME ScreenFits, about
        PROVE  ScreenFits'
    <3>1. First(job[j].todo).project = state.activeProjectId
      BY <2>1, <2>2, <2>7 DEF ProjectsOf
    <3>2. QED
      BY <2>3, <2>5, <2>6, <2>7, <3>1, ScreenKeeps
  <2>8. QED
    BY <2>4, <2>7
<1>3. CASE SaveAnswer(j)
  <2>1. job[j].pc = "saving"
    BY <1>3 DEF SaveAnswer, Answer
  <2>2. /\ state'.apiRoutes = state.apiRoutes
        /\ state'.apiRouteKeyMap = state.apiRouteKeyMap
    BY <1>3 DEF SaveAnswer
  <2>3. QED
    BY <2>1, <2>2 DEF RoutesFitKeys
<1>4. CASE ReportAnswer(j) \/ DownloadAnswer(j)
  <2>1. /\ state'.activeProjectId = state.activeProjectId
        /\ state'.apiRoutes = state.apiRoutes
        /\ state'.apiRouteKeyMap = state.apiRouteKeyMap
        /\ state'.apiRisksByRoute = state.apiRisksByRoute
    BY <1>4 DEF ReportAnswer, DownloadAnswer
  <2>2. state'.apiReport \in {state.apiReport, ReportOf(j)}
    BY <1>4 DEF ReportAnswer, DownloadAnswer
  <2>3. /\ RoutesShown' \cup Pins' \subseteq RoutesShown \cup Pins
        /\ RoutesFitKeys'
    BY <2>1, SameCandidates
  <2>4. ASSUME ScreenFits, about
        PROVE  ScreenFits'
    <3>1. ReportOf(j).project = state.activeProjectId
      BY <2>4 DEF ProjectsOf, ReportOf
    <3>2. \/ state'.apiReport \in {Null, state.apiReport}
          \/ /\ state'.apiReport # Null
             /\ state'.apiReport.project = state.activeProjectId
      BY <2>2, <3>1
    <3>3. QED
      BY <2>1, <2>3, <2>4, <3>2, ScreenKeeps
  <2>5. QED
    BY <2>3, <2>4
<1>5. CASE \/ GenerateFails(j) \/ EvaluateFails(j) \/ ListAnswer(j) \/ EditAnswer(j)
           \/ DeleteAnswer(j) \/ ConfirmAnswer(j) \/ ReviewAnswer(j) \/ RequestFails(j)
  BY <1>5, AnswerPlain, PlainKeeps
<1>6. QED
  BY <1>1, <1>2, <1>3, <1>4, <1>5 DEF AnswerNext

\* A step of one job leaves the others as they are.
LEMMA AnswerAlone ==
  ASSUME TypeOK, NEW j \in Job, AnswerNext(j), NEW i \in Job, i # j
  PROVE  job'[i] = job[i]
BY DEF TypeOK, AnswerNext, GenerateAnswer, GenerateFails, EvaluateAnswer,
       EvaluateFails, SaveAnswer, ListAnswer, EditAnswer, DeleteAnswer, ReportAnswer,
       DownloadAnswer, ConfirmAnswer, ReviewAnswer, RequestFails, EndsQuietly,
       NextEvaluation, Continue

\* A click ends no job: it starts one at most.
LEMMA ClickStarts ==
  ASSUME TypeOK, ClickNext, NEW j \in InFlight
  PROVE  job'[j] = job[j]
<1> USE DEF TypeOK, Start, InFlight
<1>1. ASSUME \/ CancelEdit
             \/ \E p \in Project : ReopenProject(p)
             \/ \E generate \in BOOLEAN : SaveInvalid(generate)
             \/ \E f \in Format : ChooseFormat(f)
      PROVE  job' = job
  BY <1>1 DEF CancelEdit, ReopenProject, SaveInvalid, ChooseFormat
<1>2. ASSUME NEW i \in Job, NEW task, Start(i, task)
      PROVE  job'[j] = job[j]
  BY <1>2
<1>3. ASSUME NEW i \in Job,
             \/ \E p \in Project :
                  SelectProject(i, p) \/ EditProject(i, p) \/ DeleteProject(i, p)
             \/ \E generate \in BOOLEAN : SaveProject(i, generate)
             \/ \E f \in Format : FetchReport(i, f)
             \/ \E r \in Pins : ConfirmRisk(i, r)
             \/ RegenRoutes(i) \/ DownloadReport(i) \/ Review(i) \/ FetchProjects(i)
      PROVE  \E task : Start(i, task)
  BY <1>3, Zenon DEF SelectProject, EditProject, DeleteProject, SaveProject, FetchReport,
              ConfirmRisk, RegenRoutes, DownloadReport, Review, FetchProjects
<1>4. QED
  BY <1>1, <1>2, <1>3 DEF ClickNext

\* The answer that ends a job turns the indicator off, with two exceptions.
LEMMA AnswerEnds ==
  ASSUME TypeOK, NEW j \in Job, AnswerNext(j), job'[j] = Ended,
         job[j].pc \notin {"opening", "confirming"}
  PROVE  ~state'.apiLoading
<1> USE DEF TypeOK, ScreenState, Answer, Continue, Ended
<1>1. CASE GenerateAnswer(j)
  BY <1>1 DEF GenerateAnswer, Evaluating
<1>2. CASE GenerateFails(j)
  BY <1>2 DEF GenerateFails, Evaluating
<1>3. CASE EvaluateAnswer(j) \/ EvaluateFails(j)
  <2> DEFINE rest == job[j].todo \ {First(job[j].todo)}
  <2>1. /\ state'.apiLoading = (rest # {})
        /\ job'[j] = IF rest = {} THEN Ended ELSE Evaluating(j, rest)
    BY <1>3 DEF EvaluateAnswer, EvaluateFails, NextEvaluation
  <2>2. Evaluating(j, rest) # Ended
    BY DEF Evaluating
  <2> HIDE DEF rest
  <2>3. QED
    BY <2>1, <2>2
<1>4. CASE SaveAnswer(j)
  BY <1>4 DEF SaveAnswer
<1>5. CASE ListAnswer(j)
  BY <1>5 DEF ListAnswer, Waits
<1>6. CASE EditAnswer(j) \/ ConfirmAnswer(j)
  BY <1>6 DEF EditAnswer, ConfirmAnswer
<1>7. CASE DeleteAnswer(j) \/ ReviewAnswer(j)
  BY <1>7 DEF DeleteAnswer, ReviewAnswer
<1>8. CASE ReportAnswer(j) \/ DownloadAnswer(j) \/ RequestFails(j)
  BY <1>8 DEF ReportAnswer, DownloadAnswer, RequestFails, EndsQuietly
<1>9. QED
  BY <1>1, <1>2, <1>3, <1>4, <1>5, <1>6, <1>7, <1>8 DEF AnswerNext

\* What the last job to end leaves of the loading indicator (setState calls of
\* generateAndEvaluate, evaluateRoute, fetchProjects, fetchReport,
\* downloadReport, deleteProject, saveProject, submitProject).
THEOREM SpecLoadingEnds == Spec => LoadingEnds
<1> DEFINE Off ==
      \A j \in InFlight :
        job'[j] = Ended /\ InFlight = {j} /\ job[j].pc \notin {"opening", "confirming"}
          => ~state'.apiLoading
<1>1. ASSUME TypeOK, [Next]_vars
      PROVE  [Off]_vars
  <2> SUFFICES ASSUME Next,
                      NEW j \in InFlight, job'[j] = Ended,
                      job[j].pc \notin {"opening", "confirming"}
               PROVE  ~state'.apiLoading
    BY <1>1
  <2>1. j \in Job /\ job[j] # Ended
    BY DEF InFlight
  <2>2. ~ClickNext
    BY <1>1, <2>1, ClickStarts
  <2>3. PICK i \in Job : AnswerNext(i)
    BY <2>2 DEF Next
  <2>4. i = j
    BY <1>1, <2>1, <2>3, AnswerAlone
  <2>5. QED
    BY <1>1, <2>3, <2>4, AnswerEnds
<1>2. QED
  BY <1>1, SpecTypeOK, PTL DEF Spec, LoadingEnds

-----------------------------------------------------------------------------
(* The projects on the screen of a user who waits for each answer.         *)

\* What a click asks for is about the project it makes active.
LEMMA ClickActive ==
  ASSUME TypeOK, InFlight = {}, ClickNext, NEW j \in InFlight'
  PROVE  AnswerIsActive(j)'
<1> USE DEF TypeOK, ScreenState, Start, Click, Waits, Unused, Ended, InFlight,
            AnswerIsActive, ProjectsOf
<1>1. ASSUME \/ CancelEdit
             \/ \E p \in Project : ReopenProject(p)
             \/ \E generate \in BOOLEAN : SaveInvalid(generate)
             \/ \E f \in Format : ChooseFormat(f)
      PROVE  job' = job
  BY <1>1 DEF CancelEdit, ReopenProject, SaveInvalid, ChooseFormat
<1>2. ASSUME NEW i \in Job, NEW p \in Project, SelectProject(i, p)
      PROVE  AnswerIsActive(j)'
  BY <1>2 DEF SelectProject, Opened
<1>3. ASSUME NEW i \in Job, NEW p \in Project, EditProject(i, p) \/ DeleteProject(i, p)
      PROVE  AnswerIsActive(j)'
  BY <1>3 DEF EditProject, DeleteProject
<1>4. ASSUME NEW i \in Job, NEW generate \in BOOLEAN, SaveProject(i, generate)
      PROVE  AnswerIsActive(j)'
  BY <1>4 DEF SaveProject
<1>5. ASSUME NEW i \in Job, NEW f \in Format, FetchReport(i, f)
      PROVE  AnswerIsActive(j)'
  BY <1>5 DEF FetchReport
<1>6. ASSUME NEW i \in Job, NEW r \in Pins, ConfirmRisk(i, r)
      PROVE  AnswerIsActive(j)'
  BY <1>6 DEF ConfirmRisk
<1>7. ASSUME NEW i \in Job, RegenRoutes(i)
      PROVE  AnswerIsActive(j)'
  BY <1>7 DEF RegenRoutes
<1>8. ASSUME NEW i \in Job, DownloadReport(i)
      PROVE  AnswerIsActive(j)'
  BY <1>8 DEF DownloadReport
<1>9. ASSUME NEW i \in Job, Review(i) \/ FetchProjects(i)
      PROVE  AnswerIsActive(j)'
  BY <1>9 DEF Review, FetchProjects
<1>10. QED
  BY <1>1, <1>2, <1>3, <1>4, <1>5, <1>6, <1>7, <1>8, <1>9 DEF ClickNext

\* What a job goes on with is about the project that was active when it was
\* asked for, or that its save has made active.
LEMMA AnswerActive ==
  ASSUME TypeOK, NEW j \in Job, AnswerNext(j), AnswerIsActive(j)
  PROVE  AnswerIsActive(j)'
<1> USE DEF TypeOK, ScreenState, Answer, Continue, Waits, Ended,
            AnswerIsActive, ProjectsOf
<1>1. CASE GenerateAnswer(j)
  <2> DEFINE batch == [batch : {j}, project : {job[j].project},
                       place : 1..BatchSize]
  <2>1. /\ job'[j] = Evaluating(j, batch)
        /\ state'.activeProjectId = state.activeProjectId
        /\ job[j].project = state.activeProjectId
    BY <1>1 DEF GenerateAnswer
  <2>2. \A r \in batch : r.project = job[j].project
    OBVIOUS
  <2> HIDE DEF batch
  <2>3. /\ job'[j].pc = "evaluating"
        /\ job'[j].project = job[j].project
        /\ job'[j].todo = batch
    BY <2>1 DEF Evaluating
  <2>4. QED
    BY <2>1, <2>2, <2>3
<1>2. CASE GenerateFails(j)
  <2>1. RoutesShown = {}
    BY <1>2 DEF GenerateFails, RoutesShown
  <2>2. job'[j] = Ended
    BY <1>2, <2>1 DEF GenerateFails
  <2>3. QED
    BY <2>2
<1>3. CASE EvaluateAnswer(j) \/ EvaluateFails(j)
  <2> DEFINE rest == job[j].todo \ {First(job[j].todo)}
  <2>1. /\ job'[j] = IF rest = {} THEN Ended ELSE Evaluating(j, rest)
        /\ state'.activeProjectId = state.activeProjectId
        /\ job[j].pc = "evaluating"
    BY <1>3 DEF EvaluateAnswer, EvaluateFails, NextEvaluation
  <2>2. ProjectsOf(j) \subseteq {state.activeProjectId}
    BY <2>1
  <2>3. job[j].project = state.activeProjectId
    BY <2>2
  <2>4. \A r \in rest : r.project = state.activeProjectId
    BY <2>1, <2>2
  <2>5. /\ Evaluating(j, rest).pc = "evaluating"
        /\ Evaluating(j, rest).project = job[j].project
        /\ Evaluating(j, rest).todo = rest
    BY DEF Evaluating
  <2> HIDE DEF rest
  <2>6. QED
    BY <2>1, <2>3, <2>4, <2>5
<1>4. CASE SaveAnswer(j)
  BY <1>4 DEF SaveAnswer
<1>5. CASE ListAnswer(j)
  <2>1. CASE job[j].generate
    <3>1. job[j].project = state.activeProjectId
      BY <1>5, <2>1 DEF ListAnswer
    <3>2. /\ job'[j] = Waits("generating", job[j].project)
          /\ state'.activeProjectId = state.activeProjectId
          /\ state'.apiRoutes = Null
      BY <1>5, <2>1 DEF ListAnswer
    <3>3. QED
      BY <3>1, <3>2
  <2>2. CASE ~job[j].generate
    BY <1>5, <2>2 DEF ListAnswer
  <2>3. QED
    BY <2>1, <2>2
<1>6. CASE DeleteAnswer(j) \/ ReviewAnswer(j)
  BY <1>6 DEF DeleteAnswer, ReviewAnswer
<1>7. CASE EditAnswer(j) \/ ConfirmAnswer(j)
  BY <1>7 DEF EditAnswer, ConfirmAnswer
<1>8. CASE ReportAnswer(j) \/ DownloadAnswer(j) \/ RequestFails(j)
  BY <1>8 DEF ReportAnswer, DownloadAnswer, RequestFails, EndsQuietly
<1>9. QED
  BY <1>1, <1>2, <1>3, <1>4, <1>5, <1>6, <1>7, <1>8 DEF AnswerNext

LEMMA InitScreenInv ==
  ASSUME Init
  PROVE  ScreenInv
<1>1. RoutesFitKeys
  BY DEF Init, RoutesFitKeys
<1>2. InFlight = {}
  BY DEF Init, InFlight, Unused
<1>3. QED
  BY <1>1, <1>2, InitConsoleInv DEF ScreenInv

LEMMA NextScreenInv ==
  ASSUME ScreenInv, [Next]_vars
  PROVE  ScreenInv'
<1>1. ConsoleInv /\ TypeOK /\ RoutesFitKeys
  BY DEF ScreenInv, ConsoleInv
<1>2. ConsoleInv'
  BY <1>1, NextConsoleInv
<1>3. RoutesFitKeys'
  <2>1. CASE UNCHANGED vars
    BY <1>1, <2>1 DEF vars, RoutesFitKeys
  <2>2. CASE Next
    BY <1>1, <2>2, ClickPlain, PlainKeeps, AnswerScreen DEF Next
  <2>3. QED
    BY <2>1, <2>2
<1>4. ASSUME patient', NEW i \in InFlight'
      PROVE  AnswerIsActive(i)'
  <2>1. CASE UNCHANGED vars
    BY <1>4, <2>1 DEF vars, ScreenInv, InFlight, AnswerIsActive, ProjectsOf
  <2>2. CASE ClickNext
    BY <1>1, <1>4, <2>2, ClickIdle, ClickActive
  <2>3. ASSUME NEW j \in Job, AnswerNext(j)
        PROVE  AnswerIsActive(i)'
    <3>1. patient
      BY <1>4, <2>3, AnswerPatient
    <3>2. j \in InFlight /\ \A k \in InFlight : k = j
      BY <1>1, <2>3, <3>1, AnswerMoves DEF ConsoleInv, PatientInv, Calm
    <3>3. i \in Job /\ job'[i] \notin {Unused, Ended}
      BY <1>4 DEF InFlight
    <3>4. i = j
      BY <1>1, <2>3, <3>2, <3>3, AnswerAlone DEF InFlight
    <3>5. AnswerIsActive(j)
      BY <3>1, <3>2 DEF ScreenInv
    <3>6. QED
      BY <1>1, <2>3, <3>4, <3>5, AnswerActive
  <2>4. QED
    BY <2>1, <2>2, <2>3 DEF Next
<1>5. QED
  BY <1>2, <1>3, <1>4 DEF ScreenInv

\* What the screen shows and what jobs wait for belong together, for any
\* projects, jobs and candidates (component.js as a whole).
THEOREM SpecScreenInv == Spec => []ScreenInv
BY InitScreenInv, NextScreenInv, PTL DEF Spec

\* No click and no deletion mixes two projects on the screen: it takes an
\* answer about another project, or a save (selectProject, regenRoutes,
\* deleteProject, fetchReport).
THEOREM SpecOnlyAnswersMixProjects == Spec => OnlyAnswersMixProjects
<1> DEFINE Apart ==
      ScreenFits => \/ ScreenFits'
                    \/ \E j \in InFlight :
                         /\ job'[j] # job[j]
                         /\ \/ job[j].pc = "saving"
                            \/ ~(ProjectsOf(j) \subseteq {state.activeProjectId})
<1>1. ASSUME ScreenInv, [Next]_vars
      PROVE  [Apart]_vars
  <2>1. TypeOK /\ RoutesFitKeys
    BY <1>1 DEF ScreenInv, ConsoleInv
  <2>2. CASE ClickNext
    BY <2>1, <2>2, ClickPlain, PlainKeeps
  <2>3. ASSUME NEW j \in Job, AnswerNext(j)
        PROVE  Apart
    BY <2>1, <2>3, AnswerScreen, AnswerMoves
  <2>4. QED
    BY <1>1, <2>2, <2>3 DEF Next
<1>2. QED
  BY <1>1, SpecScreenInv, PTL DEF Spec, OnlyAnswersMixProjects

\* For whoever waits for each answer, nothing but a save shows one project
\* under another (generateAndEvaluate, fetchReport, saveProject).
THEOREM SpecPatientScreenFits == Spec => PatientScreenFits
<1> DEFINE Apart ==
      patient' /\ ScreenFits =>
        ScreenFits' \/ \E j \in InFlight : job[j].pc = "saving" /\ job'[j] # job[j]
<1>1. ASSUME ScreenInv, [Next]_vars
      PROVE  [Apart]_vars
  <2>1. TypeOK /\ RoutesFitKeys
    BY <1>1 DEF ScreenInv, ConsoleInv
  <2>2. CASE ClickNext
    BY <2>1, <2>2, ClickPlain, PlainKeeps
  <2>3. ASSUME NEW j \in Job, AnswerNext(j), patient', ScreenFits
        PROVE  ScreenFits' \/ (j \in InFlight /\ job[j].pc = "saving" /\ job'[j] # job[j])
    <3>1. j \in InFlight /\ job'[j] # job[j]
      BY <2>1, <2>3, AnswerMoves
    <3>2. AnswerIsActive(j)
      BY <1>1, <2>3, <3>1, AnswerPatient DEF ScreenInv
    <3>3. CASE ProjectsOf(j) \subseteq {state.activeProjectId}
      BY <2>1, <2>3, <3>1, <3>3, AnswerScreen
    <3>4. CASE job[j].pc \notin {"generating", "evaluating", "reporting", "downloading", "saving"}
      <4>1. ~(\/ GenerateAnswer(j) \/ GenerateFails(j) \/ EvaluateAnswer(j)
              \/ EvaluateFails(j) \/ SaveAnswer(j) \/ ReportAnswer(j)
              \/ DownloadAnswer(j))
        BY <3>4 DEF Answer, GenerateAnswer, GenerateFails, EvaluateAnswer,
                    EvaluateFails, SaveAnswer, ReportAnswer, DownloadAnswer
      <4>2. QED
        BY <2>1, <2>3, <4>1, AnswerPlain, PlainKeeps DEF AnswerNext
    <3>5. QED
      BY <3>1, <3>2, <3>3, <3>4 DEF AnswerIsActive
  <2>4. QED
    BY <1>1, <2>2, <2>3 DEF Next
<1>2. QED
  BY <1>1, SpecScreenInv, PTL DEF Spec, PatientScreenFits

-----------------------------------------------------------------------------
(* A user who waits for some answers only: the screen can be drawn.        *)

GeneratingSave(i) == job[i].pc \in {"saving", "listing"} /\ job[i].generate

\* A job that is to evaluate candidates, and one that is to drop them.
EvaluatesLater(i) == job[i].pc \in {"generating", "evaluating"} \/ GeneratingSave(i)
DropsLater(i)     == job[i].pc = "deleting" \/ GeneratingSave(i)

\* Which clicks wait for which answers: those that drop the candidates at once
\* for the evaluations, those that drop them later for whatever will evaluate,
\* and those that will evaluate for whatever will drop.
RoutesWaited ==
  /\ (\E p \in Project : ReopenProject(p)) =>
       \A i \in Job : job[i].pc # "evaluating"
  /\ \A j \in Job :
       /\ (\E p \in Project : SelectProject(j, p)) \/ RegenRoutes(j) =>
            \A i \in Job : job[i].pc # "evaluating" /\ ~DropsLater(i)
       /\ (\E p \in Project : DeleteProject(j, p)) =>
            \A i \in Job : ~EvaluatesLater(i)
       /\ SaveProject(j, TRUE) =>
            \A i \in Job : ~EvaluatesLater(i) /\ ~DropsLater(i)

\* Nobody evaluates what is not on the screen, or will have been dropped.
RoutesInv ==
  /\ Renders
  /\ \A i \in Job : job[i].pc = "evaluating" => state.apiRoutes # Null
  /\ \A i, k \in Job : DropsLater(i) /\ EvaluatesLater(k) => i = k

\* What a job is to do depends on its record alone.
LEMMA LaterKeeps ==
  ASSUME NEW i \in Job, job'[i] = job[i]
  PROVE  /\ EvaluatesLater(i)' = EvaluatesLater(i)
         /\ DropsLater(i)' = DropsLater(i)
BY DEF EvaluatesLater, DropsLater, GeneratingSave

\* A click that drops no candidates, and starts no job that has to do with them.
LEMMA PlainClickRoutes ==
  ASSUME TypeOK, RoutesInv, state'.apiRoutes = state.apiRoutes,
         \A i \in Job : \/ job'[i] = job[i]
                        \/ ~EvaluatesLater(i)' /\ ~DropsLater(i)'
  PROVE  RoutesInv'
<1>1. Renders'
  BY DEF RoutesInv, Renders
<1>2. \A i \in Job : /\ EvaluatesLater(i)' => EvaluatesLater(i)
                     /\ DropsLater(i)' => DropsLater(i)
  BY LaterKeeps
<1>3. ASSUME NEW i \in Job, job'[i].pc = "evaluating"
      PROVE  state'.apiRoutes # Null
  <2>1. job'[i] = job[i]
    BY <1>3 DEF EvaluatesLater
  <2>2. QED
    BY <1>3, <2>1 DEF RoutesInv
<1>4. QED
  BY <1>1, <1>2, <1>3 DEF RoutesInv

LEMMA ClickRoutes ==
  ASSUME TypeOK, RoutesInv, ClickNext, RoutesWaited
  PROVE  RoutesInv'
<1> USE DEF TypeOK, ScreenState, Start, Waits, Unused
<1>1. ASSUME \/ CancelEdit
             \/ \E generate \in BOOLEAN : SaveInvalid(generate)
             \/ \E f \in Format : ChooseFormat(f)
      PROVE  RoutesInv'
  <2>1. state'.apiRoutes = state.apiRoutes /\ job' = job
    BY <1>1 DEF CancelEdit, SaveInvalid, ChooseFormat
  <2>2. QED
    BY <2>1, PlainClickRoutes
<1>2. ASSUME NEW j \in Job,
             \/ \E p \in Project : EditProject(j, p)
             \/ SaveProject(j, FALSE)
             \/ \E f \in Format : FetchReport(j, f)
             \/ \E r \in Pins : ConfirmRisk(j, r)
             \/ DownloadReport(j) \/ Review(j) \/ FetchProjects(j)
      PROVE  RoutesInv'
  <2>1. /\ state'.apiRoutes = state.apiRoutes
        /\ \A i \in Job \ {j} : job'[i] = job[i]
    BY <1>2 DEF EditProject, SaveProject, FetchReport, ConfirmRisk,
                DownloadReport, Review, FetchProjects
  <2>2. \/ job'[j].pc \in {"opening", "reporting", "downloading", "confirming",
                           "posting"}
        \/ job'[j].pc \in {"saving", "listing"} /\ job'[j].generate = FALSE
    <3>1. CASE SaveProject(j, FALSE) \/ FetchProjects(j)
      BY <3>1 DEF SaveProject, FetchProjects
    <3>2. CASE (\E p \in Project : EditProject(j, p)) \/ Review(j) \/ DownloadReport(j)
      BY <3>2 DEF EditProject, Review, DownloadReport
    <3>3. CASE \E f \in Format : FetchReport(j, f)
      BY <3>3 DEF FetchReport
    <3>4. CASE \E r \in Pins : ConfirmRisk(j, r)
      BY <3>4 DEF ConfirmRisk
    <3>5. QED
      BY <1>2, <3>1, <3>2, <3>3, <3>4
  <2>3. ~EvaluatesLater(j)' /\ ~DropsLater(j)'
    BY <2>2 DEF EvaluatesLater, DropsLater, GeneratingSave
  <2>4. QED
    BY <2>1, <2>3, PlainClickRoutes
<1>3. ASSUME NEW p \in Project, ReopenProject(p)
      PROVE  RoutesInv'
  <2>1. \A i \in Job : job[i].pc # "evaluating"
    BY <1>3 DEF RoutesWaited
  <2>2. state'.apiRoutes = Null /\ job' = job
    BY <1>3 DEF ReopenProject, Opened
  <2>3. QED
    BY <2>1, <2>2, LaterKeeps, NullAssumption DEF RoutesInv, Renders
<1>4. ASSUME NEW j \in Job,
             (\E p \in Project : SelectProject(j, p)) \/ RegenRoutes(j)
      PROVE  RoutesInv'
  <2>1. \A i \in Job : job[i].pc # "evaluating" /\ ~DropsLater(i)
    BY <1>4 DEF RoutesWaited
  <2>2. /\ state'.apiRoutes = Null
        /\ \A i \in Job \ {j} : job'[i] = job[i]
        /\ job'[j].pc = "generating"
    <3>1. CASE RegenRoutes(j)
      BY <3>1 DEF RegenRoutes
    <3>2. ASSUME NEW p \in Project, SelectProject(j, p)
          PROVE  /\ state'.apiRoutes = Null
                 /\ \A i \in Job \ {j} : job'[i] = job[i]
                 /\ job'[j].pc = "generating"
      BY <3>2 DEF SelectProject, Opened
    <3>3. QED
      BY <1>4, <3>1, <3>2
  <2>3. \A i \in Job : ~DropsLater(i)'
    BY <2>1, <2>2, LaterKeeps DEF DropsLater, GeneratingSave
  <2>4. QED
    BY <2>1, <2>2, <2>3, NullAssumption DEF RoutesInv, Renders
<1>5. ASSUME NEW j \in Job, NEW p \in Project, DeleteProject(j, p)
      PROVE  RoutesInv'
  <2>1. \A i \in Job : ~EvaluatesLater(i)
    BY <1>5 DEF RoutesWaited
  <2>2. /\ state'.apiRoutes = state.apiRoutes
        /\ \A i \in Job \ {j} : job'[i] = job[i]
        /\ job'[j].pc = "deleting"
    BY <1>5 DEF DeleteProject
  <2>3. \A i \in Job : ~EvaluatesLater(i)'
    BY <2>1, <2>2, LaterKeeps DEF EvaluatesLater, GeneratingSave
  <2>4. QED
    BY <2>2, <2>3 DEF RoutesInv, Renders, EvaluatesLater
<1>6. ASSUME NEW j \in Job, SaveProject(j, TRUE)
      PROVE  RoutesInv'
  <2>1. \A i \in Job : ~EvaluatesLater(i) /\ ~DropsLater(i)
    BY <1>6 DEF RoutesWaited
  <2>2. /\ state'.apiRoutes = state.apiRoutes
        /\ \A i \in Job \ {j} : job'[i] = job[i]
        /\ job'[j].pc = "saving"
    BY <1>6 DEF SaveProject
  <2>3. \A i \in Job \ {j} : ~EvaluatesLater(i)' /\ ~DropsLater(i)'
    BY <2>1, <2>2, LaterKeeps
  <2>4. \A i \in Job : job'[i].pc # "evaluating"
    BY <2>2, <2>3 DEF EvaluatesLater
  <2>5. QED
    BY <2>2, <2>3, <2>4 DEF RoutesInv, Renders
<1>7. QED
  BY <1>1, <1>2, <1>3, <1>4, <1>5, <1>6 DEF ClickNext

\* An answer drops candidates only where nobody is to evaluate them, and leaves
\* an evaluation to do only where there are some.
LEMMA AnswerRoutes ==
  ASSUME TypeOK, RoutesInv, NEW j \in Job, AnswerNext(j)
  PROVE  RoutesInv'
<1> USE DEF TypeOK, ScreenState, Answer, Continue, Waits, Ended
<1>1. \A i \in Job \ {j} : job'[i] = job[i]
  BY AnswerAlone
<1>2. \A i \in Job \ {j} : /\ EvaluatesLater(i)' = EvaluatesLater(i)
                           /\ DropsLater(i)' = DropsLater(i)
  BY <1>1, LaterKeeps
\* What is to be shown of each answer.
<1>3. ASSUME EvaluatesLater(j)' => EvaluatesLater(j),
             DropsLater(j)' => DropsLater(j),
             job'[j].pc = "evaluating" => state'.apiRoutes # Null,
             \/ state'.apiRoutes = state.apiRoutes
             \/ state'.apiRoutes # {} /\ state'.apiRoutes # Null
             \/ state'.apiRoutes = Null /\ DropsLater(j)
      PROVE  RoutesInv'
  <2>1. Renders'
    BY <1>3, NullAssumption DEF RoutesInv, Renders
  <2>2. \A i, k \in Job : DropsLater(i)' /\ EvaluatesLater(k)' => i = k
    BY <1>2, <1>3 DEF RoutesInv
  <2>3. ASSUME NEW i \in Job \ {j}, job'[i].pc = "evaluating"
        PROVE  state'.apiRoutes # Null
    <3>1. job[i].pc = "evaluating"
      BY <1>1, <2>3
    <3>2. state.apiRoutes # Null /\ EvaluatesLater(i)
      BY <3>1 DEF RoutesInv, EvaluatesLater
    <3>3. ~DropsLater(j)
      BY <3>2 DEF RoutesInv
    <3>4. QED
      BY <1>3, <3>2, <3>3
  <2>4. QED
    BY <1>3, <2>1, <2>2, <2>3 DEF RoutesInv
<1>4. CASE GenerateAnswer(j)
  <2> DEFINE batch == [batch : {j}, project : {job[j].project},
                       place : 1..BatchSize]
  <2>1. job[j] \in Task /\ job[j].pc = "generating"
    BY <1>4 DEF GenerateAnswer
  <2>2. batch \in SUBSET Candidate /\ batch # {}
    BY <2>1, TaskFields, BatchFacts
  <2>3. batch # Null
    BY <2>2, NullAssumption
  <2>4. /\ job'[j] = Evaluating(j, batch)
        /\ state'.apiRoutes = batch
    BY <1>4 DEF GenerateAnswer
  <2> HIDE DEF batch
  <2>5. job'[j].pc = "evaluating"
    BY <2>4 DEF Evaluating
  <2>6. EvaluatesLater(j) /\ ~DropsLater(j)'
    BY <2>1, <2>5 DEF EvaluatesLater, DropsLater, GeneratingSave
  <2>7. QED
    BY <1>3, <2>2, <2>3, <2>4, <2>6
<1>5. CASE GenerateFails(j)
  <2>1. state'.apiRoutes = state.apiRoutes /\ job[j].pc = "generating"
    BY <1>5 DEF GenerateFails
  <2>2. \/ job'[j].pc = "ended"
        \/ job'[j].pc = "evaluating" /\ state.apiRoutes # Null
    BY <1>5 DEF GenerateFails, Evaluating, RoutesShown
  <2>3. EvaluatesLater(j) /\ ~DropsLater(j)'
    BY <2>1, <2>2 DEF EvaluatesLater, DropsLater, GeneratingSave
  <2>4. QED
    BY <1>3, <2>1, <2>2, <2>3
<1>6. CASE EvaluateAnswer(j) \/ EvaluateFails(j)
  <2>1. job[j].pc = "evaluating" /\ job'[j].pc \in {"ended", "evaluating"}
    BY <1>6 DEF EvaluateAnswer, EvaluateFails, NextEvaluation, Evaluating
  <2>2. state.apiRoutes # Null
    BY <2>1 DEF RoutesInv
  <2>3. state'.apiRoutes = state.apiRoutes
    BY <1>6, <2>2 DEF EvaluateAnswer, EvaluateFails, RoutesShown
  <2>4. EvaluatesLater(j) /\ ~DropsLater(j)'
    BY <2>1 DEF EvaluatesLater, DropsLater, GeneratingSave
  <2>5. QED
    BY <1>3, <2>2, <2>3, <2>4
<1>7. CASE SaveAnswer(j)
  <2>1. /\ job[j].pc = "saving"
        /\ job'[j].pc = "listing" /\ job'[j].generate = job[j].generate
        /\ state'.apiRoutes = state.apiRoutes
    BY <1>7 DEF SaveAnswer
  <2>2. QED
    BY <1>3, <2>1 DEF EvaluatesLater, DropsLater, GeneratingSave
<1>8. CASE ListAnswer(j)
  <2>1. CASE job[j].generate
    <3>1. /\ job[j].pc = "listing"
          /\ job'[j] = Waits("generating", job[j].project)
          /\ state'.apiRoutes = Null
      BY <1>8, <2>1 DEF ListAnswer
    <3>2. job'[j].pc = "generating"
      BY <3>1
    <3>3. QED
      BY <1>3, <2>1, <3>1, <3>2 DEF EvaluatesLater, DropsLater, GeneratingSave
  <2>2. CASE ~job[j].generate
    <3>1. job'[j].pc = "ended" /\ state'.apiRoutes = state.apiRoutes
      BY <1>8, <2>2 DEF ListAnswer
    <3>2. QED
      BY <1>3, <3>1 DEF EvaluatesLater, DropsLater, GeneratingSave
  <2>3. QED
    BY <2>1, <2>2
<1>9. CASE DeleteAnswer(j)
  <2>1. /\ job[j].pc = "deleting"
        /\ job'[j].pc = "listing" /\ job'[j].generate = FALSE
        /\ state'.apiRoutes \in {Null, state.apiRoutes}
    BY <1>9 DEF DeleteAnswer, Opened
  <2>2. QED
    BY <1>3, <2>1 DEF EvaluatesLater, DropsLater, GeneratingSave
<1>10. CASE \/ EditAnswer(j) \/ ReportAnswer(j) \/ DownloadAnswer(j)
            \/ ConfirmAnswer(j) \/ RequestFails(j)
  <2>1. job'[j].pc = "ended"
    <3>1. job' = [job EXCEPT ![j] = Ended]
      BY <1>10 DEF EditAnswer, ReportAnswer, DownloadAnswer, ConfirmAnswer,
                   RequestFails, EndsQuietly
    <3>2. QED
      BY <3>1
  <2>2. state'.apiRoutes = state.apiRoutes
    BY <1>10 DEF EditAnswer, ReportAnswer, DownloadAnswer, ConfirmAnswer,
                 RequestFails, EndsQuietly
  <2>3. QED
    BY <1>3, <2>1, <2>2 DEF EvaluatesLater, DropsLater, GeneratingSave
<1>11. CASE ReviewAnswer(j)
  <2>1. /\ job'[j].pc = "listing" /\ job'[j].generate = FALSE
        /\ state'.apiRoutes = state.apiRoutes
    BY <1>11 DEF ReviewAnswer
  <2>2. QED
    BY <1>3, <2>1 DEF EvaluatesLater, DropsLater, GeneratingSave
<1>12. QED
  BY <1>4, <1>5, <1>6, <1>7, <1>8, <1>9, <1>10, <1>11 DEF AnswerNext

\* Whoever lets the clicks of RoutesWaited wait has a screen that can be drawn,
\* whatever else is clicked while requests are under way (generateAndEvaluate,
\* evaluateRoute, saveAndGenerate, deleteProject).
THEOREM WaitedScreenRenders == Spec /\ [][RoutesWaited]_vars => []Renders
<1>1. Init => RoutesInv
  BY NullAssumption
     DEF Init, RoutesInv, Renders, Unused, EvaluatesLater, DropsLater, GeneratingSave
<1>2. ASSUME TypeOK, RoutesInv, [Next]_vars, [RoutesWaited]_vars
      PROVE  RoutesInv'
  <2>1. CASE UNCHANGED vars
    BY <1>2, <2>1
       DEF vars, RoutesInv, Renders, EvaluatesLater, DropsLater, GeneratingSave
  <2>2. CASE Next /\ ~UNCHANGED vars
    BY <1>2, <2>2, ClickRoutes, AnswerRoutes DEF Next
  <2>3. QED
    BY <1>2, <2>1, <2>2
<1>3. RoutesInv => Renders
  BY DEF RoutesInv
<1>4. QED
  BY <1>1, <1>2, <1>3, SpecTypeOK, PTL DEF Spec

-----------------------------------------------------------------------------
(* A user who waits for some answers only: the report is in its format.    *)

ReportLater(i) == job[i].pc \in {"reporting", "downloading"}

\* A report for the screen waits for any other, and reports and deletions wait
\* for each other.  A format that is not shown may be chosen at any time.
ReportsWaited ==
  \A j \in Job :
    /\ (\E f \in Format : FetchReport(j, f)) =>
         \A i \in Job : ~ReportLater(i) /\ job[i].pc # "deleting"
    /\ DownloadReport(j) => \A i \in Job : job[i].pc # "deleting"
    /\ (\E p \in Project : DeleteProject(j, p)) => \A i \in Job : ~ReportLater(i)

FormatFits(i) ==
  state.reportFormat \in CodeFormat /\ job[i].format \in CodeFormat =>
    job[i].format = state.reportFormat

\* A report under way is of the format chosen, if both are shown on the screen,
\* and its project will not be gone when it comes.
ReportsInv ==
  /\ ReportFits
  /\ state.apiReport # Null => state.activeProjectId # NoProject
  /\ \A i \in Job : ReportLater(i) =>
       FormatFits(i) /\ state.activeProjectId # NoProject
  /\ \A i, k \in Job : ReportLater(i) => job[k].pc # "deleting"

\* A step that neither asks for a report nor for a deletion, and leaves what is
\* shown and chosen, or drops it; the active project stays or is another one.
LEMMA PlainReports ==
  ASSUME TypeOK, ReportsInv,
         state'.reportFormat = state.reportFormat,
         state'.apiReport \in {Null, state.apiReport},
         \/ state'.activeProjectId = state.activeProjectId
         \/ state'.activeProjectId \in Project,
         \A i \in Job :
            \/ job'[i] = job[i]
            \/ job'[i].pc \notin {"reporting", "downloading", "deleting"}
  PROVE  ReportsInv'
<1>1. state'.activeProjectId = NoProject => state.activeProjectId = NoProject
  BY ProjectAssumption
<1>2. ReportFits' /\ (state'.apiReport # Null => state'.activeProjectId # NoProject)
  BY <1>1 DEF ReportsInv, ReportFits
<1>3. ASSUME NEW i \in Job, ReportLater(i)'
      PROVE  /\ FormatFits(i)' /\ state'.activeProjectId # NoProject
             /\ \A k \in Job : job'[k].pc # "deleting"
  <2>1. job'[i] = job[i] /\ ReportLater(i)
    BY <1>3 DEF ReportLater
  <2>2. \A k \in Job : job'[k].pc # "deleting"
    BY <2>1 DEF ReportsInv
  <2>3. QED
    BY <1>1, <2>1, <2>2 DEF ReportsInv, FormatFits
<1>4. QED
  BY <1>2, <1>3 DEF ReportsInv

LEMMA ClickReports ==
  ASSUME TypeOK, ReportsInv, ClickNext, ReportsWaited
  PROVE  ReportsInv'
<1> USE DEF TypeOK, ScreenState, Start, Waits, Unused
<1>1. ASSUME CancelEdit \/ \E generate \in BOOLEAN : SaveInvalid(generate)
      PROVE  ReportsInv'
  <2>1. /\ state'.reportFormat = state.reportFormat
        /\ state'.apiReport = state.apiReport
        /\ state'.activeProjectId = state.activeProjectId
        /\ job' = job
    BY <1>1 DEF CancelEdit, SaveInvalid
  <2>2. QED
    BY <2>1, PlainReports
<1>2. ASSUME NEW p \in Project, ReopenProject(p)
      PROVE  ReportsInv'
  <2>1. /\ state'.reportFormat = state.reportFormat
        /\ state'.apiReport = Null
        /\ state'.activeProjectId = p
        /\ job' = job
    BY <1>2 DEF ReopenProject, Opened
  <2>2. QED
    BY <2>1, PlainReports
<1>3. ASSUME NEW j \in Job, NEW p \in Project, SelectProject(j, p)
      PROVE  ReportsInv'
  <2>1. /\ state'.reportFormat = state.reportFormat
        /\ state'.apiReport = Null
        /\ state'.activeProjectId = p
        /\ \A i \in Job \ {j} : job'[i] = job[i]
        /\ job'[j].pc = "generating"
    BY <1>3 DEF SelectProject, Opened
  <2>2. QED
    BY <2>1, PlainReports
<1>4. ASSUME NEW j \in Job,
             \/ \E p \in Project : EditProject(j, p)
             \/ \E generate \in BOOLEAN : SaveProject(j, generate)
             \/ \E r \in Pins : ConfirmRisk(j, r)
             \/ RegenRoutes(j) \/ Review(j) \/ FetchProjects(j)
      PROVE  ReportsInv'
  <2>1. /\ state'.reportFormat = state.reportFormat
        /\ state'.apiReport = state.apiReport
        /\ state'.activeProjectId = state.activeProjectId
        /\ \A i \in Job \ {j} : job'[i] = job[i]
    BY <1>4 DEF EditProject, SaveProject, ConfirmRisk, RegenRoutes, Review,
                FetchProjects
  <2>2. job'[j].pc \in {"opening", "saving", "confirming", "generating",
                       "posting", "listing"}
    <3>1. CASE \/ \E p \in Project : EditProject(j, p)
               \/ \E r \in Pins : ConfirmRisk(j, r)
      BY <3>1 DEF EditProject, ConfirmRisk
    <3>2. CASE \/ \E generate \in BOOLEAN : SaveProject(j, generate)
               \/ FetchProjects(j)
      BY <3>2 DEF SaveProject, FetchProjects
    <3>3. CASE RegenRoutes(j) \/ Review(j)
      BY <3>3 DEF RegenRoutes, Review
    <3>4. QED
      BY <1>4, <3>1, <3>2, <3>3
  <2>3. QED
    BY <2>1, <2>2, PlainReports
<1>5. ASSUME NEW f \in Format, ChooseFormat(f)
      PROVE  ReportsInv'
  <2>1. /\ state.activeProjectId = NoProject \/ f \notin CodeFormat
        /\ state'.reportFormat = f
        /\ state'.apiReport = state.apiReport
        /\ state'.activeProjectId = state.activeProjectId
        /\ job' = job
    BY <1>5 DEF ChooseFormat
  <2>2. CASE f \notin CodeFormat
    BY <2>1, <2>2 DEF ReportsInv, ReportFits, ReportLater, FormatFits
  <2>3. CASE state.activeProjectId = NoProject
    BY <2>1, <2>3 DEF ReportsInv, ReportFits, ReportLater
  <2>4. QED
    BY <2>1, <2>2, <2>3
<1>6. ASSUME NEW j \in Job, NEW f \in Format, FetchReport(j, f)
      PROVE  ReportsInv'
  <2>1. \A i \in Job : ~ReportLater(i) /\ job[i].pc # "deleting"
    BY <1>6 DEF ReportsWaited
  <2>2. /\ state'.reportFormat = f
        /\ state'.apiReport = Null
        /\ state'.activeProjectId = state.activeProjectId
        /\ state.activeProjectId # NoProject
        /\ \A i \in Job \ {j} : job'[i] = job[i]
        /\ job'[j].pc = "reporting" /\ job'[j].format = f
    BY <1>6 DEF FetchReport
  <2>3. \A i \in Job \ {j} : ~ReportLater(i)' /\ job'[i].pc # "deleting"
    BY <2>1, <2>2 DEF ReportLater
  <2>4. QED
    BY <2>2, <2>3 DEF ReportsInv, ReportFits, FormatFits
<1>7. ASSUME NEW j \in Job, DownloadReport(j)
      PROVE  ReportsInv'
  <2>1. \A i \in Job : job[i].pc # "deleting"
    BY <1>7 DEF ReportsWaited
  <2>2. /\ state'.reportFormat = state.reportFormat
        /\ state'.apiReport = state.apiReport
        /\ state'.activeProjectId = state.activeProjectId
        /\ state.activeProjectId # NoProject
        /\ \A i \in Job \ {j} : job'[i] = job[i]
        /\ job'[j].pc = "downloading" /\ job'[j].format = state.reportFormat
    BY <1>7 DEF DownloadReport
  <2>3. \A i \in Job : job'[i].pc # "deleting"
    BY <2>1, <2>2
  <2>4. QED
    BY <2>2, <2>3 DEF ReportsInv, ReportFits, FormatFits, ReportLater
<1>8. ASSUME NEW j \in Job, NEW p \in Project, DeleteProject(j, p)
      PROVE  ReportsInv'
  <2>1. \A i \in Job : ~ReportLater(i)
    BY <1>8 DEF ReportsWaited
  <2>2. /\ state'.reportFormat = state.reportFormat
        /\ state'.apiReport = state.apiReport
        /\ state'.activeProjectId = state.activeProjectId
        /\ \A i \in Job \ {j} : job'[i] = job[i]
        /\ job'[j].pc = "deleting"
    BY <1>8 DEF DeleteProject
  <2>3. \A i \in Job : ~ReportLater(i)'
    BY <2>1, <2>2 DEF ReportLater
  <2>4. QED
    BY <2>2, <2>3 DEF ReportsInv, ReportFits
<1>9. QED
  BY <1>1, <1>2, <1>3, <1>4, <1>5, <1>6, <1>7, <1>8 DEF ClickNext

LEMMA AnswerReports ==
  ASSUME TypeOK, ReportsInv, NEW j \in Job, AnswerNext(j)
  PROVE  ReportsInv'
<1> USE DEF TypeOK, ScreenState, Answer, Continue, Waits, Ended
<1>1. \A i \in Job \ {j} : job'[i] = job[i]
  BY AnswerAlone
<1>2. CASE GenerateAnswer(j) \/ GenerateFails(j)
  <2>1. /\ state'.reportFormat = state.reportFormat
        /\ state'.apiReport = state.apiReport
        /\ state'.activeProjectId = state.activeProjectId
    BY <1>2 DEF GenerateAnswer, GenerateFails
  <2>2. job'[j].pc \in {"evaluating", "ended"}
    BY <1>2 DEF GenerateAnswer, GenerateFails, Evaluating
  <2>3. QED
    BY <1>1, <2>1, <2>2, PlainReports
<1>3. CASE EvaluateAnswer(j) \/ EvaluateFails(j)
  <2>1. /\ state'.reportFormat = state.reportFormat
        /\ state'.apiReport = state.apiReport
        /\ state'.activeProjectId = state.activeProjectId
    BY <1>3 DEF EvaluateAnswer, EvaluateFails
  <2>2. job'[j].pc \in {"evaluating", "ended"}
    BY <1>3 DEF EvaluateAnswer, EvaluateFails, NextEvaluation, Evaluating
  <2>3. QED
    BY <1>1, <2>1, <2>2, PlainReports
<1>4. CASE SaveAnswer(j)
  <2>1. job[j] \in Task /\ job[j].pc = "saving"
    BY <1>4 DEF SaveAnswer
  <2>2. PICK p \in IF job[j].project = NoProject THEN Project \ known
                   ELSE {job[j].project} :
          /\ state' = [state EXCEPT !.activeProjectId = p, !.apiLoading = TRUE]
          /\ job' = [job EXCEPT ![j] = [pc |-> "listing", project |-> p,
                                       generate |-> job[j].generate]]
    BY <1>4 DEF SaveAnswer
  <2>3. p \in Project
    BY <2>1, <2>2, TaskFields
  <2>4. /\ state'.reportFormat = state.reportFormat
        /\ state'.apiReport = state.apiReport
        /\ state'.activeProjectId \in Project
        /\ job'[j].pc = "listing"
    BY <2>2, <2>3
  <2>5. QED
    BY <1>1, <2>4, PlainReports
<1>5. CASE ListAnswer(j)
  <2>1. /\ state'.reportFormat = state.reportFormat
        /\ state'.apiReport = state.apiReport
        /\ state'.activeProjectId = state.activeProjectId
    BY <1>5 DEF ListAnswer
  <2>2. \/ job' = [job EXCEPT ![j] = Waits("generating", job[j].project)]
        \/ job' = [job EXCEPT ![j] = Ended]
    BY <1>5 DEF ListAnswer
  <2>3. job'[j].pc \in {"generating", "ended"}
    BY <2>2
  <2>4. QED
    BY <1>1, <2>1, <2>3, PlainReports
<1>6. CASE DeleteAnswer(j)
  <2>1. job[j].pc = "deleting" /\ \A i \in Job : ~ReportLater(i)
    BY <1>6 DEF DeleteAnswer, ReportsInv
  <2>2. job'[j].pc = "listing"
    BY <1>6 DEF DeleteAnswer
  <2>3. \A i \in Job : ~ReportLater(i)'
    BY <1>1, <2>1, <2>2 DEF ReportLater
  <2>4. /\ state'.reportFormat = state.reportFormat
        /\ \/ state'.apiReport = Null
           \/ /\ state'.apiReport = state.apiReport
              /\ state'.activeProjectId = state.activeProjectId
    BY <1>6 DEF DeleteAnswer, Opened
  <2>5. QED
    BY <2>3, <2>4 DEF ReportsInv, ReportFits
<1>7. CASE ReportAnswer(j) \/ DownloadAnswer(j)
  <2>1. ReportLater(j)
    BY <1>7 DEF ReportAnswer, DownloadAnswer, ReportLater
  <2>2. FormatFits(j) /\ state.activeProjectId # NoProject
    BY <2>1 DEF ReportsInv
  <2>3. job[j].format \in CodeFormat \/ DownloadAnswer(j)
    BY <1>7, TaskFields DEF ReportAnswer
  <2>4. /\ state'.reportFormat = state.reportFormat
        /\ state'.activeProjectId = state.activeProjectId
        /\ job'[j].pc = "ended"
    <3>1. job' = [job EXCEPT ![j] = Ended]
      BY <1>7 DEF ReportAnswer, DownloadAnswer
    <3>2. /\ state'.reportFormat = state.reportFormat
          /\ state'.activeProjectId = state.activeProjectId
      BY <1>7 DEF ReportAnswer, DownloadAnswer
    <3>3. QED
      BY <3>1, <3>2
  <2>5. \/ state'.apiReport = state.apiReport
        \/ state'.apiReport = ReportOf(j) /\ job[j].format \in CodeFormat
    BY <1>7, <2>3 DEF ReportAnswer, DownloadAnswer
  <2>6. ReportFits'
    BY <2>2, <2>4, <2>5 DEF ReportsInv, ReportFits, ReportOf, FormatFits
  <2>7. ASSUME NEW i \in Job, ReportLater(i)'
        PROVE  /\ FormatFits(i)' /\ state'.activeProjectId # NoProject
               /\ \A k \in Job : job'[k].pc # "deleting"
    <3>1. i # j /\ job'[i] = job[i] /\ ReportLater(i)
      BY <1>1, <2>4, <2>7 DEF ReportLater
    <3>2. \A k \in Job : job[k].pc # "deleting"
      BY <3>1 DEF ReportsInv
    <3>3. QED
      BY <1>1, <2>4, <3>1, <3>2 DEF ReportsInv, FormatFits
  <2>8. QED
    BY <2>2, <2>4, <2>6, <2>7 DEF ReportsInv
<1>8. CASE EditAnswer(j) \/ ConfirmAnswer(j) \/ ReviewAnswer(j) \/ RequestFails(j)
  <2>1. /\ state'.reportFormat = state.reportFormat
        /\ state'.apiReport = state.apiReport
        /\ state'.activeProjectId = state.activeProjectId
    BY <1>8 DEF EditAnswer, ConfirmAnswer, ReviewAnswer, RequestFails, EndsQuietly
  <2>2. job'[j].pc \in {"ended", "listing"}
    <3>1. CASE ReviewAnswer(j)
      BY <3>1 DEF ReviewAnswer
    <3>2. CASE EditAnswer(j) \/ ConfirmAnswer(j) \/ RequestFails(j)
      BY <3>2 DEF EditAnswer, ConfirmAnswer, RequestFails, EndsQuietly
    <3>3. QED
      BY <1>8, <3>1, <3>2
  <2>3. QED
    BY <1>1, <2>1, <2>2, PlainReports
<1>9. QED
  BY <1>2, <1>3, <1>4, <1>5, <1>6, <1>7, <1>8 DEF AnswerNext

\* Whoever lets the clicks of ReportsWaited wait reads the report in the format
\* chosen last, however many downloads, saves and openings of projects overlap
\* with it (fetchReport, downloadReport, setReportFormatWithFetch).
THEOREM WaitedReportFits == Spec /\ [][ReportsWaited]_vars => []ReportFits
<1>1. Init => ReportsInv
  BY DEF Init, ReportsInv, ReportFits, ReportLater, Unused
<1>2. ASSUME TypeOK, ReportsInv, [Next]_vars, [ReportsWaited]_vars
      PROVE  ReportsInv'
  <2>1. CASE UNCHANGED vars
    BY <1>2, <2>1 DEF vars, ReportsInv, ReportFits, ReportLater, FormatFits
  <2>2. CASE Next /\ ~UNCHANGED vars
    BY <1>2, <2>2, ClickReports, AnswerReports DEF Next
  <2>3. QED
    BY <1>2, <2>1, <2>2
<1>3. ReportsInv => ReportFits
  BY DEF ReportsInv
<1>4. QED
  BY <1>1, <1>2, <1>3, SpecTypeOK, PTL DEF Spec

-----------------------------------------------------------------------------
(* A user who waits for some answers only: one project on the screen.      *)

\* A job that is to bring data of its project to the screen.
BringsLater(i) == EvaluatesLater(i) \/ ReportLater(i)

Saving(i)   == job[i].pc = "saving"
Deleting(i) == job[i].pc = "deleting"

\* Clicks that make another project active, now or later, wait for what is to
\* come of the project before; clicks that ask for data of a project wait for
\* what may make it inactive.  A save is of the active project, or there is
\* nothing on the screen.
ProjectsWaited ==
  /\ (\E p \in Project : ReopenProject(p)) => \A i \in Job : ~BringsLater(i)
  /\ \A j \in Job :
       /\ (\E p \in Project : SelectProject(j, p)) =>
            \A i \in Job : ~BringsLater(i) /\ ~Saving(i) /\ ~Deleting(i)
       /\ RegenRoutes(j) \/ DownloadReport(j) \/ (\E f \in Format : FetchReport(j, f)) =>
            \A i \in Job : ~Saving(i) /\ ~Deleting(i)
       /\ (\E p \in Project : DeleteProject(j, p)) =>
            \A i \in Job : ~BringsLater(i)
       /\ \A generate \in BOOLEAN : SaveProject(j, generate) =>
            /\ \A i \in Job : /\ ~BringsLater(i)
                              /\ generate => ~Saving(i) /\ ~Deleting(i)
            /\ ProjectsShown = {} \/ state.editingProjectId = state.activeProjectId

\* What is to come is of the active project, which nothing under way changes
\* meanwhile; and a save finds its project active or the screen empty.
ProjectsInv ==
  /\ ScreenFits
  /\ \A i \in Job : BringsLater(i) /\ ~Saving(i) =>
       ProjectsOf(i) \subseteq {state.activeProjectId}
  /\ \A i, k \in Job : BringsLater(i) => ~Deleting(k)
  /\ \A i, k \in Job : BringsLater(i) /\ Saving(k) => i = k
  /\ \A k \in Job : Saving(k) =>
       ProjectsShown = {} \/ job[k].project = state.activeProjectId

LEMMA SameTask ==
  ASSUME NEW i \in Job, job'[i] = job[i]
  PROVE  /\ BringsLater(i)' = BringsLater(i)
         /\ Saving(i)' = Saving(i) /\ Deleting(i)' = Deleting(i)
         /\ ProjectsOf(i)' = ProjectsOf(i)
BY DEF BringsLater, EvaluatesLater, GeneratingSave, ReportLater, Saving, Deleting,
       ProjectsOf

\* Only projects are shown.
LEMMA ShownProjects == TypeOK => ProjectsShown \subseteq Project
<1> SUFFICES ASSUME TypeOK
             PROVE  ProjectsShown \subseteq Project
  OBVIOUS
<1>1. \A r \in RoutesShown \cup Pins : r \in Candidate
  BY DEF TypeOK, ScreenState, RoutesShown, Pins
<1>2. \A r \in Candidate : r.project \in Project
  BY DEF Candidate
<1>3. state.apiReport # Null => state.apiReport.project \in Project
  BY DEF TypeOK, ScreenState
<1>4. QED
  BY <1>1, <1>2, <1>3 DEF ProjectsShown

LEMMA PlainShows ==
  ASSUME RoutesFitKeys, Plain \/ Clears
  PROVE  ProjectsShown' \subseteq ProjectsShown /\ (Clears => ProjectsShown' = {})
<1>1. CASE Plain
  <2>1. RoutesShown' \cup Pins' \subseteq RoutesShown \cup Pins
    BY <1>1, SameCandidates DEF Plain
  <2>2. state'.apiReport \in {Null, state.apiReport}
    BY <1>1 DEF Plain
  <2>3. ProjectsShown' \subseteq ProjectsShown
    BY <2>1, <2>2 DEF ProjectsShown
  <2>4. Clears => ProjectsShown' = {}
    BY DEF Clears, ProjectsShown, RoutesShown, Pins
  <2>5. QED
    BY <2>3, <2>4
<1>2. CASE Clears
  BY <1>2 DEF Clears, ProjectsShown, RoutesShown, Pins
<1>3. QED
  BY <1>1, <1>2

\* A step that adds nothing to the screen, and no job that brings, saves or
\* deletes, while the active project stays or the screen is cleared with
\* nothing to come.
LEMMA PlainProjects ==
  ASSUME ProjectsInv, RoutesFitKeys, Plain \/ Clears,
         \A i \in Job : \/ job'[i] = job[i]
                        \/ ~BringsLater(i)' /\ ~Saving(i)' /\ ~Deleting(i)',
         \/ state'.activeProjectId = state.activeProjectId
         \/ Clears /\ \A i \in Job : ~BringsLater(i)
  PROVE  ProjectsInv'
<1>1. ScreenFits'
  BY PlainKeeps DEF ProjectsInv
<1>2. \A i \in Job : /\ BringsLater(i)' => BringsLater(i) /\ job'[i] = job[i]
                     /\ Saving(i)' => Saving(i) /\ job'[i] = job[i]
                     /\ Deleting(i)' => Deleting(i)
  BY SameTask
<1>3. ASSUME NEW i \in Job, BringsLater(i)', ~Saving(i)'
      PROVE  ProjectsOf(i)' \subseteq {state'.activeProjectId}
  <2>1. BringsLater(i) /\ job'[i] = job[i]
    BY <1>2, <1>3
  <2>2. state'.activeProjectId = state.activeProjectId
    BY <2>1
  <2>3. /\ ~Saving(i) /\ ProjectsOf(i)' = ProjectsOf(i)
    BY <1>3, <2>1, SameTask
  <2>4. QED
    BY <2>1, <2>2, <2>3 DEF ProjectsInv
<1>4. ASSUME NEW k \in Job, Saving(k)'
      PROVE  ProjectsShown' = {} \/ job'[k].project = state'.activeProjectId
  <2>1. Saving(k) /\ job'[k] = job[k]
    BY <1>2, <1>4
  <2>2. ProjectsShown = {} \/ job[k].project = state.activeProjectId
    BY <2>1 DEF ProjectsInv
  <2>3. QED
    BY <2>1, <2>2, PlainShows
<1>5. QED
  BY <1>1, <1>2, <1>3, <1>4 DEF ProjectsInv

\* A click that starts one job, for the active project or for none.
LEMMA ClickProjects ==
  ASSUME TypeOK, RoutesFitKeys, ProjectsInv, ClickNext, ProjectsWaited
  PROVE  ProjectsInv'
<1> USE DEF TypeOK, ScreenState, Start, Waits, Unused
<1>1. (Plain \/ Clears) /\ ScreenFits'
  BY ClickPlain, PlainKeeps DEF ProjectsInv
<1>2. ASSUME \/ CancelEdit
             \/ \E generate \in BOOLEAN : SaveInvalid(generate)
             \/ \E f \in Format : ChooseFormat(f)
      PROVE  ProjectsInv'
  <2>1. state'.activeProjectId = state.activeProjectId /\ job' = job
    BY <1>2 DEF CancelEdit, SaveInvalid, ChooseFormat
  <2>2. QED
    BY <1>1, <2>1, PlainProjects
<1>3. ASSUME NEW p \in Project, ReopenProject(p)
      PROVE  ProjectsInv'
  <2>1. \A i \in Job : ~BringsLater(i)
    BY <1>3 DEF ProjectsWaited
  <2>2. Clears /\ job' = job
    BY <1>3 DEF ReopenProject, Opened, Clears
  <2>3. QED
    BY <2>1, <2>2, PlainProjects
<1>4. ASSUME NEW j \in Job,
             \/ \E p \in Project : EditProject(j, p)
             \/ \E r \in Pins : ConfirmRisk(j, r)
             \/ Review(j) \/ FetchProjects(j)
      PROVE  ProjectsInv'
  <2>1. /\ state'.activeProjectId = state.activeProjectId
        /\ \A i \in Job \ {j} : job'[i] = job[i]
    BY <1>4 DEF EditProject, ConfirmRisk, Review, FetchProjects
  <2>2. \/ job'[j].pc \in {"opening", "confirming", "posting"}
        \/ job'[j].pc = "listing" /\ job'[j].generate = FALSE
    <3>1. CASE (\E p \in Project : EditProject(j, p)) \/ Review(j)
      BY <3>1 DEF EditProject, Review
    <3>2. CASE \E r \in Pins : ConfirmRisk(j, r)
      BY <3>2 DEF ConfirmRisk
    <3>3. CASE FetchProjects(j)
      BY <3>3 DEF FetchProjects
    <3>4. QED
      BY <1>4, <3>1, <3>2, <3>3
  <2>3. ~BringsLater(j)' /\ ~Saving(j)' /\ ~Deleting(j)'
    BY <2>2 DEF BringsLater, EvaluatesLater, GeneratingSave, ReportLater, Saving,
                Deleting
  <2>4. QED
    BY <1>1, <2>1, <2>3, PlainProjects
<1>5. ASSUME NEW j \in Job, NEW p \in Project, SelectProject(j, p)
      PROVE  ProjectsInv'
  <2>1. \A i \in Job : ~BringsLater(i) /\ ~Saving(i) /\ ~Deleting(i)
    BY <1>5 DEF ProjectsWaited
  <2>2. /\ state'.activeProjectId = p
        /\ \A i \in Job \ {j} : job'[i] = job[i]
        /\ job'[j].pc = "generating" /\ job'[j].project = p
    BY <1>5 DEF SelectProject, Opened
  <2>3. \A i \in Job \ {j} : ~BringsLater(i)' /\ ~Saving(i)' /\ ~Deleting(i)'
    BY <2>1, <2>2, SameTask
  <2>4. ~Saving(j)' /\ ~Deleting(j)' /\ ProjectsOf(j)' = {p}
    BY <2>2 DEF Saving, Deleting, ProjectsOf
  <2>5. QED
    BY <1>1, <2>2, <2>3, <2>4 DEF ProjectsInv
<1>6. ASSUME NEW j \in Job,
             \/ RegenRoutes(j) \/ DownloadReport(j)
             \/ \E f \in Format : FetchReport(j, f)
      PROVE  ProjectsInv'
  <2>1. \A i \in Job : ~Saving(i) /\ ~Deleting(i)
    BY <1>6 DEF ProjectsWaited
  <2>2. /\ state'.activeProjectId = state.activeProjectId
        /\ \A i \in Job \ {j} : job'[i] = job[i]
    BY <1>6 DEF RegenRoutes, DownloadReport, FetchReport
  <2>3. /\ job'[j].pc \in {"generating", "downloading", "reporting"}
        /\ job'[j].project = state.activeProjectId
    <3>1. CASE RegenRoutes(j)
      BY <3>1 DEF RegenRoutes
    <3>2. CASE DownloadReport(j)
      BY <3>2 DEF DownloadReport
    <3>3. CASE \E f \in Format : FetchReport(j, f)
      BY <3>3 DEF FetchReport
    <3>4. QED
      BY <1>6, <3>1, <3>2, <3>3
  <2>4. \A i \in Job \ {j} : /\ BringsLater(i)' = BringsLater(i)
                             /\ ~Saving(i)' /\ ~Deleting(i)'
                             /\ ProjectsOf(i)' = ProjectsOf(i)
    BY <2>1, <2>2, SameTask
  <2>5. ~Saving(j)' /\ ~Deleting(j)' /\ ProjectsOf(j)' = {state.activeProjectId}
    BY <2>3 DEF Saving, Deleting, ProjectsOf
  <2>6. ASSUME NEW i \in Job, BringsLater(i)'
        PROVE  ProjectsOf(i)' \subseteq {state'.activeProjectId}
    <3>1. CASE i = j
      BY <2>2, <2>5, <3>1
    <3>2. CASE i # j
      <4>1. BringsLater(i) /\ ~Saving(i) /\ ProjectsOf(i)' = ProjectsOf(i)
        BY <2>1, <2>4, <2>6, <3>2
      <4>2. ProjectsOf(i) \subseteq {state.activeProjectId}
        BY <4>1 DEF ProjectsInv
      <4>3. QED
        BY <2>2, <4>1, <4>2
    <3>3. QED
      BY <3>1, <3>2
  <2>7. \A i \in Job : ~Saving(i)' /\ ~Deleting(i)'
    BY <2>4, <2>5
  <2>8. QED
    BY <1>1, <2>6, <2>7 DEF ProjectsInv
<1>7. ASSUME NEW j \in Job, NEW p \in Project, DeleteProject(j, p)
      PROVE  ProjectsInv'
  <2>1. \A i \in Job : ~BringsLater(i)
    BY <1>7 DEF ProjectsWaited
  <2>2. /\ state'.activeProjectId = state.activeProjectId
        /\ \A i \in Job \ {j} : job'[i] = job[i]
        /\ job'[j].pc = "deleting"
    BY <1>7 DEF DeleteProject
  <2>3. ~BringsLater(j)' /\ ~Saving(j)'
    BY <2>2 DEF BringsLater, EvaluatesLater, GeneratingSave, ReportLater, Saving
  <2>4. \A i \in Job : ~BringsLater(i)'
    BY <2>1, <2>2, <2>3, SameTask
  <2>5. \A i \in Job : Saving(i)' => Saving(i) /\ job'[i] = job[i]
    BY <2>2, <2>3, SameTask
  <2>6. \A i \in Job : Saving(i)' =>
           ProjectsShown' = {} \/ job'[i].project = state'.activeProjectId
    BY <1>1, <2>2, <2>5, PlainShows DEF ProjectsInv
  <2>7. QED
    BY <1>1, <2>4, <2>5, <2>6 DEF ProjectsInv
<1>8. ASSUME NEW j \in Job, NEW generate \in BOOLEAN, SaveProject(j, generate)
      PROVE  ProjectsInv'
  <2>1. /\ \A i \in Job : /\ ~BringsLater(i)
                          /\ generate => ~Saving(i) /\ ~Deleting(i)
        /\ ProjectsShown = {} \/ state.editingProjectId = state.activeProjectId
    BY <1>8 DEF ProjectsWaited
  <2>2. /\ state'.activeProjectId = state.activeProjectId
        /\ \A i \in Job \ {j} : job'[i] = job[i]
        /\ job'[j].pc = "saving"
        /\ job'[j].project = state.editingProjectId
        /\ job'[j].generate = generate
    BY <1>8 DEF SaveProject
  <2>3. \A i \in Job \ {j} : /\ ~BringsLater(i)' /\ Deleting(i)' = Deleting(i)
                             /\ Saving(i)' = Saving(i) /\ job'[i] = job[i]
    BY <2>1, <2>2, SameTask
  <2>4. /\ Saving(j)' /\ ~Deleting(j)'
        /\ BringsLater(j)' => generate
    BY <2>2 DEF Saving, Deleting, BringsLater, EvaluatesLater, GeneratingSave,
                ReportLater
  <2>5. ProjectsShown' = {} \/ job'[j].project = state'.activeProjectId
    BY <1>1, <2>1, <2>2, PlainShows
  <2>6. ASSUME NEW k \in Job \ {j}, Saving(k)'
        PROVE  ProjectsShown' = {} \/ job'[k].project = state'.activeProjectId
    BY <1>1, <2>2, <2>3, <2>6, PlainShows DEF ProjectsInv
  <2>7. \A i, k \in Job : BringsLater(i)' =>
           ~Deleting(k)' /\ (Saving(k)' => i = k)
    BY <2>1, <2>3, <2>4
  <2>8. QED
    BY <1>1, <2>3, <2>4, <2>5, <2>6, <2>7 DEF ProjectsInv
<1>9. QED
  BY <1>2, <1>3, <1>4, <1>5, <1>6, <1>7, <1>8 DEF ClickNext

\* An answer brings data of the active project, and a save makes the project
\* active that is on the screen, or one when nothing is.
LEMMA AnswerProjects ==
  ASSUME TypeOK, RoutesFitKeys, ProjectsInv, NEW j \in Job, AnswerNext(j)
  PROVE  ProjectsInv'
<1> USE DEF TypeOK, ScreenState, Answer, Continue, Waits, Ended
<1>1. /\ \A i \in Job \ {j} : job'[i] = job[i]
      /\ \A i \in Job \ {j} : /\ BringsLater(i)' = BringsLater(i)
                              /\ Saving(i)' = Saving(i)
                              /\ Deleting(i)' = Deleting(i)
                              /\ ProjectsOf(i)' = ProjectsOf(i)
  BY AnswerAlone, SameTask
\* What is to be shown of an answer that brings data.
<1>2. ASSUME BringsLater(j), ~Saving(j), ~Saving(j)', ~Deleting(j)',
             state'.activeProjectId = state.activeProjectId,
             BringsLater(j)' => ProjectsOf(j)' \subseteq {state.activeProjectId}
      PROVE  ProjectsInv'
  <2>1. /\ ProjectsOf(j) \subseteq {state.activeProjectId}
        /\ \A i \in Job : ~Saving(i) /\ ~Deleting(i)
    BY <1>2 DEF ProjectsInv
  <2>2. ScreenFits'
    BY <1>2, <2>1, AnswerScreen DEF ProjectsInv, Saving
  <2>3. \A i \in Job : ~Saving(i)' /\ ~Deleting(i)'
    BY <1>1, <1>2, <2>1
  <2>4. ASSUME NEW i \in Job \ {j}, BringsLater(i)'
        PROVE  ProjectsOf(i)' \subseteq {state.activeProjectId}
    BY <1>1, <2>1, <2>4 DEF ProjectsInv
  <2>5. QED
    BY <1>2, <2>2, <2>3, <2>4 DEF ProjectsInv
<1>3. CASE GenerateAnswer(j)
  <2> DEFINE batch == [batch : {j}, project : {job[j].project},
                       place : 1..BatchSize]
  <2>1. /\ job[j].pc = "generating"
        /\ job'[j] = Evaluating(j, batch)
        /\ state'.activeProjectId = state.activeProjectId
    BY <1>3 DEF GenerateAnswer
  <2>2. \A r \in batch : r.project = job[j].project
    OBVIOUS
  <2> HIDE DEF batch
  <2>3. BringsLater(j) /\ ~Saving(j)
    BY <2>1 DEF BringsLater, EvaluatesLater, Saving
  <2>4. job[j].project = state.activeProjectId
    BY <2>3 DEF ProjectsInv, ProjectsOf
  <2>5. /\ job'[j].pc = "evaluating" /\ job'[j].project = job[j].project
        /\ job'[j].todo = batch
    BY <2>1 DEF Evaluating
  <2>6. ~Saving(j)' /\ ~Deleting(j)'
    BY <2>5 DEF Saving, Deleting
  <2>7. ProjectsOf(j)' \subseteq {state.activeProjectId}
    BY <2>2, <2>4, <2>5 DEF ProjectsOf
  <2>8. QED
    BY <1>2, <2>1, <2>3, <2>6, <2>7
<1>4. CASE GenerateFails(j)
  <2>1. /\ job[j].pc = "generating"
        /\ state'.activeProjectId = state.activeProjectId
    BY <1>4 DEF GenerateFails
  <2>2. job'[j] \in {Ended, Evaluating(j, RoutesShown)}
    BY <1>4 DEF GenerateFails
  <2>3. BringsLater(j) /\ ~Saving(j)
    BY <2>1 DEF BringsLater, EvaluatesLater, Saving
  <2>4. job[j].project = state.activeProjectId
    BY <2>3 DEF ProjectsInv, ProjectsOf
  <2>5. \A r \in RoutesShown : r.project = state.activeProjectId
    BY DEF ProjectsInv, ScreenFits, ProjectsShown
  <2>6. \/ job'[j].pc = "ended"
        \/ /\ job'[j].pc = "evaluating" /\ job'[j].project = job[j].project
           /\ job'[j].todo = RoutesShown
    BY <2>2 DEF Evaluating
  <2>7. ~Saving(j)' /\ ~Deleting(j)'
    BY <2>6 DEF Saving, Deleting
  <2>8. BringsLater(j)' => ProjectsOf(j)' \subseteq {state.activeProjectId}
    BY <2>4, <2>5, <2>6
       DEF ProjectsOf, BringsLater, EvaluatesLater, GeneratingSave, ReportLater
  <2>9. QED
    BY <1>2, <2>1, <2>3, <2>7, <2>8
<1>5. CASE EvaluateAnswer(j) \/ EvaluateFails(j)
  <2> DEFINE rest == job[j].todo \ {First(job[j].todo)}
  <2>1. /\ job[j].pc = "evaluating"
        /\ state'.activeProjectId = state.activeProjectId
    BY <1>5 DEF EvaluateAnswer, EvaluateFails
  <2>2. job'[j] \in {Ended, Evaluating(j, rest)}
    BY <1>5 DEF EvaluateAnswer, EvaluateFails, NextEvaluation
  <2>3. rest \subseteq job[j].todo
    OBVIOUS
  <2> HIDE DEF rest
  <2>4. BringsLater(j) /\ ~Saving(j)
    BY <2>1 DEF BringsLater, EvaluatesLater, Saving
  <2>5. /\ job[j].project = state.activeProjectId
        /\ \A r \in job[j].todo : r.project = state.activeProjectId
    BY <2>1, <2>4 DEF ProjectsInv, ProjectsOf
  <2>6. \/ job'[j].pc = "ended"
        \/ /\ job'[j].pc = "evaluating" /\ job'[j].project = job[j].project
           /\ job'[j].todo = rest
    BY <2>2 DEF Evaluating
  <2>7. ~Saving(j)' /\ ~Deleting(j)'
    BY <2>6 DEF Saving, Deleting
  <2>8. BringsLater(j)' => ProjectsOf(j)' \subseteq {state.activeProjectId}
    BY <2>3, <2>5, <2>6
       DEF ProjectsOf, BringsLater, EvaluatesLater, GeneratingSave, ReportLater
  <2>9. QED
    BY <1>2, <2>1, <2>4, <2>7, <2>8
<1>6. CASE ReportAnswer(j) \/ DownloadAnswer(j)
  <2>1. /\ job[j].pc \in {"reporting", "downloading"}
        /\ state'.activeProjectId = state.activeProjectId
        /\ job' = [job EXCEPT ![j] = Ended]
    BY <1>6 DEF ReportAnswer, DownloadAnswer
  <2>2. BringsLater(j) /\ ~Saving(j)
    BY <2>1 DEF BringsLater, ReportLater, Saving
  <2>3. job'[j].pc = "ended"
    BY <2>1
  <2>4. ~Saving(j)' /\ ~Deleting(j)' /\ ~BringsLater(j)'
    BY <2>3 DEF Saving, Deleting, BringsLater, EvaluatesLater, GeneratingSave,
                ReportLater
  <2>5. QED
    BY <1>2, <2>1, <2>2, <2>4
<1>7. CASE SaveAnswer(j)
  <2>1. job[j].pc = "saving" /\ Saving(j)
    BY <1>7 DEF SaveAnswer, Saving
  <2>2. PICK p \in IF job[j].project = NoProject THEN Project \ known
                   ELSE {job[j].project} :
          /\ state' = [state EXCEPT !.activeProjectId = p, !.apiLoading = TRUE]
          /\ job' = [job EXCEPT ![j] = [pc |-> "listing", project |-> p,
                                       generate |-> job[j].generate]]
    BY <1>7 DEF SaveAnswer
  <2>3. /\ state'.activeProjectId = p
        /\ state'.apiRoutes = state.apiRoutes
        /\ state'.apiRouteKeyMap = state.apiRouteKeyMap
        /\ state'.apiRisksByRoute = state.apiRisksByRoute
        /\ state'.apiReport = state.apiReport
    BY <2>2
  <2>4. /\ job'[j].pc = "listing" /\ job'[j].project = p
        /\ job'[j].generate = job[j].generate
    BY <2>2
  <2>5. ProjectsShown' = ProjectsShown
    BY <2>3 DEF ProjectsShown, RoutesShown, Pins
  <2>6. ProjectsShown = {} \/ state.activeProjectId = p
    <3>1. CASE ProjectsShown # {}
      <4>1. job[j].project = state.activeProjectId
        BY <2>1, <3>1 DEF ProjectsInv
      <4>2. state.activeProjectId \in Project
        BY <3>1, ShownProjects DEF ProjectsInv, ScreenFits
      <4>3. QED
        BY <2>2, <4>1, <4>2, ProjectAssumption
    <3>2. QED
      BY <3>1
  <2>7. ScreenFits'
    BY <2>3, <2>5, <2>6 DEF ProjectsInv, ScreenFits
  <2>8. \A i \in Job \ {j} : ~BringsLater(i)'
    BY <1>1, <2>1 DEF ProjectsInv
  <2>9. /\ ~Saving(j)' /\ ~Deleting(j)' /\ ProjectsOf(j)' = {p}
        /\ BringsLater(j)' => BringsLater(j)
    BY <2>1, <2>4 DEF Saving, Deleting, ProjectsOf, BringsLater, EvaluatesLater,
                      GeneratingSave, ReportLater
  <2>10. \A i, k \in Job : BringsLater(i)' => ~Deleting(k)' /\ ~Saving(k)'
    BY <1>1, <2>8, <2>9 DEF ProjectsInv
  <2>11. ASSUME NEW k \in Job, Saving(k)'
         PROVE  ProjectsShown' = {} \/ job'[k].project = p
    <3>1. Saving(k) /\ job'[k] = job[k]
      BY <1>1, <2>9, <2>11
    <3>2. ProjectsShown = {} \/ job[k].project = state.activeProjectId
      BY <3>1 DEF ProjectsInv
    <3>3. QED
      BY <2>5, <2>6, <3>1, <3>2
  <2>12. QED
    BY <2>3, <2>7, <2>8, <2>9, <2>10, <2>11 DEF ProjectsInv
<1>8. CASE ListAnswer(j)
  <2>1. job[j].pc = "listing" /\ state'.activeProjectId = state.activeProjectId
    BY <1>8 DEF ListAnswer
  <2>2. CASE job[j].generate
    <3>1. job' = [job EXCEPT ![j] = Waits("generating", job[j].project)]
      BY <1>8, <2>2 DEF ListAnswer
    <3>2. job'[j].pc = "generating" /\ job'[j].project = job[j].project
      BY <3>1
    <3>3. BringsLater(j) /\ ~Saving(j)
      BY <2>1, <2>2 DEF BringsLater, EvaluatesLater, GeneratingSave, Saving
    <3>4. job[j].project = state.activeProjectId
      BY <3>3 DEF ProjectsInv, ProjectsOf
    <3>5. /\ ~Saving(j)' /\ ~Deleting(j)'
          /\ ProjectsOf(j)' \subseteq {state.activeProjectId}
      BY <3>2, <3>4 DEF Saving, Deleting, ProjectsOf
    <3>6. QED
      BY <1>2, <2>1, <3>3, <3>5
  <2>3. CASE ~job[j].generate
    <3>1. job' = [job EXCEPT ![j] = Ended]
      BY <1>8, <2>3 DEF ListAnswer
    <3>2. job'[j].pc = "ended"
      BY <3>1
    <3>3. ~Saving(j)' /\ ~Deleting(j)' /\ ~BringsLater(j)'
      BY <3>2 DEF Saving, Deleting, BringsLater, EvaluatesLater, GeneratingSave,
                  ReportLater
    <3>4. Plain \/ Clears
      BY <1>8, AnswerPlain
    <3>5. QED
      BY <1>1, <2>1, <3>3, <3>4, PlainProjects
  <2>4. QED
    BY <2>2, <2>3
<1>9. CASE DeleteAnswer(j)
  <2>1. job[j].pc = "deleting" /\ Deleting(j)
    BY <1>9 DEF DeleteAnswer, Deleting
  <2>2. \A i \in Job : ~BringsLater(i)
    BY <2>1 DEF ProjectsInv
  <2>3. job'[j].pc = "listing" /\ job'[j].generate = FALSE
    BY <1>9 DEF DeleteAnswer
  <2>4. ~Saving(j)' /\ ~Deleting(j)' /\ ~BringsLater(j)'
    BY <2>3 DEF Saving, Deleting, BringsLater, EvaluatesLater, GeneratingSave,
                ReportLater
  <2>5. state'.activeProjectId = state.activeProjectId \/ Clears
    BY <1>9 DEF DeleteAnswer, Opened, Clears
  <2>6. Plain \/ Clears
    BY <1>9, AnswerPlain
  <2>7. QED
    BY <1>1, <2>2, <2>4, <2>5, <2>6, PlainProjects
<1>10. CASE EditAnswer(j) \/ ConfirmAnswer(j) \/ ReviewAnswer(j) \/ RequestFails(j)
  <2>1. state'.activeProjectId = state.activeProjectId
    BY <1>10 DEF EditAnswer, ConfirmAnswer, ReviewAnswer, RequestFails, EndsQuietly
  <2>2. \/ job'[j].pc = "ended"
        \/ job'[j].pc = "listing" /\ job'[j].generate = FALSE
    <3>1. CASE ReviewAnswer(j)
      BY <3>1 DEF ReviewAnswer
    <3>2. CASE EditAnswer(j) \/ ConfirmAnswer(j) \/ RequestFails(j)
      BY <3>2 DEF EditAnswer, ConfirmAnswer, RequestFails, EndsQuietly
    <3>3. QED
      BY <1>10, <3>1, <3>2
  <2>3. ~Saving(j)' /\ ~Deleting(j)' /\ ~BringsLater(j)'
    BY <2>2 DEF Saving, Deleting, BringsLater, EvaluatesLater, GeneratingSave,
                ReportLater
  <2>4. Plain \/ Clears
    BY <1>10, AnswerPlain
  <2>5. QED
    BY <1>1, <2>1, <2>3, <2>4, PlainProjects
<1>11. QED
  BY <1>3, <1>4, <1>5, <1>6, <1>7, <1>8, <1>9, <1>10 DEF AnswerNext

\* Whoever lets the clicks of ProjectsWaited wait sees the active project only,
\* though evaluations, reports and reviews of it, edits and confirmations
\* overlap (selectProject, saveProject, deleteProject, generateAndEvaluate).
THEOREM WaitedScreenFits == Spec /\ [][ProjectsWaited]_vars => []ScreenFits
<1>1. Init => ProjectsInv
  BY DEF Init, ProjectsInv, ScreenFits, ProjectsShown, RoutesShown, Pins, Unused,
         BringsLater, EvaluatesLater, GeneratingSave, ReportLater, Saving, Deleting
<1>2. ASSUME ScreenInv, ProjectsInv, [Next]_vars, [ProjectsWaited]_vars
      PROVE  ProjectsInv'
  <2>1. TypeOK /\ RoutesFitKeys
    BY <1>2 DEF ScreenInv, ConsoleInv
  <2>2. CASE UNCHANGED vars
    <3>1. /\ ScreenFits' = ScreenFits /\ ProjectsShown' = ProjectsShown
          /\ state' = state /\ job' = job
      BY <2>2 DEF vars, ScreenFits, ProjectsShown, RoutesShown, Pins
    <3>2. QED
      BY <1>2, <3>1, SameTask DEF ProjectsInv
  <2>3. CASE Next /\ ~UNCHANGED vars
    BY <1>2, <2>1, <2>3, ClickProjects, AnswerProjects DEF Next
  <2>4. QED
    BY <1>2, <2>2, <2>3
<1>3. ProjectsInv => ScreenFits
  BY DEF ProjectsInv
<1>4. QED
  BY <1>1, <1>2, <1>3, SpecScreenInv, PTL DEF Spec
=============================================================================
