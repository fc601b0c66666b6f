----------------------------- MODULE RouteConsole -----------------------------
(***************************************************************************)
(* The browser console: one screen state, written by every click and by    *)
(* the answer to every request, in whatever order the answers come.        *)
(*                                                                         *)
(* JavaScript runs a handler without interruption from a click or an       *)
(* answer up to its next await, so each such stretch is one action.  A job *)
(* is what a click set going: at most one request of it is under way.  No  *)
(* button is disabled meanwhile.  The server may refuse anything, and what *)
(* it does otherwise is the matter of ReviewWorkflow.                      *)
(*                                                                         *)
(* A candidate is named by the job that asked for it, its project and its  *)
(* place in the answer.  Texts, levels, the map and the selected candidate *)
(* are left out.                                                           *)
(***************************************************************************)
EXTENDS Naturals, FiniteSets

CONSTANTS
  Project,      \* ids the server gives to projects
  Listed,       \* the projects there are when the console is opened
  NoProject,    \* activeProjectId or editingProjectId is null
  Job,          \* what clicks set going; bounds their number
  MaxInFlight,  \* bound: jobs that wait at a time
  BatchSize,    \* candidates in an answer of the server
  Null          \* apiRoutes or apiReport is null

ASSUME ProjectAssumption == Listed \subseteq Project /\ NoProject \notin Project
ASSUME BatchAssumption == BatchSize \in Nat \ {0}
ASSUME BoundAssumption == MaxInFlight \in Nat

Candidate == [batch : Job, project : Project, place : 1..BatchSize]

ASSUME NullAssumption == \A batch \in SUBSET Candidate : batch # Null

CodeFormat == {"markdown", "csv"}         \* shown on the screen
Format     == CodeFormat \cup {"pdf"}     \* "xlsx" is handled like "pdf"

VARIABLES
  state,        \* this.state, the fields that handlers act on
  generatedFor, \* this._generatedFor
  known,        \* the projects there are
  job,          \* what each job waits for
  patient       \* history: no click has come while a request was under way

vars == <<state, generatedFor, known, job, patient>>

\* The handler and the request a job waits for.
Unused == [pc |-> "unused"]
Ended  == [pc |-> "ended"]
Waits(pc, project) == [pc |-> pc, project |-> project]

Task ==
  {Unused, Ended}
  \cup [pc : {"generating", "opening", "deleting", "posting", "confirming"},
        project : Project]
  \cup [pc : {"evaluating"}, project : Project, todo : (SUBSET Candidate) \ {{}}]
  \cup [pc : {"reporting"}, project : Project, format : CodeFormat]
  \cup [pc : {"downloading"}, project : Project, format : Format]
  \cup [pc : {"saving"}, project : Project \cup {NoProject},
        form : Project \cup {NoProject}, generate : BOOLEAN]
  \cup [pc : {"listing"}, project : Project, generate : BOOLEAN]
  \cup [pc : {"listing"}, project : {NoProject}, generate : {FALSE}]

InFlight == {j \in Job : job[j] \notin {Unused, Ended}}

ScreenState ==
  [activeProjectId  : Project \cup {NoProject},
   editingProjectId : Project \cup {NoProject},
   projectForm      : Project \cup {NoProject}, \* whose data the form was filled with
   apiRoutes        : {Null} \cup SUBSET Candidate,
   apiRouteKeyMap   : SUBSET Candidate,         \* the batch that has letters
   apiRisksByRoute  : SUBSET Candidate,         \* candidates with evaluated risks
   apiReport        : {Null} \cup [project : Project, format : CodeFormat],
   reportFormat     : Format,
   riskConfirming   : BOOLEAN,
   apiLoading       : BOOLEAN]

TypeOK ==
  /\ state \in ScreenState
  /\ generatedFor \in Project \cup {NoProject}
  /\ known \in SUBSET Project
  /\ job \in [Job -> Task]
  /\ patient \in BOOLEAN

Init ==
  /\ state = [activeProjectId  |-> NoProject,
              editingProjectId |-> NoProject,
              projectForm      |-> NoProject,
              apiRoutes        |-> Null,
              apiRouteKeyMap   |-> {},
              apiRisksByRoute  |-> {},
              apiReport        |-> Null,
              reportFormat     |-> "markdown",
              riskConfirming   |-> FALSE,
              apiLoading       |-> FALSE]
  /\ generatedFor = NoProject
  /\ known = Listed
  /\ job = [j \in Job |-> Unused]
  /\ patient = TRUE

-----------------------------------------------------------------------------
(* What the screen shows.                                                  *)

\* routesData: without candidates of its own the screen shows built-in ones.
RoutesShown == IF state.apiRoutes = Null THEN {} ELSE state.apiRoutes

\* renderVals reads a field of the first candidate, and fails without one.
Renders == state.apiRoutes # {}

\* hazardsByRoute is keyed by letter and read by candidate id: risks of the
\* server come to the screen only under the built-in candidates A, B, C, ...
Pins ==
  IF RoutesShown # {} THEN {} ELSE state.apiRisksByRoute \cap state.apiRouteKeyMap

ProjectsShown ==
  {r.project : r \in RoutesShown \cup Pins}
  \cup (IF state.apiReport = Null THEN {} ELSE {state.apiReport.project})

ScreenFits == ProjectsShown \subseteq {state.activeProjectId}

-----------------------------------------------------------------------------
(* Clicks.                                                                 *)

Click == patient' = (patient /\ InFlight = {})

Start(j, task) ==
  /\ job[j] = Unused
  /\ Cardinality(InFlight) < MaxInFlight
  /\ job' = [job EXCEPT ![j] = task]
  /\ Click

\* Fault: the report of the project before stays.
OpenedFault(p) ==
  [state EXCEPT !.activeProjectId = p, !.apiRoutes = Null,
                !.apiRisksByRoute = {}]

Opened(p) ==
  [state EXCEPT !.activeProjectId = p, !.apiRoutes = Null,
                !.apiRisksByRoute = {}, !.apiReport = Null]

\* A row of the dashboard: a project other than the last one opened.
SelectProject(j, p) ==
  /\ p \in known
  /\ generatedFor # p
  /\ generatedFor' = p
  /\ Start(j, Waits("generating", p))
  /\ state' = [Opened(p) EXCEPT !.apiLoading = TRUE]
  /\ UNCHANGED known

\* The project opened last: its candidates are dropped and not asked for.
ReopenProject(p) ==
  /\ generatedFor = p
  /\ state' = Opened(p)
  /\ Click
  /\ UNCHANGED <<generatedFor, known, job>>

RegenRoutes(j) ==
  /\ state.activeProjectId # NoProject
  /\ Start(j, Waits("generating", state.activeProjectId))
  /\ state' = [state EXCEPT !.apiLoading = TRUE, !.apiRoutes = Null]
  /\ UNCHANGED <<generatedFor, known>>

\* saveProject and saveAndGenerate: a PATCH while editing, else a new project.
SaveProject(j, generate) ==
  /\ Start(j, [pc |-> "saving", project |-> state.editingProjectId,
               form |-> state.projectForm, generate |-> generate])
  /\ state' = [state EXCEPT !.apiLoading = TRUE]
  /\ UNCHANGED <<generatedFor, known>>

\* The form does not validate; saveAndGenerate resets the indicator.
SaveInvalid(generate) ==
  /\ state' = [state EXCEPT !.apiLoading = @ /\ ~generate]
  /\ Click
  /\ UNCHANGED <<generatedFor, known, job>>

EditProject(j, p) ==
  /\ p \in known
  /\ Start(j, Waits("opening", p))
  /\ state' = [state EXCEPT !.apiLoading = TRUE]
  /\ UNCHANGED <<generatedFor, known>>

\* Fault: the form is emptied and the edit goes on.
CancelEditFault ==
  /\ state' = [state EXCEPT !.projectForm = NoProject]
  /\ Click
  /\ UNCHANGED <<generatedFor, known, job>>

CancelEdit ==
  /\ state' = [state EXCEPT !.editingProjectId = NoProject,
                            !.projectForm = NoProject]
  /\ Click
  /\ UNCHANGED <<generatedFor, known, job>>

DeleteProject(j, p) ==
  /\ p \in known
  /\ Start(j, Waits("deleting", p))
  /\ state' = [state EXCEPT !.apiLoading = TRUE]
  /\ UNCHANGED <<generatedFor, known>>

\* setReportFormatWithFetch: only what is shown on the screen is fetched.
ChooseFormat(f) ==
  /\ state.activeProjectId = NoProject \/ f \notin CodeFormat
  /\ state' = [state EXCEPT !.reportFormat = f]
  /\ Click
  /\ UNCHANGED <<generatedFor, known, job>>

\* Fault: the old report stays until the new one comes.
FetchReportFault(j, f) ==
  /\ state.activeProjectId # NoProject
  /\ f \in CodeFormat
  /\ Start(j, [pc |-> "reporting", project |-> state.activeProjectId,
               format |-> f])
  /\ state' = [state EXCEPT !.reportFormat = f, !.apiLoading = TRUE]
  /\ UNCHANGED <<generatedFor, known>>

FetchReport(j, f) ==
  /\ state.activeProjectId # NoProject
  /\ f \in CodeFormat
  /\ Start(j, [pc |-> "reporting", project |-> state.activeProjectId,
               format |-> f])
  /\ state' = [state EXCEPT !.reportFormat = f, !.apiLoading = TRUE,
                            !.apiReport = Null]
  /\ UNCHANGED <<generatedFor, known>>

DownloadReport(j) ==
  /\ state.activeProjectId # NoProject
  /\ Start(j, [pc |-> "downloading", project |-> state.activeProjectId,
               format |-> state.reportFormat])
  /\ state' = [state EXCEPT !.apiLoading = TRUE]
  /\ UNCHANGED <<generatedFor, known>>

\* Fault: no check that a confirmation is under way.
ConfirmRiskFault(j, r) ==
  /\ r \in Pins
  /\ Start(j, Waits("confirming", r.project))
  /\ state' = [state EXCEPT !.riskConfirming = TRUE]
  /\ UNCHANGED <<generatedFor, known>>

\* A status of a pin, or the button below its comment.
ConfirmRisk(j, r) ==
  /\ r \in Pins
  /\ ~state.riskConfirming
  /\ Start(j, Waits("confirming", r.project))
  /\ state' = [state EXCEPT !.riskConfirming = TRUE]
  /\ UNCHANGED <<generatedFor, known>>

\* submitProject and approveProject.
Review(j) ==
  /\ state.activeProjectId # NoProject
  /\ Start(j, Waits("posting", state.activeProjectId))
  /\ state' = [state EXCEPT !.apiLoading = TRUE]
  /\ UNCHANGED <<generatedFor, known>>

\* Search, filter and pager of the dashboard.
FetchProjects(j) ==
  /\ Start(j, [pc |-> "listing", project |-> NoProject, generate |-> FALSE])
  /\ state' = [state EXCEPT !.apiLoading = TRUE]
  /\ UNCHANGED <<generatedFor, known>>

-----------------------------------------------------------------------------
(* Answers.                                                                *)

Answer(j, pc) ==
  /\ job[j].pc = pc
  /\ UNCHANGED <<generatedFor, patient>>

Continue(j, task) == job' = [job EXCEPT ![j] = task]

\* Fault: the failure branch leaves the indicator on.
EndsQuietlyFault(j, pcs) ==
  /\ job[j].pc \in pcs
  /\ Continue(j, Ended)
  /\ UNCHANGED <<state, generatedFor, known, patient>>

\* A job whose last request failed, or had nothing to write.
EndsQuietly(j, pcs) ==
  /\ job[j].pc \in pcs
  /\ Continue(j, Ended)
  /\ state' = [state EXCEPT !.apiLoading = FALSE]
  /\ UNCHANGED <<generatedFor, known, patient>>

Evaluating(j, todo) ==
  [pc |-> "evaluating", project |-> job[j].project, todo |-> todo]

GenerateAnswer(j) ==
  LET batch == [batch : {j}, project : {job[j].project}, place : 1..BatchSize]
  IN  /\ Answer(j, "generating")
      /\ state' = [state EXCEPT !.apiRoutes = batch, !.apiRouteKeyMap = batch,
                                !.apiRisksByRoute = {}, !.apiLoading = TRUE]
      /\ Continue(j, Evaluating(j, batch))
      /\ UNCHANGED known

\* Fault: a failure is shown as an empty list.
GenerateFailsFault(j) ==
  /\ Answer(j, "generating")
  /\ state' = [state EXCEPT !.apiRoutes = {}, !.apiLoading = FALSE]
  /\ Continue(j, Ended)
  /\ UNCHANGED known

\* generateAndEvaluate goes on with the candidates there are, even those that
\* another job has put there while this one failed.
GenerateFails(j) ==
  /\ Answer(j, "generating")
  /\ IF RoutesShown = {}
       THEN /\ state' = [state EXCEPT !.apiLoading = FALSE]
            /\ Continue(j, Ended)
       ELSE /\ state' = [state EXCEPT !.apiLoading = TRUE]
            /\ Continue(j, Evaluating(j, RoutesShown))
  /\ UNCHANGED known

First(todo) == CHOOSE r \in todo : \A q \in todo : r.place <= q.place

\* On to the next candidate of the batch, if there is one.
NextEvaluation(j, rest) ==
  Continue(j, IF rest = {} THEN Ended ELSE Evaluating(j, rest))

\* An answer turns null into an empty list of candidates.
EvaluateAnswer(j) ==
  /\ Answer(j, "evaluating")
  /\ LET r    == First(job[j].todo)
         rest == job[j].todo \ {r}
     IN  /\ state' = [state EXCEPT !.apiRisksByRoute = @ \cup {r},
                                   !.apiRoutes = RoutesShown,
                                   !.apiLoading = (rest # {})]
         /\ NextEvaluation(j, rest)
  /\ UNCHANGED known

EvaluateFails(j) ==
  /\ Answer(j, "evaluating")
  /\ LET rest == job[j].todo \ {First(job[j].todo)}
     IN  /\ state' = [state EXCEPT !.apiLoading = (rest # {})]
         /\ NextEvaluation(j, rest)
  /\ UNCHANGED known

\* The project saved becomes the active one; what is shown stays.
SaveAnswer(j) ==
  /\ Answer(j, "saving")
  /\ \E p \in IF job[j].project = NoProject THEN Project \ known
              ELSE {job[j].project} :
       /\ known' = known \cup {p}
       /\ state' = [state EXCEPT !.activeProjectId = p, !.apiLoading = TRUE]
       /\ Continue(j, [pc |-> "listing", project |-> p,
                       generate |-> job[j].generate])

\* A list that does not come changes nothing here: generation goes on.
ListAnswer(j) ==
  /\ Answer(j, "listing")
  /\ IF job[j].generate
       THEN /\ state' = [state EXCEPT !.apiLoading = TRUE, !.apiRoutes = Null]
            /\ Continue(j, Waits("generating", job[j].project))
       ELSE /\ state' = [state EXCEPT !.apiLoading = FALSE]
            /\ Continue(j, Ended)
  /\ UNCHANGED known

\* The form is filled; the loading indicator stays on.
EditAnswer(j) ==
  /\ Answer(j, "opening")
  /\ state' = [state EXCEPT !.editingProjectId = job[j].project,
                            !.projectForm = job[j].project]
  /\ Continue(j, Ended)
  /\ UNCHANGED known

\* Fault: the screen keeps what it shows of the deleted project.
DeleteAnswerFault(j) ==
  /\ Answer(j, "deleting")
  /\ state' = [state EXCEPT !.apiLoading = TRUE,
                            !.activeProjectId = IF @ = job[j].project
                                                  THEN NoProject ELSE @]
  /\ Continue(j, [pc |-> "listing", project |-> NoProject, generate |-> FALSE])
  /\ UNCHANGED known

DeleteAnswer(j) ==
  /\ Answer(j, "deleting")
  /\ state' = IF state.activeProjectId = job[j].project
                THEN [Opened(NoProject) EXCEPT !.apiLoading = TRUE]
                ELSE [state EXCEPT !.apiLoading = TRUE]
  /\ Continue(j, [pc |-> "listing", project |-> NoProject, generate |-> FALSE])
  /\ UNCHANGED known

ReportOf(j) == [project |-> job[j].project, format |-> job[j].format]

ReportAnswer(j) ==
  /\ Answer(j, "reporting")
  /\ state' = [state EXCEPT !.apiReport = ReportOf(j), !.apiLoading = FALSE]
  /\ Continue(j, Ended)
  /\ UNCHANGED known

\* A file; what can be shown is shown as well.
DownloadAnswer(j) ==
  /\ Answer(j, "downloading")
  /\ state' = [state EXCEPT !.apiReport = IF job[j].format \in CodeFormat
                                            THEN ReportOf(j) ELSE @,
                            !.apiLoading = FALSE]
  /\ Continue(j, Ended)
  /\ UNCHANGED known

ConfirmAnswer(j) ==
  /\ Answer(j, "confirming")
  /\ state' = [state EXCEPT !.riskConfirming = FALSE]
  /\ Continue(j, Ended)
  /\ UNCHANGED known

ReviewAnswer(j) ==
  /\ Answer(j, "posting")
  /\ state' = [state EXCEPT !.apiLoading = TRUE]
  /\ Continue(j, [pc |-> "listing", project |-> NoProject, generate |-> FALSE])
  /\ UNCHANGED known

RequestFails(j) ==
  EndsQuietly(j, {"saving", "opening", "deleting", "reporting", "downloading",
                  "posting"})

-----------------------------------------------------------------------------
ClickNext ==
  \/ \E p \in Project : ReopenProject(p)
  \/ \E generate \in BOOLEAN : SaveInvalid(generate)
  \/ CancelEdit
  \/ \E f \in Format : ChooseFormat(f)
  \/ \E j \in Job :
       \/ \E p \in Project :
            SelectProject(j, p) \/ EditProject(j, p) \/ DeleteProject(j, p)
       \/ \E generate \in BOOLEAN : SaveProject(j, generate)
       \/ \E f \in Format : FetchReport(j, f)
       \/ \E r \in Pins : ConfirmRisk(j, r)
       \/ RegenRoutes(j) \/ DownloadReport(j) \/ Review(j) \/ FetchProjects(j)

AnswerNext(j) ==
  \/ GenerateAnswer(j) \/ GenerateFails(j)
  \/ EvaluateAnswer(j) \/ EvaluateFails(j)
  \/ SaveAnswer(j) \/ ListAnswer(j) \/ EditAnswer(j) \/ DeleteAnswer(j)
  \/ ReportAnswer(j) \/ DownloadAnswer(j)
  \/ ConfirmAnswer(j) \/ ReviewAnswer(j) \/ RequestFails(j)

Next == ClickNext \/ \E j \in Job : AnswerNext(j)

Spec == Init /\ [][Next]_vars

-----------------------------------------------------------------------------
(* Properties.                                                             *)

\* Every save writes to a project the data that was loaded from it, or makes a
\* new project of data that was not loaded, whatever the order in which edits
\* are opened, cancelled and answered (saveProject, editProject, cancelEdit).
SavesFitTarget ==
  \A j \in Job : job[j].pc = "saving" => job[j].form = job[j].project

\* One confirmation is under way at a time, and the lock is taken exactly as
\* long as it is (confirmRisk, riskConfirming).
ConfirmLockHeld ==
  Cardinality({j \in Job : job[j].pc = "confirming"})
    = IF state.riskConfirming THEN 1 ELSE 0

\* For a user who waits for each answer the screen can always be drawn: no
\* evaluation finds its candidates gone (generateAndEvaluate, evaluateRoute).
PatientScreenRenders == patient => Renders

ReportFits ==
  state.apiReport # Null /\ state.reportFormat \in CodeFormat
    => state.apiReport.format = state.reportFormat

\* For a user who waits, a report on the screen is in the format chosen last,
\* which also names the file (fetchReport, downloadReport).
PatientReportFits == patient => ReportFits

\* The projects whose data the answer to a job brings.
ProjectsOf(j) ==
  {job[j].project}
  \cup (IF job[j].pc = "evaluating" THEN {r.project : r \in job[j].todo} ELSE {})

\* A screen that shows the active project only is mixed with another one by
\* answers alone: one that comes after the user has moved on, or a save that
\* makes its project the active one.  No click does it, and no deletion
\* (selectProject, regenRoutes, deleteProject).
OnlyAnswersMixProjects ==
  [][ScreenFits => \/ ScreenFits'
                   \/ \E j \in InFlight :
                        /\ job'[j] # job[j]
                        /\ \/ job[j].pc = "saving"
                           \/ ~(ProjectsOf(j) \subseteq {state.activeProjectId})]_vars

\* For a user who waits, nothing but a save mixes projects on the screen: routes,
\* pins and report are dropped or replaced before another project is active.
PatientScreenFits ==
  [][patient' /\ ScreenFits =>
       ScreenFits' \/ \E j \in InFlight : job[j].pc = "saving" /\ job'[j] # job[j]]_vars

\* The last job to end turns the loading indicator off.  Filling the form of an
\* edit does not, and a confirmation has not turned it on.
LoadingEnds ==
  [][\A j \in InFlight :
       job'[j] = Ended /\ InFlight = {j} /\ job[j].pc \notin {"opening", "confirming"}
         => ~state'.apiLoading]_vars

-----------------------------------------------------------------------------
(* The inductive invariants behind the properties above.                   *)

\* The form and the mark of the edit are written together.
FormFits == state.projectForm = state.editingProjectId

Confirming(j) == job[j].pc = "confirming"

LockFits ==
  /\ \A i, j \in Job : Confirming(i) /\ Confirming(j) => i = j
  /\ state.riskConfirming <=> \E j \in Job : Confirming(j)

\* What the screen holds is what the answer to a job counts on.
AnswerFits(j) ==
  /\ job[j].pc = "evaluating" => state.apiRoutes # Null
  /\ job[j].pc \in {"reporting", "downloading"} =>
       /\ state.activeProjectId # NoProject
       /\ job[j].format = state.reportFormat

\* One job at most, and nobody has taken away what its answer is to meet.
Calm ==
  /\ \A i, j \in InFlight : i = j
  /\ \A j \in InFlight : AnswerFits(j)
  /\ state.apiReport # Null => state.activeProjectId # NoProject
  /\ Renders
  /\ ReportFits

PatientInv == patient => Calm

\* What every step of the console keeps (RouteConsoleProofs).
ConsoleInv == TypeOK /\ FormFits /\ SavesFitTarget /\ LockFits /\ PatientInv

\* What the screen would show without its candidates is of their batch.
RoutesFitKeys == state.apiRoutes \in {Null, {}, state.apiRouteKeyMap}

\* The answer a job waits for is about the active project.
AnswerIsActive(j) ==
  /\ job[j].pc \in {"generating", "evaluating", "reporting", "downloading"}
       => ProjectsOf(j) \subseteq {state.activeProjectId}
  /\ job[j].pc = "generating" => state.apiRoutes = Null
  /\ job[j].pc = "listing" /\ job[j].generate
       => job[j].project = state.activeProjectId

\* What keeps the projects on the screen apart.
ScreenInv ==
  ConsoleInv /\ RoutesFitKeys /\ (patient => \A j \in InFlight : AnswerIsActive(j))
=============================================================================
