# Construction Logistics Route Planner: verification project

TLA+ models, model-checking runs and machine-checked proofs for the route
planner: a FastAPI service over an SQL database, used from a browser console,
that generates route candidates for heavy deliveries, evaluates their risks and
takes a project through review.

## 1. The system

### Parts, state, operations

| Part | State | Operations | Source |
|---|---|---|---|
| Review workflow | `projects.status`, `route_candidates.generation`, `evaluation_status`, `reports`, `audit_logs` | create, PATCH, archive, generate, evaluate, submit, approve, request-changes, report | `app/main.py:215-483`, `app/repository.py` |
| Risk rows and confirmations | `route_risks`, `risk_comments` | evaluate, report, confirm | `repository.py:650-806` |
| Risk engine | none: reads vehicle, window and features, returns risks, score, level | `sample_overlay_features`, `evaluate_route`, `_route_level` | `risk_engine.py` |
| Feature and routing adapters | the Overpass cache (6 h, 256 entries) | `fetch_features`, `fetch_osrm_routes` | `adapters.py`, `routing.py` |
| Authentication and roles | the signing-key cache | `get_current_user`, `require_role` | `auth.py` |
| Knowledge search | the hits of each client | `search_knowledge`, `_knowledge_rate_allowed` | `knowledge.py`, `main.py:88-106` |
| Users and project ownership | `users`, `projects.owner_user_id` | `ensure_user`, `create_project` | `repository.py:223-311` |
| Lists, counts, audit listing | none | list and count queries | `repository.py` |
| Report rendering | none | Markdown, CSV, PDF, Excel | `reporting.py` |
| Browser console | one screen state, written by every fetch | select, save, generate, evaluate, confirm, report, submit | `static/component.js`, `static/dc-runtime.js` |
| Demonstration data | the rows with a `seed-` id | clear and insert again | `scripts/seed_demo.py` |
| Schema, shell scripts, edge worker | the migrations | upgrade, backup, restore, proxy | `alembic/`, `scripts/`, `cloudflare/` |

### How they interact

An API call is one coroutine with one database session. All calls share an
event loop and a database and nothing else: no lock, no version column, no
`SELECT ... FOR UPDATE`, no transaction that spans a check and the write that
relies on it. `get_session` opens a session per request; `repository.py` commits
in each function, so one handler makes several commits (generate: the status,
the candidates, the audit row; evaluate: the risk rows, the status, the audit
row). Each `await` of a statement or a commit lets other calls run. The session
emits an UPDATE for a column only when its new value differs from the loaded
one, which makes "write the status I want" mean "unless it was already so when
I looked".

Features have no table of their own. `save_routes` stores each as a risk row
with the rule `""`, reading a candidate turns every risk row that has a source
back into a feature, and an evaluation replaces the rows by the risks of those
features. Whatever an evaluation drops or doubles is dropped or doubled for all
later evaluations and reports.

Three parts of the server keep something in the memory of the process: the
Overpass cache, the signing keys and the hits of the knowledge search. A restart
empties all three. The Overpass cache is shared by generate calls that wait for
Overpass at the same time; the other two are used without letting another call
run, since `auth.py` fetches keys with a blocking request.

`seed_demo.py` is a second process on the same database. It calls
`create_project` and commits dozens of times; the API serves other people
between any two of its commits.

The browser console keeps everything in one object, `this.state`. A click runs a
handler up to its first `await`; each answer runs it on to the next one. No
button is disabled while a request is under way, no request is ever cancelled,
and an answer is written into the state as it is then. The handlers of two clicks
share `apiRoutes`, `apiRisksByRoute`, `apiReport`, `activeProjectId`, the form and
the loading indicator.

### What is hard here

* **Check, await, write.** Every endpoint checks the project on one read and
  commits several awaits later.
* **Several commits per call.** A stop or a failing statement between two
  commits leaves half a call behind.
* **Read in one statement, use in another.** `max(generation)` is read before
  the insert; risk rows are read before their comments.
* **Stale objects.** An update is left out when the loaded value is the wanted
  one; the rows an evaluation deletes are those it has read.
* **Feedback.** Evaluations feed on the output of the last one, so a property
  has to survive a long sequence of legal calls.
* **Memory of what was.** A failure that is cached like an answer, a key set that
  is older than its stamp, a client forgotten while its window runs.
* **Two processes, many commits.** The demonstration script may die after any
  commit and be started again, and its cleaning looks for the final ids only.
* **Late answers.** The console writes an answer to the screen whatever has been
  selected, deleted or started since the request.
* **Fallbacks.** An external service that answers nothing, or fails, silently
  changes what an evaluation can find.

`PROJECT.json` lists each hazard at its line with the properties that cover it.

## 2. Modules

| Module | Models |
|---|---|
| `ReviewLifecycle` | the abstract life cycle of a project: what the workflow promises whatever calls overlap |
| `ReviewWorkflow` | the handlers of `main.py` that touch status, candidates, evaluation marks, reports and the audit log, one action per statement or commit |
| `ReviewWorkflowProofs` | its invariant, its safety theorems, and that it implements `ReviewLifecycle` |
| `RiskLedger` | the risk rows, comments and confirmations of one candidate under overlapping evaluate, report and confirm calls |
| `RiskLedgerProofs` | its invariant and safety theorems |
| `RouteEvaluation` | the risk engine: features, rules, score, level, the source filter, and the rows that become features again |
| `RouteEvaluationProofs` | the sums it counts with, its invariant, and what evaluations do to features, level and rows |
| `RouteConsole` | the browser console: clicks, and answers that come in any order, on one screen state |
| `RouteConsoleProofs` | its invariant and safety theorems, and what holds of users who wait for some answers only |
| `FeatureCache`, `FeatureCacheProofs` | the Overpass cache under calls that wait, outages, expiry, eviction and restarts |
| `SigningKeys`, `SigningKeysProofs` | the signing-key cache while the provider changes its keys |
| `KnowledgeGate` | the rate limit of the knowledge search with more clients than it remembers |
| `KnowledgeSearch` | whom the answer of the knowledge search tells the planner to ask |
| `KnowledgeGateProofs` | theorems about both |
| `DemoSeed`, `DemoSeedProofs` | users and projects while people create projects and the demonstration script replaces its own |
| `MCReviewWorkflow`, `MCRiskLedger`, `MCRouteEvaluation`, `MCRouteConsole`, `MCServerParts` | the instances TLC checks; `MCServerParts` holds the last five models |

### ReviewWorkflow

`Request` is the set of calls; each is served once and is created by its arrival
(`Begin...`). A handler is a path through `pc`:

| Call | Steps |
|---|---|
| create | insert as draft, audit |
| PATCH | check the status, `SaveEdit`, audit |
| generate | `SelectStatus`, `CommitStatus`, `ReadMaxGeneration`, `InsertRoutes`, audit |
| evaluate | `SaveEvaluation`, `SelectStatus`, `CommitStatus`, audit |
| submit, approve, request-changes, archive | check, `SelectStatus`, `CommitStatus`, audit |
| report | `EvaluatePending` once per pending candidate, `SaveReport` |

`SelectStatus`/`CommitStatus` are `update_project_status`
(`repository.py:576-583`) and `archive_project`: the commit writes nothing when
the loaded status was already the wanted one. `generation` maps a candidate
(call, route type) to its number, 0 before it exists; `Listed` is what lists and
reports see. `Lose` ends a call between two steps: the process stopped or a
statement raised, and its session rolled back what was not committed.

`met` is history: the calls that have been under way together with another one.
A call outside it was served alone, whatever came before and after, and for such
a call the documents' promises can be stated although calls may overlap
elsewhere in the same behaviour (`LoneEditKeptOut`, `LoneBatchIsListed`,
`OneBatchPerGeneration`).

A check and the read it is made on are one step, because nothing is awaited
between the last read of a check and its use. Where a handler reads in several
statements before the check (submit), the model puts them at one moment.

### RiskLedger

`conf` maps the rows there are to their `confirmation_status`; a row is named by
the call that inserted it, its feature, its rule and a copy number, so its id is
fresh as in the code. `BeginEvaluate` is the read of the candidate and
`evaluate_route` in memory; `LoadRisks` and `LoadComments` are the statements
`selectinload` issues in `update_route`; `Replace` is its commit, with the carry
map of `_confirmation_carry_map`. `enforceFK`, chosen at the start from
`Databases`, tells PostgreSQL (a comment `update_route` did not load makes the
commit fail, `ReplaceFails`) from the default SQLite (it is left behind).
`stored`, chosen at the start too, says how often `save_routes` stored each feature:
`_fetch_osm_project_features` (`main.py:623`) tells objects apart by an id that
`adapters.py:113` makes anew for each answer, so an object near both ends of the route
is stored twice with one type and one pair of coordinates, and each of its rows is
a feature to every evaluation. `RuleTables` gives the rules a feature meets
for each state of vehicle and delivery window; `Inclusions` the features
`include_sources` lets through.

`unseen` is a history variable, which no guard reads: for each call, the calls that
have committed (`Record`) between the read its own commit relies on (`LoadRisks`,
`SelectRisk`) and that commit. The properties use it to say which commits a call must
have missed for something to go wrong, so that they speak of calls that overlap:

* `OnlyRacesCollide`: an evaluation fails only behind a confirmation it has not seen
  and a confirmation only behind an evaluation; on SQLite, a comment is without its row
  only when such a pair has missed each other. A comment `update_route` did not load for
  any other reason would make a lone evaluation fail on PostgreSQL.
* `ConfirmTakesEffect`: a confirmation that is answered with success has set its status,
  unless a call that committed after its SELECT has given the row another verdict, or
  has replaced it. (The UPDATE is left out when the SELECT showed the wanted status.)
* `NoRiskMultiplied`: as long as no evaluation has missed the commit of another, a rule
  is reported for a feature no more often than the feature was stored. An object stored
  twice is reported twice: that is not what the property is about.

### RouteEvaluation

Here the calls are served one after the other, and the engine is concrete: the
eight feature types, the twelve rules with levels and scores, the overlay that
depends on vehicle and route type, OSRM candidates that come without features,
Overpass answers that replace them, and the sample overlay that stands in for a
failed Overpass request. The vehicle is reduced to the thresholds the code
tests (height unknown, below or from 3.8 m; weight unknown, below or from 44 t),
the delivery window to peak or not, a feature to its type and data source.
Coordinates are left out, so two features of a type and source are one with two
copies. `Rows` that become features are `StoredFeatures` and `Copies`. Text,
geometry and distances are left out: no other step reads them.

### RouteConsole

One action is one stretch of a handler between two awaits, which JavaScript runs
without interruption. `job` holds the handlers under way: the request each waits
for, and what its closure keeps (the project, the format, the candidates still
to evaluate, the form as it was sent). Everything else a handler reads after an
await it reads from `state`, in the code and here: `EvaluateAnswer` maps over
the candidates there are by now, `GenerateFails` goes on with them, and
`DeleteAnswer` compares the project that is active by now.

A set of candidates stands for an array; a candidate is named by the job that
asked for it, so its id is fresh; `apiReport` is the project and the format it
was made for; `projectForm` is the project whose data fill it. `apiRoutes` is
`Null`, empty, or a set, since the code tells the three apart: `null` shows the
built-in candidates, and with an empty array `renderVals` reads a field of
`undefined` and throws, so that nothing is drawn any more (`Renders`). `Pins`
are the evaluated risks of the server that the user can see and confirm:
`hazardsByRoute` files them under a letter and is read by candidate id, so they
appear only while the built-in candidates A to D are shown.

The server is free to answer or to refuse. `known` is what the server holds:
deleted projects stay in it, because a list on the screen may be old. The
built-in project rows shown while no list has come are left out.

### FeatureCache

`order` and `entry` are the keys and values of `_overpass_cache`. A call asks for
the start and then for the destination (`main.py:623-636`); it runs on without a
wait while it finds fresh entries, so `Resume` takes all of them in one step, and
`Answer` stores an answer, or the samples that stand in for a failure, evicts,
and looks up the other end in the same step. A request may fail when Overpass
was out at some moment between its sending and its answer (`outage`). A key
stands for coordinates rounded to three places and a radius in hundreds of
metres. Time is the age of each entry; a stale entry is one with `NoEntry`,
because both are overwritten in place and read by nobody; a stale key keeps its
place in the dictionary.

### SigningKeys

One validation at a time, as the blocking fetch makes it. `answers` is what the
provider has published since the request was sent, any of which it may answer;
`waited` is the time since `now` was read, which becomes the age of a fetched
set (`auth.py:81, 91`), while a refreshed set starts at age 0 (`auth.py:106`).
`unpublished` and `steady` are history for the two properties.

### KnowledgeGate and KnowledgeSearch

A request is decided without an await, so `Ask` is one step: enter the client,
evict the one entered first, drop the hits outside the window, refuse or
record. `crowd` is history. `KnowledgeSearch` keeps, of the texts, which targets
each topic names, as a table in the order of the answer; keywords may match in any
combination. The merge that drops what was named before and the cut to six are sets
of places in that table: the first place of each target, and the places with fewer
than six before them. The run checks them over all 1024 inputs.

### DemoSeed

The script goes through `phase`, one action per commit, with `nth` the project it
is at; a call of `POST /api/projects` goes through `callStep`: look for the user,
insert the user, insert the project, write the record. `kids` counts the rows
stored under each project id, so that a part left under a former id, or stored
twice, is seen. `fk` is chosen once: whether the database checks foreign keys
(PostgreSQL) or not (the default SQLite). `Refused` and `CallRefused` are the
statements a database refuses; `SeedDies` and `ServerDies` stop either process
between two commits. Assumed: one run of the script at a time, and nobody works on
the demonstration projects while it runs. A generated id is taken by `CHOOSE`,
since no step tells one from another. Candidates of a demonstration project are
stored with bare feature rows at level `caution`, so the confirmation step of
`seed_demo.py`, which looks for risks that need confirming, never finds one and
is left out; `README.md:260` promises risks with a confirmation status and
comments.

### Faults

Operators named `...Fault` are the forms a plausible mistake would give the
operator they are named for (a dropped check, a number off by one, a missing
reset). No specification uses them; `PROJECT.json` pairs each property with one
that breaks it, which shows that the property can fail on this model.

## 3. Runs

| Run | Question | Result |
|---|---|---|
| `workflow` | What do a status and a generation vouch for, when calls overlap and one is cut short; what does a call that overlaps none keep; is every step one of the life cycle? | holds |
| `ledger` | Can overlapping calls make up a confirmation, lose a feature or leave a bare row; and when one fails, leaves a comment behind, multiplies risks or goes unheeded, has it always missed the commit of another? | no; yes |
| `ledger_serial` | Do confirmations survive evaluations, edits of the window and source filters, one call at a time? | yes |
| `evaluation` | Is the stored level the worst of the stored rows, are missing data visible, do features stay? | yes |
| `console` | Which project is saved, confirmed and shown, when clicks and answers interleave freely, and what can a user rely on who waits for each answer? | holds |
| `server_parts` | Are points asked for once and outages outlived; is no current key rejected and no withdrawn one trusted too long; can the limit be got round; what survives a script that dies and runs again? | holds |
| `edit_race` | Is a reviewed or archived project never edited (`README.md:353`)? | violated |
| `approve_unsubmitted` | Has an approved project ever been evaluated (`main.py:411`)? | violated |
| `carry_race` | Does a confirmation survive an evaluation it overlaps (`repository.py:664`)? | violated |
| `heavy_bridge` | Is a rule reported for a feature no more often than the feature was stored (`repository.py:663`)? | violated |
| `no_data_candidate` | Is a candidate without road data never a plain candidate (design document, line 1275)? | violated |
| `seed_postgres` | Does the demonstration script run on a database that checks foreign keys (`seed_demo.py:303`)? | violated |

### Bounds

* `workflow`: five calls, three at a time, one lost, one route type. Five is
  what the longest scenario of interest takes (create, generate, evaluate, and
  two that race); three at a time lets a pair of racing calls meet a third that
  changes what both have read. One route type stands for a batch that is whole
  or missing; the proofs cover any number, and partial batches. Calls are
  interchangeable, hence the symmetry: no property of the run is a liveness
  property, and fairness is not used.
* `ledger`: four calls, three at a time: two evaluations that overlap, with two
  confirmations or a report between their steps; both kinds of database, the feature
  stored once or twice. Failed evaluations, failed confirmations, comments left behind
  in either order, verdicts that go unheeded and doubled rows all occur within the bounds. One feature, since rows of
  different features never meet but in the same commit; the proofs cover any
  number.
* `ledger_serial`: two features of different sources, each stored once or twice, both
  windows, every source filter. Calls are interchangeable here too.
* `MaxCopies` (rows of one feature an evaluation starts from, and rows of one feature
  that are stored) is 2: a first doubling is seen and a second is cut off. It is a
  guard on evaluation and hides nothing a smaller number of copies would show; two is
  what the two requests of a route (one for each end) make of one object.
* `evaluation`: all vehicles, windows and route types; three Overpass answers
  and the failure at each end; filters for all, one, two and no source that
  occurs.
* `console`: four jobs, two at a time, two projects (one of them still to be
  created), two candidates in an answer. Four jobs are a generation, something
  that takes its candidates away, and two that build on the outcome; two at a
  time is what every overlap of handlers needs, and two candidates let an
  overlap fall between two evaluations. Three jobs without a bound on how many
  wait, and four with single candidates, pass as well.
* `server_parts`: the five models share no state, so a behaviour is one of one
  part (`part`) and the others stand still; the run is the union of five. Two
  points, two calls, one cache entry: the eviction hits the other end of the same
  route. Two ticks of life for entries and keys, three keys, a request of one
  tick. Three clients with room for two and two requests each. Two create calls
  of one person, two demonstration projects of two users, five ids and two runs
  that die: the draft is the plan's first project, another status the second.
* `CHECK_DEADLOCK FALSE` in the runs of `ReviewWorkflow` and `RiskLedger`: each
  call is served once, so a run ends when all have been. In `evaluation` an
  edit is always possible, in `console` a click without a request, and deadlock
  is checked, as it is in `server_parts`: the script can always be started again,
and the other parts never stop. `seed_postgres` looks for one state only.

### Fairness

`FairSpec` of `ReviewWorkflow` and `RiskLedger` gives weak fairness to the steps of
each call under way: the event loop runs every ready coroutine, and a statement a
call awaits returns or raises, since the code takes no lock that one call could
hold for another. Nothing is assumed of arrivals. The runs `edit_race` and
`carry_race` use it, so that their counterexamples are not due to a system that
stands still.

`FeatureFairness`: a request to Overpass is answered or fails, as
`httpx.AsyncClient(timeout=30.0)` sees to; a call that has its features goes on;
time passes. `RecoveryReachesUsers` needs the first and the last: samples leave
the cache only by their age. `GateFairness`: time passes. No fairness is assumed of
calls arriving, of clients asking again or of the script being started.
`RefusedClientRecovers` says that a refused client is let through after a while
however often it asks, because refused requests are not recorded. `LoadingEnds` of
`RouteConsole` is an action property and needs no fairness.

### Disagreements between code and documents

The six violation runs each refute one sentence of the repository; `findings`
in `PROJECT.json` quotes it. In short: PATCH checks the status long before it
commits (`edit_race`); request-changes takes an `evaluating` project and approve
a `change_requested` one, so two calls approve a project nobody submitted
(`approve_unsubmitted`); `update_route` reads rows and then comments, and carries
over from the older of the two reads (`carry_race`); a bridge with two risks
comes back as two bridges (`heavy_bridge`); candidates from OSRM have no features
and pass as plain candidates (`no_data_candidate`); the demonstration script changes
the key of a project before the rows that refer to it, which PostgreSQL refuses, and
its next run is refused too, at the users the leftover project belongs to
(`seed_postgres`).

Other behaviour of the same models that a maintainer may want to know, seen by
running properties of the serial runs with overlapping calls, or as written in
the actions:

* A run of the demonstration script that dies between the insert of a project and
  its move leaves the project, on SQLite too, under a generated id that no later
  run removes; `SeedLeavesItsRows` bounds them by the number of runs that died.
* A first call that loses the race for its user's row is answered with a server
  error, and succeeds when repeated (`OnlyFirstCallsFail`).
* Samples that stand in for a failed Overpass request are served for six hours, and
  a request that fails late replaces the good answer of a later one.
* `knowledge.py:126` calls the base targets "appended to every answer"; the cut to
  six leaves none of them when six targets of topics come first.
* The list of projects answers with the limit and offset it was asked for, and not
  with those it used (`main.py:200-205`).

* Two generate calls that overlap can store their batches under one generation
  (`OneBatchPerGeneration` without its last conjunct).
* Of two overlapping evaluations the second keeps the rows of the first beside
  its own (`NoRiskMultiplied` without `EvaluationsInTurn`).
* A confirmation that asks for the status it has loaded writes nothing, though
  another verdict was committed meanwhile (`ConfirmTakesEffect` without its last
  disjunct).
* A confirmation that overlaps an evaluation makes one of the two fail on PostgreSQL,
  or leaves a comment without its row on SQLite (`OnlyRacesCollide` without the calls
  that were missed).
* An object within reach of both ends of a route is stored twice and reported twice by
  every evaluation (`stored`): the ids `main.py:633` compares are new in each answer.
* A change and its audit row are two commits; a call cut short between them
  leaves a change without its row. `StatusAccountable` therefore admits a lost
  call as an answer.
* A report evaluates pending candidates and writes no audit row.
* A bare feature row can be confirmed before any evaluation, and its
  confirmation goes with the first one, since the carry map is keyed by rule.

Of the browser console, read off `RouteConsole` (the `patient` of its properties
marks what goes wrong for a user who clicks on):

* Two generations that overlap, or one with a save or a deletion, leave
  `apiRoutes` an empty array: `evaluateRoute` turns `null` into `[]`
  (`component.js:540`), `renderVals` throws and the screen stands still until
  candidates come or a click resets them. `tests/js/route_screen.test.mjs` covers the same
  symptom for another cause ("renderVals computes all screens without throwing
  (regression: blank UI)").
* A late answer shows the candidates or the report of one project while another
  one is active, and submit and approve act on the active one
  (`OnlyAnswersMixProjects`).
* "Save only" makes the saved project active and leaves candidates and report of
  the former one on the screen, without any overlap.
* Selecting the project opened last clears its candidates and asks for nothing:
  the map shows built-in candidates (`ReopenProject`), where
  `tests/e2e/browser_smoke.mjs` says "opening a project generates and evaluates
  routes on the map screen" of the first opening.
* Risks of the server are visible only under the built-in candidates (`Pins`).
* An evaluation that fails in the middle of a batch is erased by the next one,
  and the batch ends with the notice that it was evaluated.
* After an edit has been loaded the loading indicator stays on
  (`LoadingEnds` leaves `editProject` out).
* After a new project is saved the form stays as it is, and saving again makes
  another one.

## 4. Proofs

`tlapm` checks the eight proof modules to the last leaf. The theorems hold for every
finite set of calls, every set of route types, features and rules, every table
of rules, any number of calls at a time and any number lost; those of the console hold for any
projects, any number of jobs at a time and any number of candidates in an answer;
those of the server's other parts for any points, keys, clients and users, any limits
and lifetimes, and any plan of demonstration projects. The inductive invariants stand
beside the properties or at the head of the proof modules.

### ReviewWorkflowProofs

Assumptions: `Request` is finite, `RouteType` is not empty, the bounds are
numbers, `Unloaded` is not a status. (They are named in the module and TLC
evaluates them in every run.)

The properties are not inductive alone. `IndInv` adds what calls rely on
between their steps:

* `StepsFitOp`: a call is at a step of its own operation and its audit row is
  its last;
* `EvidenceInHand`: a call that is about to write `review_required` has an
  evaluated candidate behind it, and candidates are never un-evaluated. This is
  what makes the long way from submit's check to its commit harmless;
* `DraftIsOver`: once a call has loaded or written more than a draft, the
  project never is a draft again. It covers the commit that writes nothing
  because the loaded status was the wanted one: generate may go on to insert
  candidates without having written a status at all;
* `BatchesFit`: a number read is the number of a stored batch, and a call that
  has not inserted owns no candidates. Hence numbers are contiguous although
  read in one statement and used in another.

`LoneCalls` is the invariant behind the three properties of calls that overlap
none: such a call is the only one under way, a lone edit still finds the project
open, and a batch above the number a call has read belongs to a call it met.

Two sentences of the repository that runs refute are proved under a condition
on overlaps or order. `SpecOnlySubmittedApproved`: if changes are asked for only once a
candidate is evaluated (`ChangesAfterEvaluation`), an approved project has been
evaluated, because then every decision taken or under way has evidence
(`DecidedEvaluated`). `SpecClosedProjectNotEdited`: if no commit closes the project
while an edit is between its check and its commit (`ClosesApart`), no edit reaches a
closed project; whatever else overlaps it does no harm.

`NextInd` has one lemma per action. `SpecLifecycle` maps each step to a step of
`ReviewLifecycle` or a stutter; the mapping is the identity on `status`,
`generation` and `evaluated`, and it needs `IndInv` for the guards
`EnterReview`, `Decide` and `AddBatch` have and the code checks only earlier.

### RiskLedgerProofs

Assumptions: finite calls, features and rules; the marks `NoFeature`,
`Placeholder`, `Generated`, `Unconfirmed` lie outside the sets they mark; every
feature meets at least one rule, as every branch of `evaluate_route` does.

`LedgerInv` is the inductive invariant: a verdict in a row, in the database or in
what an evaluation has read (`ReadsAccounted`), was given by a confirm call on
the same rule and feature, and that call never takes it back
(`SettledStable`); an evaluation has read every bare feature row it has to
replace (`PlaceholdersRead`). `SpecFeaturesStay` says that an evaluation
loses a feature only by leaving its source out: what every choice of sources includes
(`AlwaysIncluded`) stays in the rows and in the hands of every evaluation under way.
`SpecNoFeatureLost` is the case in which every evaluation includes every source
(`Inclusions = {Feature}`); otherwise its statement is false.

`SpecOnlyRacesCollide`, `SpecConfirmTakesEffect` and `SpecNoRiskMultiplied` hold of every
overlap, for both kinds of database, since their statements name the commits a call has
not seen. `RaceInv` is the invariant behind them: rows that are stored, read or asked
about were inserted by calls that have committed, and those in hand are new
(`Provenance`), so that no commit brings back a row another call has lost; a comment an
evaluation has not read on a row it has was added by a confirmation it has missed
(`CommentsMissed`); a row that is gone from under a confirmation was deleted by an
evaluation it has missed, and a row that is there has the status its SELECT loaded or
one that a confirmation it has missed gave it (`RowMissed`). For `SpecNoRiskMultiplied`
the rows of a feature, in the database and in hand, bear different numbers up to the
number it was stored with (`Few`), and an evaluation that has missed no other has read
every row there is (`AllRowsRead`). `OneRulePerFeature` is needed because a feature read
back from two rows comes back twice; `heavy_bridge` shows a vehicle from 44 t.

Two more properties are false when calls overlap freely, and true when they do not
overlap at all. Each is proved for any number of calls at a time under the condition
on overlaps it needs, an action formula the steps are assumed to satisfy; calls
served one after the other (`MaxInFlight = 1`, as `ledger_serial` runs them) satisfy
both (`SerialApart`), which gives the theorems `Spec...` of that case.

| Theorem | Condition | What may overlap all the same |
|---|---|---|
| `ApartConfirmationSurvives` | `EvaluationsApart`: no evaluation commits between the first read of another and its commit; `ConfirmationsApart`: nor does a confirmation, unless foreign keys are checked and it comes after the second read, where its comment makes the evaluation fail | arrivals, reads, refused calls; with foreign keys the later half of each evaluation |
| `TogetherConfirmedHasComment` | `ReadTogether`: no evaluation commits between the two reads of another | confirmations with everything |

Without the condition each is violated (`carry_race` is the first case; the other
was seen with `MaxInFlight = 3` while the condition was looked for, and TLC found no error
with it, with and without foreign keys). The invariants behind them: a confirmation
an evaluation carries over is as the database has it (`ReadsCurrent`), with the
comments committed so far (`CommentsCommitted`, `ReadsCommented`).

### RouteEvaluationProofs

Assumptions: those of the module on switches, answers, sources and the bound; the mark
`NoFeature` is no feature. The tables are those of the code.

`EvaluationInv` is `TypeOK`, `LevelIsWorst`, `MissingInRows` (while the vehicle lacks
its height or weight, an evaluation has left a row that says so: no filter takes the
rules of the vehicle away) and `EvaluatedAgain` (the rows, score and level of an
evaluation that still counts are what it would compute again from them).

`TypeOK` speaks of sums over sets of rows, which the module takes with
`MapThenSumSet`, a choice of the one function that satisfies a recursion. That it
exists is proved without induction: of the bounds up to which no function sums all
subsets there would be a least, and it is neither 0 nor the successor of a bound that
has one (`SumsExist`); in the same way every sum is a number that is no less than each
of its terms (`SumsBound`), so a feature that has a row has at least one copy. For
`SpecReEvaluationIsStable` a feature with one rule has exactly one kind of row
(`OneRule`), the sum over which is its own number (`SumOfOne`), so the feature comes
back as often as it was there.

That the cascade of `_route_level` is the maximum is a lemma over any set of risks, by
the cases of the cascade. `SpecFeaturesOnlyShrink` and `SpecFullEvaluationKeepsFeatures`
compare the features read from the new rows with those the rows were made of: each rule
of a feature keeps its type and source, and each feature the filter lets through meets
at least one rule.

`SpecPlainCandidateIsEmpty` says what the level `candidate` means in this code: no rule
is below `caution`, so it is given exactly to the candidates without a single row.
Hence `NoDataNeverCandidate`, which `no_data_candidate` refutes, comes to "no candidate
is ever without features and missing data", and `SpecNoDataNeverCandidate` proves it
where OSRM does not route and no filter leaves OpenStreetMap out (`OsmIncluded`): the
built-in samples and the answers of Overpass always have a feature of that source. Both
conditions are needed: a filter that leaves it out brings the same violation.

### RouteConsoleProofs

Assumptions: the listed projects are projects, `NoProject` is none, an answer
has at least one candidate (as `routing.py` and the built-in candidates of
`risk_engine.py` see to), and `Null` is not a set of candidates.

`ConsoleInv` adds to the properties: the form and the mark of the edit are
written together (`FormFits`), so whatever order edits, cancels and saves come
in, each save takes a pair that fits; the lock of confirmations is held by one
job at most and by no one else (`LockFits`); and, while the user has waited for
each answer, there is one job at most and what its answer counts on is on the
screen (`Calm`: candidates for an evaluation, an active project and the format
for a report). Clicks and answers have a lemma each for each part.

The action properties need `ScreenInv` beyond it. `RoutesFitKeys`: the candidates on
the screen are those that have letters, so dropping them uncovers pins of the same
batch only. `AnswerIsActive`: while the user has waited, what a job will bring is about
the active project, and a generation that fails finds no candidates to go on with.
Every click and every answer without data adds nothing to the screen or clears it
(`Plain`, `Clears`); the answers that bring data are looked at one by one.
`SpecLoadingEnds` follows from type correctness and the list of answers.

The properties of `patient` speak of a user who never clicks while a request is under
way. Nothing in the page makes a user wait, so three theorems say how much waiting each
sentence takes. As in `RiskLedgerProofs` the conditions are action formulas the steps
are assumed to satisfy: which click waits for which jobs. Everything else may be
clicked at any time, for any number of projects and jobs.

| Theorem | Condition | Who waits for what |
|---|---|---|
| `WaitedScreenRenders` | `RoutesWaited` | opening a project or regenerating: evaluations; opening one other than the last, or regenerating: also deletions and saves that generate; deleting: whatever will evaluate; a save that generates: all of these |
| `WaitedReportFits` | `ReportsWaited` | a report on the screen: reports, downloads and deletions; a download: deletions; deleting: reports and downloads |
| `WaitedScreenFits` | `ProjectsWaited` | opening a project or deleting: whatever will bring data; opening one other than the last: also saves and deletions; regenerating, reports and downloads: saves and deletions; a save: whatever will bring data, and one that generates also other saves and deletions; and a save is of the active project, or the screen is empty |

The last clause is the exception `PatientScreenFits` makes for saves: the answer to a
save makes its project active and leaves the screen as it is, which no waiting mends.
A format that is not shown may be chosen while a report is under way: `ReportFits` says
nothing of the screen as long as it is. Reviews, edits, confirmations, lists and a
cancelled edit wait for nothing in any of the three, and in the last two generations
and evaluations of one project overlap as they like.

No click can be let off waiting for any one of these kinds of jobs: without it TLC found
the sentence violated with two projects, four jobs, three at a time and one
candidate, and with the whole condition no error on the same instance. The invariants:
`RoutesInv` (an evaluation finds candidates; a job that will drop them is the only one
that will evaluate), `ReportsInv` (a report under way has the format chosen last if
both are shown, its project is active, and nothing is being deleted) and `ProjectsInv`
(what is to come is of the active project; nothing is deleted, and nothing else saved,
meanwhile; any save finds its project active or the screen empty). `WaitedScreenFits`
rests on `ScreenInv` for the candidates with letters and on the lemma that an answer
about the active project brings nothing of another one.

### FeatureCacheProofs, SigningKeysProofs, KnowledgeGateProofs

Assumptions: lifetimes and limits are positive numbers, the window and a request's
time are numbers, the set of keys is not empty, the set of clients is finite. The table
of targets is that of the code.

`OneRequestPerPoint` is inductive once a waiting call's next point is known to be the
first of at most two and, if it has had an answer, the second is another point: an
answer just stored is fresh, and stays in the cache because the cache holds at least
one entry. `TrustEnds` needs that each cached key was published at most a request's
time before the stamp of the set, and each possible answer at most `waited` ago.
`ForgottenInACrowd` needs that everybody entered after a client has asked since it
was entered, so that the one at the front of a full dictionary has all others in its
crowd.

`SpecTopicsSurviveTheCut` is an argument about places in the table. No target is named
twice in it (`TableFacts`), so the merge drops nothing (`NothingTwice`). Each topic has
one place, two of them a second one: before a place of a topic there are at most as
many as topics before it, and two more (`FewPlaces`), so with fewer than four
topics before it the place is among the first six (`TopicKept`), as is the first base
target with at most two topics (`BaseKept`). A set of places is cut to six or left
whole (`CutSize`), hence three to six targets.

### DemoSeedProofs

Assumptions: the ids of the plan are distinct and are no generated ids, the script's
users are not people, the marks `NoUser` and `NoId` lie outside the sets they mark.

`SeedInv` ties each step of a call to the rows it relies on, keeps the projects of
calls and the script's apart (an id in use is never given again), and says what the
database holds of the plan at each phase. `SpecRerunIsAccepted` follows: after
`Clear` there is neither a user nor a project left for a later statement to run into.
`SpecSeedLeavesItsRows` adds `PlanInv` (which parts each project of the plan has at
each phase) and `StrayInv` (the projects left under generated ids are finite and no
more than the runs that died): the project the script is about to move is the only one
that can become one of them, and it does so only when the run dies there.

### Only model-checked

The liveness properties `RecoveryReachesUsers` and `RefusedClientRecovers` need
fairness, hence `ENABLED`, and stay with TLC beyond `SpecSamplesFade` and
`SpecWaitShrinks`, the safety steps they rest on. All other properties of the passing
runs are theorems, and each sentence the violation runs refute is a theorem under a
stated condition, that of the script being `RerunIsAccepted` (no foreign keys).

## 5. What is not modelled, and the plan

Read-only queries, report rendering, migrations, shell scripts and the edge worker
keep no state that another step reads at run time. (Met while reading them:
`cloudflare/worker.js:6` declares a constant in terms of itself; `backup_db.sh:19`
writes a plain SQL dump, while `restore_db.sh:24` hands it to `pg_restore`, which
takes archives only.) Claims and roles are decided per request from the token or the
environment alone. The vehicle and delivery fields no rule reads are left out
of `RouteEvaluation`; coordinates and rounding in the carry key are one feature
value in `RiskLedger`; notices, the map, the selected candidate, the knowledge
panel and the administration views are left out of `RouteConsole`. Features in
`FeatureCache` are known by their kind only, and their parsing is left out.

Order of work, the most important behaviour first:

1. `ReviewLifecycle`, `ReviewWorkflow` and proofs (done);
2. `RiskLedger` and proofs (done);
3. `RouteEvaluation` and proofs (done);
4. `RouteConsole` and proofs, its action properties included (done);
5. `FeatureCache`, `SigningKeys`, `KnowledgeGate`, `KnowledgeSearch` and proofs (done);
6. `DemoSeed` and proofs (done);
7. proofs: the carry-over of confirmations one call at a time, the
   collisions of overlapping calls (`OnlyRacesCollide`), the conditions on overlaps
   under which the refuted sentences hold, the sums of `RouteEvaluation`, and the steps behind the liveness properties (done);
8. proofs: which of the console's sentences hold of users who wait for some
   answers only, and the cut of the knowledge search (done).
