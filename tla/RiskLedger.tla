------------------------------ MODULE RiskLedger ------------------------------
(***************************************************************************)
(* The risk rows of one route candidate and their confirmations.           *)
(*                                                                         *)
(* An evaluation replaces the rows: it reads the candidate (its features   *)
(* are rebuilt from the risk rows that carry a source), computes new risks *)
(* in memory, reads the rows and then their comments again, and in one     *)
(* commit deletes the rows it has read, inserts the new ones and carries   *)
(* confirmations over by rule and feature.  A report does the same for a   *)
(* candidate nobody has evaluated.  A confirmation reads one row and, in   *)
(* one commit, updates it and adds a comment.  Every read is a statement   *)
(* of its own, so other calls commit in between.                           *)
(*                                                                         *)
(* A feature stands for a feature type at a pair of coordinates; an object *)
(* near both ends of the route is stored with the candidate twice.         *)
(* Project status and candidate lists are ReviewWorkflow's.                *)
(***************************************************************************)
EXTENDS Naturals, FiniteSets

CONSTANTS
  Call,         \* the API calls on the candidate; each is served once
  Feature,      \* the features stored with the candidate
  Rule,         \* rule ids
  NoFeature,    \* the feature of a risk that has none
  Placeholder,  \* the rule "" of a row that stands for a feature only
  RuleTables,   \* which rules a feature meets, for each state of the project
  SpecRules,    \* the rules for vehicle data that is missing
  Inclusions,   \* the feature sets include_sources can select
  Verdict,      \* the statuses a confirmation may set
  Databases,    \* what databases there are: TRUE for one that checks foreign
                \* keys (PostgreSQL), FALSE for one that does not (SQLite)
  Generated,    \* the generate call that stored the candidate
  MaxCopies,    \* bound: rows of one feature and rule per evaluation, and
                \* rows of one feature that save_routes stores
  MaxInFlight   \* bound: calls served at the same time

Unconfirmed == "unconfirmed"

ASSUME CallAssumption    == IsFiniteSet(Call) /\ Generated \notin Call
ASSUME FeatureAssumption == IsFiniteSet(Feature) /\ NoFeature \notin Feature
ASSUME RuleAssumption    ==
  IsFiniteSet(Rule) /\ Placeholder \notin Rule /\ SpecRules \subseteq Rule
\* Every branch of evaluate_route on a feature type adds at least one risk.
ASSUME TableAssumption ==
  RuleTables \subseteq [Feature -> (SUBSET Rule) \ {{}}]
ASSUME VerdictAssumption == Unconfirmed \notin Verdict
ASSUME InclusionAssumption == Inclusions \subseteq SUBSET Feature
ASSUME LedgerBoundAssumption ==
  /\ Databases \subseteq BOOLEAN
  /\ MaxCopies \in Nat \ {0}
  /\ MaxInFlight \in Nat \ {0}

\* A row has a fresh id: the call that inserts it, what it is about, a count.
Row == [by : Call \cup {Generated}, feature : Feature \cup {NoFeature},
        rule : Rule \cup {Placeholder}, copy : 1..MaxCopies]

Comment == [row : Row, by : Call, result : Verdict]

\* What a confirmation is carried over by (_risk_carry_key).
Key(r) == <<r.rule, r.feature>>

Active == {"load_risks", "load_comments", "replace", "select_risk",
           "update_risk", "audit"}
Ended  == {"done", "refused", "failed"}

VARIABLES
  \* where the system runs, chosen once and for all
  enforceFK,     \* does the database check foreign keys?
  stored,        \* how many rows save_routes has stored for a feature
  \* the database
  conf,          \* the risk rows there are, with their confirmation_status
  comments,      \* risk_comments
  evaluated,     \* is the candidate's evaluation_status "evaluated"?
  auditLog,      \* the calls with a row in audit_logs
  \* the handlers
  kind,          \* what a call asks for ("none" until it arrives)
  pc,            \* the next step of a call
  fresh,         \* the rows an evaluation is going to insert
  base,          \* the rows update_route has loaded, with their status
  baseComments,  \* the comments update_route has loaded
  row,           \* the row a confirmation is about
  want,          \* the status it sets
  loaded,        \* the status its SELECT loaded
  \* history, for the properties only
  unseen         \* the calls that have committed since a call has read what
                 \* its own commit relies on

given  == <<enforceFK, stored>>
db     == <<enforceFK, stored, conf, comments, evaluated, auditLog>>
evalLocal == <<fresh, base, baseComments>>
confirmLocal == <<row, want, loaded>>
vars   == <<enforceFK, stored, conf, comments, evaluated, auditLog, kind, pc,
            fresh, base, baseComments, row, want, loaded, unseen>>

NoRows == [r \in {} |-> Unconfirmed]

\* A status per row, for some of the rows.
IsLedger(f) ==
  /\ DOMAIN f \subseteq Row
  /\ \A r \in DOMAIN f : f[r] \in Verdict \cup {Unconfirmed}

TypeOK ==
  /\ enforceFK \in BOOLEAN
  /\ stored \in [Feature -> 1..MaxCopies]
  /\ IsLedger(conf)
  /\ comments \subseteq Comment
  /\ evaluated \in BOOLEAN
  /\ auditLog \subseteq Call
  /\ kind \in [Call -> {"none", "evaluate", "report", "confirm"}]
  /\ pc \in [Call -> {"idle"} \cup Active \cup Ended]
  /\ fresh \in [Call -> SUBSET Row]
  /\ DOMAIN base = Call /\ \A q \in Call : IsLedger(base[q])
  /\ baseComments \in [Call -> SUBSET Comment]
  /\ row \in [Call -> SUBSET Row]
  /\ want \in [Call -> Verdict \cup {Unconfirmed}]
  /\ loaded \in [Call -> Verdict \cup {Unconfirmed}]
  /\ unseen \in [Call -> SUBSET Call]

\* What save_routes stores for the features; none of it is a risk yet.
StoredRows ==
  {r \in Row : /\ r.by = Generated
               /\ r.feature \in Feature
               /\ r.rule = Placeholder
               /\ r.copy <= stored[r.feature]}

\* A feature may be stored several times: _fetch_osm_project_features tells
\* the objects near the two ends apart by an id each parse makes anew.
Init ==
  /\ enforceFK \in Databases
  /\ stored \in [Feature -> 1..MaxCopies]
  /\ conf = [r \in StoredRows |-> Unconfirmed]
  /\ comments = {}
  /\ evaluated = FALSE
  /\ auditLog = {}
  /\ kind = [q \in Call |-> "none"]
  /\ pc = [q \in Call |-> "idle"]
  /\ fresh = [q \in Call |-> {}]
  /\ base = [q \in Call |-> NoRows]
  /\ baseComments = [q \in Call |-> {}]
  /\ row = [q \in Call |-> {}]
  /\ want = [q \in Call |-> Unconfirmed]
  /\ loaded = [q \in Call |-> Unconfirmed]
  /\ unseen = [q \in Call |-> {}]

-----------------------------------------------------------------------------
(* The risks of an evaluation.                                             *)

Rows == DOMAIN conf

\* Fault: only the rows save_routes stored become features again.
OccurrencesFault(f) ==
  Cardinality({r \in Rows : r.feature = f /\ r.rule = Placeholder})

\* _db_route_to_pydantic: every row of a feature becomes a feature again.
Occurrences(f) == Cardinality({r \in Rows : r.feature = f})

\* evaluate_route: one risk per feature and rule it meets, and one per
\* missing vehicle specification.
RisksOf(q, included, table) ==
  {r \in [by : {q}, feature : included, rule : Rule, copy : 1..MaxCopies] :
     r.rule \in table[r.feature] /\ r.copy <= Occurrences(r.feature)}
  \cup [by : {q}, feature : {NoFeature}, rule : SpecRules, copy : {1}]

\* _confirmation_carry_map: the loaded rows that have been looked at.
Settled(q) == {r \in DOMAIN base[q] : base[q][r] # Unconfirmed}

CarriedKeys(q) == {Key(r) : r \in Settled(q)}

\* When several settled rows share a key, one of them (the last of a query
\* without an order) wins.
CarryMaps(q) ==
  {m \in [CarriedKeys(q) -> Settled(q)] :
     \A k \in CarriedKeys(q) : Key(m[k]) = k}

-----------------------------------------------------------------------------
(* How a call moves.                                                       *)

Arrive(q, k, step) ==
  /\ pc[q] = "idle"
  /\ Cardinality({p \in Call : pc[p] \in Active}) < MaxInFlight
  /\ kind' = [kind EXCEPT ![q] = k]
  /\ pc' = [pc EXCEPT ![q] = step]

Goto(q, from, to) ==
  /\ pc[q] = from
  /\ pc' = [pc EXCEPT ![q] = to]
  /\ UNCHANGED kind

\* Call q commits: those that have read and not committed yet miss it.
Record(q) ==
  unseen' = [p \in Call |->
               IF /\ p # q
                  /\ pc[p] \in {"load_comments", "replace", "update_risk"}
               THEN unseen[p] \cup {q} ELSE unseen[p]]

\* An evaluation that ends drops what it has read.
ForgetEvaluation(q) ==
  /\ fresh' = [fresh EXCEPT ![q] = {}]
  /\ base' = [base EXCEPT ![q] = NoRows]
  /\ baseComments' = [baseComments EXCEPT ![q] = {}]

-----------------------------------------------------------------------------
(* Evaluation.                                                             *)

\* The candidate is read and its risks are computed.
BeginEvaluate(q, included, table) ==
  /\ \A f \in included : Occurrences(f) <= MaxCopies
  /\ Arrive(q, "evaluate", "load_risks")
  /\ fresh' = [fresh EXCEPT ![q] = RisksOf(q, included, table)]
  /\ UNCHANGED <<db, unseen, base, baseComments, confirmLocal>>

\* A report evaluates the candidate, with all its features, when it reads it
\* as pending; otherwise it changes nothing here.
BeginReport(q, table) ==
  /\ \A f \in Feature : Occurrences(f) <= MaxCopies
  /\ Arrive(q, "report", IF evaluated THEN "done" ELSE "load_risks")
  /\ fresh' = [fresh EXCEPT ![q] = IF evaluated THEN {}
                                   ELSE RisksOf(q, Feature, table)]
  /\ UNCHANGED <<db, unseen, base, baseComments, confirmLocal>>

\* update_route, first and second statement: the rows ...
LoadRisks(q) ==
  /\ Goto(q, "load_risks", "load_comments")
  /\ base' = [base EXCEPT ![q] = conf]
  /\ UNCHANGED <<db, unseen, fresh, baseComments, confirmLocal>>

\* Fault: only the comments with the verdict a row has now are loaded.
LoadCommentsFault(q) ==
  /\ Goto(q, "load_comments", "replace")
  /\ baseComments' =
       [baseComments EXCEPT ![q] =
          {c \in comments : c.row \in DOMAIN base[q]
                            /\ c.result = base[q][c.row]}]
  /\ UNCHANGED <<db, unseen, fresh, base, confirmLocal>>

\* ... and third statement: the comments of those rows.
LoadComments(q) ==
  /\ Goto(q, "load_comments", "replace")
  /\ baseComments' =
       [baseComments EXCEPT ![q] = {c \in comments : c.row \in DOMAIN base[q]}]
  /\ UNCHANGED <<db, unseen, fresh, base, confirmLocal>>

\* A loaded row that is still there has a comment that was not loaded.
BlockedByComment(q) ==
  \E c \in comments : /\ c.row \in DOMAIN base[q] \cap Rows
                      /\ c \notin baseComments[q]

\* The new rows a confirmation is carried over to.
Carried(q) == {r \in fresh[q] : Key(r) \in CarriedKeys(q)}

\* What is left of the rows when the loaded ones are gone.
Survivors(q) == Rows \ DOMAIN base[q]

\* The rows and comments after the commit, with m the carry map.
LedgerAfter(q, m) ==
  [r \in Survivors(q) \cup fresh[q] |->
     IF r \in Carried(q) THEN base[q][m[Key(r)]]
     ELSE IF r \in fresh[q] THEN Unconfirmed ELSE conf[r]]

CommentsCarried(q, m) ==
  {[row |-> r, by |-> q, result |-> base[q][m[Key(r)]]] :
     r \in {x \in Carried(q) : \E c \in baseComments[q] : c.row = m[Key(x)]}}

\* What the commit of update_route does besides.
SaveRoute(q) ==
  /\ ~(enforceFK /\ BlockedByComment(q))
  /\ Goto(q, "replace", IF kind[q] = "report" THEN "done" ELSE "audit")
  /\ evaluated' = TRUE
  /\ ForgetEvaluation(q)
  /\ Record(q)
  /\ UNCHANGED <<given, auditLog, confirmLocal>>

\* Fault: the new rows start unconfirmed.
ReplaceWithoutCarryFault(q) ==
  /\ SaveRoute(q)
  /\ conf' = [r \in Survivors(q) \cup fresh[q] |->
                IF r \in fresh[q] THEN Unconfirmed ELSE conf[r]]
  /\ comments' = comments \ baseComments[q]

\* Fault: the new rows are added to the old ones.
ReplaceWithoutDeleteFault(q) ==
  /\ SaveRoute(q)
  /\ \E m \in CarryMaps(q) :
       conf' = [r \in Rows \cup fresh[q] |->
                  IF r \in fresh[q] THEN LedgerAfter(q, m)[r] ELSE conf[r]]
  /\ UNCHANGED comments

\* Fault: confirmations are matched by feature only, not by rule.
ReplaceByFeatureFault(q) ==
  /\ SaveRoute(q)
  /\ conf' = [r \in Survivors(q) \cup fresh[q] |->
                IF r \notin fresh[q] THEN conf[r]
                ELSE IF \E s \in Settled(q) : s.feature = r.feature
                THEN base[q][CHOOSE s \in Settled(q) : s.feature = r.feature]
                ELSE Unconfirmed]
  /\ comments' = comments \ baseComments[q]

\* Fault: carried comments stay with the row they were made on.
ReplaceKeepsRowFault(q) ==
  /\ SaveRoute(q)
  /\ \E m \in CarryMaps(q) :
       /\ conf' = LedgerAfter(q, m)
       /\ comments' = {c \in comments : c \in baseComments[q] =>
                         \E r \in Carried(q) : c.row = m[Key(r)]}

\* The commit: the loaded rows and comments go, the new rows come.  A loaded
\* row that another evaluation has deleted meanwhile is no error.
Replace(q) ==
  /\ SaveRoute(q)
  /\ \E m \in CarryMaps(q) :
       /\ conf' = LedgerAfter(q, m)
       /\ comments' = (comments \ baseComments[q]) \cup CommentsCarried(q, m)

\* The database refuses to delete a row a comment refers to: the commit is
\* rolled back and the call fails.
ReplaceFails(q) ==
  /\ enforceFK /\ BlockedByComment(q)
  /\ Goto(q, "replace", "failed")
  /\ ForgetEvaluation(q)
  /\ UNCHANGED <<db, unseen, confirmLocal>>

-----------------------------------------------------------------------------
(* Confirmation.                                                           *)

\* The route is read and has the row.
BeginConfirm(q, r, verdict) ==
  /\ r \in Rows
  /\ Arrive(q, "confirm", "select_risk")
  /\ row' = [row EXCEPT ![q] = {r}]
  /\ want' = [want EXCEPT ![q] = verdict]
  /\ UNCHANGED <<db, unseen, evalLocal, loaded>>

\* confirm_route_risk: the row is read again; without it the answer is 404.
SelectRisk(q) ==
  /\ Goto(q, "select_risk", IF row[q] \subseteq Rows THEN "update_risk"
                            ELSE "refused")
  /\ \E r \in row[q] :
       loaded' = [loaded EXCEPT ![q] = IF r \in Rows THEN conf[r] ELSE @]
  /\ UNCHANGED <<db, unseen, evalLocal, row, want>>

\* Fault: a verdict that has been given is not changed any more.
UpdateRiskFault(q) ==
  /\ Goto(q, "update_risk", "audit")
  /\ \E r \in row[q] :
       /\ r \in Rows \/ (loaded[q] # Unconfirmed /\ ~enforceFK)
       /\ conf' = [x \in Rows |-> IF x = r /\ loaded[q] = Unconfirmed
                                  THEN want[q] ELSE conf[x]]
       /\ comments' = comments \cup {[row |-> r, by |-> q, result |-> want[q]]}
  /\ Record(q)
  /\ UNCHANGED <<given, evaluated, auditLog, evalLocal, confirmLocal>>

\* The commit.  The UPDATE is emitted only when the status differs from the
\* one loaded; the comment is inserted in any case.
UpdateRisk(q) ==
  /\ Goto(q, "update_risk", "audit")
  /\ \E r \in row[q] :
       /\ r \in Rows \/ (loaded[q] = want[q] /\ ~enforceFK)
       /\ conf' = [x \in Rows |-> IF x = r /\ loaded[q] # want[q] THEN want[q]
                                                                ELSE conf[x]]
       /\ comments' = comments \cup {[row |-> r, by |-> q, result |-> want[q]]}
  /\ Record(q)
  /\ UNCHANGED <<given, evaluated, auditLog, evalLocal, confirmLocal>>

\* The row is gone: an UPDATE that meets no row, or a comment that refers to
\* none where foreign keys are checked, is an error.
UpdateRiskFails(q) ==
  /\ Goto(q, "update_risk", "failed")
  /\ ~(row[q] \subseteq Rows) /\ (loaded[q] # want[q] \/ enforceFK)
  /\ UNCHANGED <<db, unseen, evalLocal, confirmLocal>>

WriteAudit(q) ==
  /\ Goto(q, "audit", "done")
  /\ auditLog' = auditLog \cup {q}
  /\ UNCHANGED <<given, conf, comments, evaluated, evalLocal, confirmLocal,
                 unseen>>

-----------------------------------------------------------------------------

Begin(q) ==
  \/ \E included \in Inclusions, table \in RuleTables :
       BeginEvaluate(q, included, table)
  \/ \E table \in RuleTables : BeginReport(q, table)
  \/ \E r \in Rows, verdict \in Verdict : BeginConfirm(q, r, verdict)

Step(q) ==
  \/ LoadRisks(q)
  \/ LoadComments(q)
  \/ Replace(q)
  \/ ReplaceFails(q)
  \/ SelectRisk(q)
  \/ UpdateRisk(q)
  \/ UpdateRiskFails(q)
  \/ WriteAudit(q)

Next == \E q \in Call : Begin(q) \/ Step(q)

Spec == Init /\ [][Next]_vars

\* As in ReviewWorkflow: the event loop runs every ready coroutine.
FairSpec == Spec /\ \A q \in Call : WF_vars(Step(q))

-----------------------------------------------------------------------------
(* Safety, however the calls interleave.                                   *)

\* Call q has set, in the database, the verdict v on the risk with key k.
HasSettled(q, k, v) ==
  /\ kind[q] = "confirm" /\ want[q] = v /\ pc[q] \in {"audit", "done"}
  /\ \E r \in row[q] : Key(r) = k

\* Every status in f was given by somebody.
Accounted(f) ==
  \A r \in DOMAIN f : f[r] # Unconfirmed =>
    \E q \in Call : HasSettled(q, Key(r), f[r])

\* A risk is shown as looked at only when somebody has given that verdict on
\* the same rule at the same feature: evaluations, reports and failed calls
\* never make one up (confirm_route_risk, _confirmation_carry_map).
NoFabricatedConfirmation == Accounted(conf)

\* As long as evaluations include every source, no feature of the candidate
\* is lost, although features live only in the rows each one replaces.
NoFeatureLost == \A f \in Feature : \E r \in Rows : r.feature = f

\* After an evaluation the rows save_routes stored for the bare features are
\* gone for good, whichever rows the evaluations that overlap have loaded.
NoPlaceholderLeft == evaluated => \A r \in Rows : r.rule # Placeholder

Evaluates(q) == kind[q] \in {"evaluate", "report"}
Committed(q) == pc[q] \in {"audit", "done"}

\* A confirmation and an evaluation get into each other's way only when one of
\* them commits after the other has read: an evaluation fails only behind a
\* confirmation it has not seen and a confirmation only behind an evaluation
\* (with foreign keys), and a comment is left without its row only by such a
\* pair (without; update_route deletes only the comments it has read).
OnlyRacesCollide ==
  /\ \A q \in Call : pc[q] = "failed" =>
       \E p \in unseen[q] : Evaluates(p) # Evaluates(q)
  /\ \A c \in comments : c.row \notin Rows =>
       /\ ~Evaluates(c.by)
       /\ \E p \in Call : /\ Evaluates(p) /\ Committed(p)
                          /\ c.by \in unseen[p] \/ p \in unseen[c.by]

\* repository.py:780, "Update a risk's confirmation status": when the commit is
\* through the row has the status asked for, unless a call that committed after
\* the SELECT has given the row another one or has replaced it.
ConfirmTakesEffect ==
  [][\A q \in Call : pc[q] = "update_risk" /\ pc'[q] = "audit" =>
       \A r \in row[q] :
         \/ r \in Rows' /\ conf'[r] = want[q]
         \/ r \notin Rows' /\ \E p \in unseen[q] : Evaluates(p)
         \/ \E p \in unseen[q] : /\ ~Evaluates(p)
                                 /\ row[p] = row[q] /\ want[p] # want[q]]_vars

\* Every evaluation has replaced the rows of the one that committed before it.
EvaluationsInTurn ==
  \A q \in Call : Evaluates(q) /\ Committed(q) =>
    \A p \in unseen[q] : ~Evaluates(p)

\* How often a rule is due for a feature (for the vehicle: once).
TimesDue(f) == IF f \in Feature THEN stored[f] ELSE 1

\* repository.py:663, "the risk rows are replaced": as long as no evaluation has
\* missed another's rows, a rule is reported for a feature no more often than
\* the feature was stored, although every row comes back as a feature.
NoRiskMultiplied ==
  EvaluationsInTurn =>
    \A r \in Rows :
      Cardinality({s \in Rows : Key(s) = Key(r)}) <= TimesDue(r.feature)

-----------------------------------------------------------------------------
(* The inductive invariant: what the calls hold between their steps.       *)

\* A confirmation under way has a verdict to set.
VerdictInHand ==
  \A q \in Call : pc[q] \in {"select_risk", "update_risk"} =>
    kind[q] = "confirm" /\ want[q] \in Verdict

\* What an evaluation has read is as well accounted for as the database.
ReadsAccounted == \A q \in Call : Accounted(base[q])

\* An evaluation has read every bare feature row it has to replace, and adds
\* none.
PlaceholdersRead ==
  \A q \in Call :
    /\ \A r \in fresh[q] : r.rule # Placeholder
    /\ pc[q] \in {"load_comments", "replace"} =>
         \A r \in Rows : r.rule = Placeholder => r \in DOMAIN base[q]

LedgerInv ==
  /\ TypeOK
  /\ NoFabricatedConfirmation
  /\ NoPlaceholderLeft
  /\ VerdictInHand
  /\ ReadsAccounted
  /\ PlaceholdersRead

-----------------------------------------------------------------------------
(* What holds when calls are served one after the other.                   *)

\* repository.py:664, "a confirmed/needs_review status must not silently
\* disappear": a risk that is still reported stays looked at.
ConfirmationSurvives ==
  [][\A k \in {Key(r) : r \in Rows \cap Row} :
       /\ \E r \in Rows : Key(r) = k /\ conf[r] # Unconfirmed
       /\ \E r \in Rows' : Key(r) = k
       => \E r \in Rows' : Key(r) = k /\ conf'[r] # Unconfirmed]_vars

\* A risk that has been looked at has a comment that says so.
ConfirmedHasComment ==
  \A r \in Rows : conf[r] # Unconfirmed =>
    \E c \in comments : c.row = r /\ c.result = conf[r]
=============================================================================
