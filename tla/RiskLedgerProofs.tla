--------------------------- MODULE RiskLedgerProofs ---------------------------
(***************************************************************************)
(* Proofs about RiskLedger, for any calls, features and rules, with and    *)
(* without foreign keys, and whatever the bounds.                          *)
(***************************************************************************)
EXTENDS RiskLedger, FiniteSetTheorems, TLAPS

-----------------------------------------------------------------------------
(* Type correctness.                                                       *)

\* What an evaluation computes are rows, and none of them is a placeholder.
LEMMA RisksType ==
  ASSUME NEW q \in Call, NEW included \in SUBSET Feature, NEW table
  PROVE  /\ RisksOf(q, included, table) \subseteq Row
         /\ \A r \in RisksOf(q, included, table) : r.rule # Placeholder
<1>1. /\ Placeholder \notin Rule
      /\ SpecRules \subseteq Rule
      /\ MaxCopies \in Nat \ {0}
  BY RuleAssumption, LedgerBoundAssumption
<1>2. 1 \in 1..MaxCopies
  BY <1>1
<1>3. QED
  BY <1>1, <1>2 DEF RisksOf, Row

\* A call that arrives keeps the types.
LEMMA BeginType ==
  ASSUME TypeOK, NEW q \in Call, Begin(q)
  PROVE  TypeOK'
<1> USE DEF TypeOK, IsLedger, Arrive, db, evalLocal, confirmLocal, Active, Ended
<1>1. CASE \E included \in Inclusions, table \in RuleTables :
             BeginEvaluate(q, included, table)
  <2>1. PICK included \in Inclusions, table \in RuleTables :
          BeginEvaluate(q, included, table)
    BY <1>1
  <2>2. RisksOf(q, included, table) \subseteq Row
    BY RisksType, InclusionAssumption
  <2>3. QED
    BY <2>1, <2>2 DEF BeginEvaluate
<1>2. CASE \E table \in RuleTables : BeginReport(q, table)
  <2>1. PICK table \in RuleTables : BeginReport(q, table)
    BY <1>2
  <2>2. RisksOf(q, Feature, table) \subseteq Row
    BY RisksType
  <2>3. QED
    BY <2>1, <2>2 DEF BeginReport
<1>3. CASE \E r \in Rows, verdict \in Verdict : BeginConfirm(q, r, verdict)
  BY <1>3 DEF BeginConfirm, Rows
<1>4. QED
  BY <1>1, <1>2, <1>3 DEF Begin

\* The commit of an evaluation writes a ledger and comments.
LEMMA ReplaceType ==
  ASSUME TypeOK, NEW q \in Call, Replace(q)
  PROVE  TypeOK'
<1> USE DEF TypeOK, IsLedger
<1>1. PICK m \in CarryMaps(q) :
        /\ conf' = LedgerAfter(q, m)
        /\ comments' = (comments \ baseComments[q]) \cup CommentsCarried(q, m)
  BY DEF Replace
<1>2. \A r \in Carried(q) : base[q][m[Key(r)]] \in Verdict
  <2>1. \A k \in CarriedKeys(q) : m[k] \in Settled(q)
    BY DEF CarryMaps
  <2>2. QED
    BY <2>1 DEF Settled, Carried
<1>3. IsLedger(conf)'
  <2>1. Survivors(q) \cup fresh[q] \subseteq Row
    BY DEF Survivors, Rows
  <2>2. QED
    BY <1>1, <1>2, <2>1 DEF LedgerAfter, Survivors, Rows
<1>4. comments' \subseteq Comment
  <2>1. Carried(q) \subseteq Row
    BY DEF Carried
  <2>2. QED
    BY <1>1, <1>2, <2>1 DEF Comment, CommentsCarried
<1>5. QED
  BY <1>3, <1>4
  DEF Replace, SaveRoute, Record, ForgetEvaluation, NoRows, Goto, given,
      confirmLocal, Active, Ended

\* Every step of a call keeps the types.
LEMMA StepType ==
  ASSUME TypeOK, VerdictInHand, NEW q \in Call, Step(q)
  PROVE  TypeOK'
<1> USE DEF TypeOK, IsLedger, Goto, db, evalLocal, confirmLocal, Active, Ended
<1>1. CASE LoadRisks(q)
  BY <1>1 DEF LoadRisks
<1>2. CASE LoadComments(q)
  BY <1>2 DEF LoadComments
<1>3. CASE Replace(q)
  BY <1>3, ReplaceType
<1>4. CASE ReplaceFails(q)
  BY <1>4 DEF ReplaceFails, ForgetEvaluation, NoRows
<1>5. CASE SelectRisk(q)
  BY <1>5 DEF SelectRisk, Rows
<1>6. CASE UpdateRisk(q)
  <2>1. want[q] \in Verdict
    BY <1>6 DEF UpdateRisk, VerdictInHand
  <2>2. PICK r \in row[q] :
          /\ conf' = [x \in Rows |-> IF x = r /\ loaded[q] # want[q]
                                     THEN want[q] ELSE conf[x]]
          /\ comments' = comments \cup {[row |-> r, by |-> q, result |-> want[q]]}
    BY <1>6 DEF UpdateRisk
  <2>3. IsLedger(conf)'
    BY <2>1, <2>2 DEF Rows
  <2>4. comments' \subseteq Comment
    BY <2>1, <2>2 DEF Comment
  <2>5. QED
    BY <1>6, <2>3, <2>4 DEF UpdateRisk, Record, given
<1>7. CASE UpdateRiskFails(q)
  BY <1>7 DEF UpdateRiskFails
<1>8. CASE WriteAudit(q)
  BY <1>8 DEF WriteAudit, given
<1>9. QED
  BY <1>1, <1>2, <1>3, <1>4, <1>5, <1>6, <1>7, <1>8 DEF Step

-----------------------------------------------------------------------------
(* Verdicts.                                                               *)

\* HasSettled and Accounted in the next state, for values of this state.
SettledNext(q, k, v) ==
  /\ kind'[q] = "confirm" /\ want'[q] = v /\ pc'[q] \in {"audit", "done"}
  /\ \E r \in row'[q] : Key(r) = k

AccountedNext(f) ==
  \A r \in DOMAIN f : f[r] # Unconfirmed =>
    \E q \in Call : SettledNext(q, Key(r), f[r])

\* What somebody has settled stays settled by them.
LEMMA SettledStable ==
  ASSUME TypeOK, NEW q \in Call, Begin(q) \/ Step(q),
         NEW p \in Call, NEW k, NEW v, HasSettled(p, k, v)
  PROVE  SettledNext(p, k, v)
<1> USE DEF TypeOK, HasSettled, SettledNext, Arrive, Goto, evalLocal,
            confirmLocal, db
<1>1. CASE Begin(q)
  BY <1>1 DEF Begin, BeginEvaluate, BeginReport, BeginConfirm
<1>2. CASE Step(q)
  <2>1. /\ kind' = kind
        /\ want' = want
        /\ row' = row
    BY <1>2 DEF Step, LoadRisks, LoadComments, Replace, ReplaceFails,
                SelectRisk, UpdateRisk, UpdateRiskFails, WriteAudit,
                SaveRoute, ForgetEvaluation
  <2>2. pc'[p] \in {"audit", "done"}
    BY <1>2 DEF Step, LoadRisks, LoadComments, Replace, ReplaceFails,
                SelectRisk, UpdateRisk, UpdateRiskFails, WriteAudit,
                SaveRoute
  <2>3. QED
    BY <2>1, <2>2
<1>3. QED
  BY <1>1, <1>2

\* So a ledger that is accounted for stays so.
LEMMA AccountedStable ==
  ASSUME TypeOK, NEW q \in Call, Begin(q) \/ Step(q), NEW f, Accounted(f)
  PROVE  AccountedNext(f)
  BY SettledStable DEF Accounted, AccountedNext

\* An evaluation makes up no verdict: what it carries over it has read.
LEMMA LedgerAfterAccounted ==
  ASSUME NEW q \in Call, NEW m \in CarryMaps(q),
         Accounted(conf), Accounted(base[q])
  PROVE  Accounted(LedgerAfter(q, m))
<1> DEFINE f == LedgerAfter(q, m)
<1>1. SUFFICES ASSUME NEW r \in Survivors(q) \cup fresh[q], f[r] # Unconfirmed
               PROVE  \E p \in Call : HasSettled(p, Key(r), f[r])
  BY DEF Accounted, LedgerAfter
<1>2. CASE r \in Carried(q)
  <2>1. /\ m[Key(r)] \in Settled(q)
        /\ Key(m[Key(r)]) = Key(r)
    BY <1>2 DEF Carried, CarryMaps
  <2>2. f[r] = base[q][m[Key(r)]]
    BY <1>1, <1>2 DEF LedgerAfter
  <2>3. QED
    BY <2>1, <2>2 DEF Accounted, Settled
<1>3. CASE r \notin Carried(q)
  <2>1. r \in Rows /\ f[r] = conf[r]
    BY <1>1, <1>3 DEF LedgerAfter, Survivors
  <2>2. QED
    BY <1>1, <2>1 DEF Accounted, Rows
<1>4. QED
  BY <1>2, <1>3

\* Every step keeps the database accounted for, and what calls have read.
LEMMA AccountedStep ==
  ASSUME TypeOK, NoFabricatedConfirmation, ReadsAccounted, VerdictInHand,
         NEW q \in Call, Begin(q) \/ Step(q)
  PROVE  NoFabricatedConfirmation' /\ ReadsAccounted'
<1>1. AccountedNext(conf) /\ \A p \in Call : AccountedNext(base[p])
  BY AccountedStable DEF NoFabricatedConfirmation, ReadsAccounted
<1>2. \A f : f = NoRows => AccountedNext(f)
  BY DEF AccountedNext, NoRows
<1>3. ReadsAccounted'
  <2>1. \A p \in Call : base'[p] \in {base[p], conf, NoRows}
    BY DEF Begin, Step, BeginEvaluate, BeginReport, BeginConfirm, LoadRisks,
           LoadComments, Replace, ReplaceFails, SelectRisk, UpdateRisk,
           UpdateRiskFails, WriteAudit, SaveRoute, ForgetEvaluation,
           evalLocal, TypeOK
  <2>2. \A p \in Call : AccountedNext(base'[p])
    BY <1>1, <1>2, <2>1
  <2>3. QED
    BY <2>2 DEF AccountedNext, SettledNext, ReadsAccounted, Accounted, HasSettled
<1>4. AccountedNext(conf')
  <2>1. CASE Replace(q)
    <3>1. PICK m \in CarryMaps(q) : conf' = LedgerAfter(q, m)
      BY <2>1 DEF Replace
    <3>2. Accounted(LedgerAfter(q, m))
      BY LedgerAfterAccounted DEF NoFabricatedConfirmation, ReadsAccounted
    <3>3. QED
      BY <3>1, <3>2, AccountedStable
  <2>2. CASE UpdateRisk(q)
    <3>1. PICK s \in row[q] :
            conf' = [x \in Rows |-> IF x = s /\ loaded[q] # want[q]
                                    THEN want[q] ELSE conf[x]]
      BY <2>2 DEF UpdateRisk
    <3>2. SettledNext(q, Key(s), want[q])
      BY <2>2, <3>1
      DEF UpdateRisk, Goto, confirmLocal, VerdictInHand, SettledNext, TypeOK
    <3>3. QED
      BY <1>1, <3>1, <3>2 DEF AccountedNext, Rows
  <2>3. CASE ~Replace(q) /\ ~UpdateRisk(q)
    <3>1. conf' = conf
      BY <2>3 DEF Begin, Step, BeginEvaluate, BeginReport, BeginConfirm,
             LoadRisks, LoadComments, ReplaceFails, SelectRisk,
             UpdateRiskFails, WriteAudit, db
    <3>2. QED
      BY <1>1, <3>1
  <2>4. QED
    BY <2>1, <2>2, <2>3
<1>5. NoFabricatedConfirmation'
  BY <1>4 DEF AccountedNext, SettledNext, NoFabricatedConfirmation, Accounted,
              HasSettled
<1>6. QED
  BY <1>3, <1>5

-----------------------------------------------------------------------------
(* Placeholders.                                                           *)

\* A call that arrives brings no placeholder.
LEMMA BeginPlaceholders ==
  ASSUME TypeOK, NoPlaceholderLeft, PlaceholdersRead, NEW q \in Call, Begin(q)
  PROVE  NoPlaceholderLeft' /\ PlaceholdersRead'
<1> USE DEF TypeOK, NoPlaceholderLeft, PlaceholdersRead, Rows, Arrive, db,
            evalLocal, confirmLocal
<1>1. CASE \E included \in Inclusions, table \in RuleTables :
             BeginEvaluate(q, included, table)
  <2>1. PICK included \in Inclusions, table \in RuleTables :
          BeginEvaluate(q, included, table)
    BY <1>1
  <2>2. \A r \in RisksOf(q, included, table) : r.rule # Placeholder
    BY RisksType, InclusionAssumption
  <2>3. QED
    BY <2>1, <2>2 DEF BeginEvaluate
<1>2. CASE \E table \in RuleTables : BeginReport(q, table)
  <2>1. PICK table \in RuleTables : BeginReport(q, table)
    BY <1>2
  <2>2. \A r \in RisksOf(q, Feature, table) : r.rule # Placeholder
    BY RisksType
  <2>3. QED
    BY <2>1, <2>2 DEF BeginReport
<1>3. CASE \E r \in Rows, verdict \in Verdict : BeginConfirm(q, r, verdict)
  BY <1>3 DEF BeginConfirm
<1>4. QED
  BY <1>1, <1>2, <1>3 DEF Begin

\* Whoever replaces rows has read every placeholder that is left.
LEMMA StepPlaceholders ==
  ASSUME TypeOK, NoPlaceholderLeft, PlaceholdersRead, NEW q \in Call, Step(q)
  PROVE  NoPlaceholderLeft' /\ PlaceholdersRead'
<1> USE DEF TypeOK, NoPlaceholderLeft, PlaceholdersRead, Rows, Goto, db,
            evalLocal, confirmLocal
<1>1. CASE LoadRisks(q)
  BY <1>1 DEF LoadRisks
<1>2. CASE LoadComments(q)
  BY <1>2 DEF LoadComments
<1>3. CASE Replace(q)
  <2>1. DOMAIN conf' = Survivors(q) \cup fresh[q]
    BY <1>3 DEF Replace, LedgerAfter
  <2>2. pc[q] = "replace"
    BY <1>3 DEF Replace, SaveRoute
  <2>3. \A r \in DOMAIN conf' : r.rule # Placeholder
    BY <2>1, <2>2 DEF Survivors
  <2>4. QED
    BY <1>3, <2>3 DEF Replace, SaveRoute, ForgetEvaluation
<1>4. CASE ReplaceFails(q)
  BY <1>4 DEF ReplaceFails, ForgetEvaluation
<1>5. CASE SelectRisk(q)
  BY <1>5 DEF SelectRisk
<1>6. CASE UpdateRisk(q)
  BY <1>6 DEF UpdateRisk
<1>7. CASE UpdateRiskFails(q)
  BY <1>7 DEF UpdateRiskFails
<1>8. CASE WriteAudit(q)
  BY <1>8 DEF WriteAudit
<1>9. QED
  BY <1>1, <1>2, <1>3, <1>4, <1>5, <1>6, <1>7, <1>8 DEF Step

-----------------------------------------------------------------------------
(* The inductive invariant.                                                *)

LEMMA InitLedgerInv == Init => LedgerInv
<1> SUFFICES ASSUME Init PROVE LedgerInv
  OBVIOUS
<1> USE LedgerBoundAssumption DEF Init
<1>1. \A r \in DOMAIN conf : r \in Row /\ conf[r] = Unconfirmed
  BY DEF StoredRows
<1>2. TypeOK
  BY <1>1 DEF TypeOK, IsLedger, NoRows
<1>3. NoFabricatedConfirmation /\ ReadsAccounted
  BY <1>1 DEF NoFabricatedConfirmation, ReadsAccounted, Accounted, NoRows
<1>4. NoPlaceholderLeft /\ VerdictInHand /\ PlaceholdersRead
  BY DEF NoPlaceholderLeft, VerdictInHand, PlaceholdersRead
<1>5. QED
  BY <1>2, <1>3, <1>4 DEF LedgerInv

\* A confirmation keeps its verdict until it is through.
LEMMA VerdictStep ==
  ASSUME TypeOK, VerdictInHand, NEW q \in Call, Begin(q) \/ Step(q)
  PROVE  VerdictInHand'
<1> USE DEF TypeOK, VerdictInHand, Arrive, Goto, db, evalLocal, confirmLocal
<1>1. CASE Begin(q)
  BY <1>1 DEF Begin, BeginEvaluate, BeginReport, BeginConfirm
<1>2. CASE Step(q)
  BY <1>2 DEF Step, LoadRisks, LoadComments, Replace, ReplaceFails,
              SelectRisk, UpdateRisk, UpdateRiskFails, WriteAudit, SaveRoute,
              ForgetEvaluation
<1>3. QED
  BY <1>1, <1>2

LEMMA NextLedgerInv == LedgerInv /\ [Next]_vars => LedgerInv'
<1> SUFFICES ASSUME LedgerInv, [Next]_vars PROVE LedgerInv'
  OBVIOUS
<1> USE DEF LedgerInv
<1>1. CASE Next
  <2>1. PICK q \in Call : Begin(q) \/ Step(q)
    BY <1>1 DEF Next
  <2>2. TypeOK'
    BY <2>1, BeginType, StepType
  <2>3. NoFabricatedConfirmation' /\ ReadsAccounted'
    BY <2>1, AccountedStep
  <2>4. NoPlaceholderLeft' /\ PlaceholdersRead'
    BY <2>1, BeginPlaceholders, StepPlaceholders
  <2>5. VerdictInHand'
    BY <2>1, VerdictStep
  <2>6. QED
    BY <2>2, <2>3, <2>4, <2>5
<1>2. CASE UNCHANGED vars
  BY <1>2 DEF vars, TypeOK, IsLedger, NoFabricatedConfirmation,
     NoPlaceholderLeft, VerdictInHand, ReadsAccounted, PlaceholdersRead,
     Accounted, HasSettled, Rows
<1>3. QED
  BY <1>1, <1>2

\* The calls rely on what they have read and on each other in every state.
THEOREM SpecLedgerInv == Spec => []LedgerInv
  BY InitLedgerInv, NextLedgerInv, PTL DEF Spec

\* The database and the handlers hold values of the right kind.
THEOREM SpecTypeOK == Spec => []TypeOK
<1>1. LedgerInv => TypeOK
  BY DEF LedgerInv
<1>2. QED
  BY <1>1, SpecLedgerInv, PTL

\* No confirmation is ever made up, however evaluations, reports and
\* confirmations interleave (update_route, confirm_route_risk).
THEOREM SpecNoFabricatedConfirmation == Spec => []NoFabricatedConfirmation
<1>1. LedgerInv => NoFabricatedConfirmation
  BY DEF LedgerInv
<1>2. QED
  BY <1>1, SpecLedgerInv, PTL

\* No bare feature row is left once the candidate has been evaluated.
THEOREM SpecNoPlaceholderLeft == Spec => []NoPlaceholderLeft
<1>1. LedgerInv => NoPlaceholderLeft
  BY DEF LedgerInv
<1>2. QED
  BY <1>1, SpecLedgerInv, PTL

-----------------------------------------------------------------------------
(* Features.                                                               *)

\* There are finitely many rows.
LEMMA RowFinite == IsFiniteSet(Row)
<1> DEFINE G == Call \cup {Generated}
           F == Feature \cup {NoFeature}
           R == Rule \cup {Placeholder}
           C == 1..MaxCopies
           P == (G \X F) \X (R \X C)
           f == [p \in P |-> [by |-> p[1][1], feature |-> p[1][2],
                              rule |-> p[2][1], copy |-> p[2][2]]]
<1>1. IsFiniteSet(G) /\ IsFiniteSet(F) /\ IsFiniteSet(R)
  BY FS_AddElement, CallAssumption, FeatureAssumption, RuleAssumption
<1>2. IsFiniteSet(C)
  BY FS_Interval, LedgerBoundAssumption
<1>3. IsFiniteSet(G \X F) /\ IsFiniteSet(R \X C)
  BY <1>1, <1>2, FS_Product
<1>4. IsFiniteSet(P)
  BY <1>3, FS_Product
<1>5. f \in Surjection(P, Row)
  <2>1. f \in [P -> Row]
    BY DEF Row
  <2>2. ASSUME NEW r \in Row PROVE \E p \in P : f[p] = r
    <3>1. <<<<r.by, r.feature>>, <<r.rule, r.copy>>>> \in P
      BY DEF Row
    <3>2. f[<<<<r.by, r.feature>>, <<r.rule, r.copy>>>>] = r
      BY <3>1 DEF Row
    <3>3. QED
      BY <3>1, <3>2
  <2>3. QED
    BY <2>1, <2>2 DEF Surjection
<1>6. QED
  BY <1>4, <1>5, FS_Surjection

\* A feature that has a row meets a rule, so an evaluation that includes it
\* computes a risk for it.
LEMMA RisksCover ==
  ASSUME TypeOK, NEW q \in Call, NEW table \in RuleTables,
         NEW included \in SUBSET Feature, NEW f \in included,
         \E r \in Rows : r.feature = f
  PROVE  \E r \in RisksOf(q, included, table) : r.feature = f
<1> DEFINE S == {r \in Rows : r.feature = f}
<1>1. S # {}
  OBVIOUS
<1>2. IsFiniteSet(S)
  BY RowFinite, FS_Subset DEF TypeOK, IsLedger, Rows
<1>3. Cardinality(S) \in Nat /\ Cardinality(S) # 0
  BY <1>1, <1>2, FS_CardinalityType, FS_EmptySet
<1>4. PICK rule \in table[f] : rule \in Rule
  BY TableAssumption
<1>5. 1 \in 1..MaxCopies /\ 1 <= Occurrences(f)
  BY <1>3, LedgerBoundAssumption DEF Occurrences
<1>6. [by |-> q, feature |-> f, rule |-> rule, copy |-> 1]
        \in RisksOf(q, included, table)
  BY <1>4, <1>5 DEF RisksOf
<1>7. QED
  BY <1>6

\* The features no choice of sources leaves out.
AlwaysIncluded == {f \in Feature : \A included \in Inclusions : f \in included}

FeaturesStay == \A f \in AlwaysIncluded : \E r \in Rows : r.feature = f

\* What an evaluation under way is going to insert has them all: it computed
\* them from the rows of some moment, and every moment had them.
FeaturesInHand ==
  \A q \in Call : pc[q] \in {"load_risks", "load_comments", "replace"} =>
    \A f \in AlwaysIncluded : \E r \in fresh[q] : r.feature = f

LEMMA InitFeatures == Init => FeaturesStay /\ FeaturesInHand
<1> SUFFICES ASSUME Init PROVE FeaturesStay /\ FeaturesInHand
  OBVIOUS
<1>1. ASSUME NEW f \in Feature PROVE \E r \in Rows : r.feature = f
  <2>1. [by |-> Generated, feature |-> f, rule |-> Placeholder, copy |-> 1]
          \in Rows
    BY LedgerBoundAssumption DEF Init, StoredRows, Rows, Row
  <2>2. QED
    BY <2>1
<1>2. QED
  BY <1>1 DEF FeaturesStay, FeaturesInHand, AlwaysIncluded, Init

LEMMA NextFeatures ==
  ASSUME TypeOK, FeaturesStay, FeaturesInHand, [Next]_vars
  PROVE  FeaturesStay' /\ FeaturesInHand'
<1> USE DEF TypeOK, FeaturesStay, FeaturesInHand, Rows, Arrive, Goto, db,
            evalLocal, confirmLocal
<1>1. ASSUME NEW q \in Call, Begin(q)
      PROVE  FeaturesStay' /\ FeaturesInHand'
  <2>1. CASE \E included \in Inclusions \cup {Feature}, table \in RuleTables :
               \/ BeginEvaluate(q, included, table)
               \/ included = Feature /\ BeginReport(q, table)
    <3>1. PICK included \in Inclusions \cup {Feature}, table \in RuleTables :
            \/ BeginEvaluate(q, included, table)
            \/ included = Feature /\ BeginReport(q, table)
      BY <2>1
    <3>2. included \in SUBSET Feature /\ AlwaysIncluded \subseteq included
      BY InclusionAssumption DEF AlwaysIncluded
    <3>3. \A f \in AlwaysIncluded :
            \E r \in RisksOf(q, included, table) : r.feature = f
      BY <3>2, RisksCover
    <3>4. QED
      BY <3>1, <3>3 DEF BeginEvaluate, BeginReport
  <2>2. CASE \E r \in Rows, verdict \in Verdict : BeginConfirm(q, r, verdict)
    BY <2>2 DEF BeginConfirm
  <2>3. QED
    BY <1>1, <2>1, <2>2 DEF Begin
<1>2. ASSUME NEW q \in Call, Step(q)
      PROVE  FeaturesStay' /\ FeaturesInHand'
  <2>1. CASE Replace(q)
    <3>1. DOMAIN conf' = Survivors(q) \cup fresh[q]
      BY <2>1 DEF Replace, LedgerAfter
    <3>2. \A f \in AlwaysIncluded : \E r \in fresh[q] : r.feature = f
      BY <2>1 DEF Replace, SaveRoute
    <3>3. QED
      BY <2>1, <3>1, <3>2 DEF Replace, SaveRoute, ForgetEvaluation
  <2>2. CASE ~Replace(q)
    <3>1. DOMAIN conf' = DOMAIN conf
      BY <1>2, <2>2 DEF Step, LoadRisks, LoadComments, ReplaceFails,
             SelectRisk, UpdateRisk, UpdateRiskFails, WriteAudit
    <3>2. FeaturesInHand'
      BY <1>2, <2>2 DEF Step, LoadRisks, LoadComments, ReplaceFails,
             SelectRisk, UpdateRisk, UpdateRiskFails, WriteAudit,
             ForgetEvaluation
    <3>3. QED
      BY <3>1, <3>2
  <2>3. QED
    BY <2>1, <2>2
<1>3. CASE UNCHANGED vars
  BY <1>3 DEF vars
<1>4. QED
  BY <1>1, <1>2, <1>3 DEF Next

\* An evaluation loses a feature only by leaving its source out: what every
\* choice of sources includes stays with the candidate, although each
\* evaluation rebuilds the features from the rows it replaces, and however
\* evaluations, reports and confirmations overlap.
THEOREM SpecFeaturesStay == Spec => []FeaturesStay
<1>1. TypeOK /\ FeaturesStay /\ FeaturesInHand /\ [Next]_vars
        => FeaturesStay' /\ FeaturesInHand'
  BY NextFeatures
<1>2. QED
  BY <1>1, InitFeatures, SpecTypeOK, PTL DEF Spec

\* So where evaluations include every source no feature is ever lost.
THEOREM SpecNoFeatureLost ==
  Inclusions = {Feature} => (Spec => []NoFeatureLost)
<1> SUFFICES ASSUME Inclusions = {Feature} PROVE Spec => []NoFeatureLost
  OBVIOUS
<1>1. FeaturesStay => NoFeatureLost
  BY DEF FeaturesStay, NoFeatureLost, AlwaysIncluded
<1>2. QED
  BY <1>1, SpecFeaturesStay, PTL

-----------------------------------------------------------------------------
(* Who commits between two steps of a call.                                *)

\* An evaluation, a report or a confirmation commits.
Commits(q) == pc[q] \in {"replace", "update_risk"} /\ pc'[q] \in {"audit", "done"}

\* Between the two reads of an evaluation no other evaluation commits.
ReadTogether ==
  \A p, q \in Call : pc[q] = "load_comments" /\ pc[p] = "replace" => ~Commits(p)

\* Nor does one between the first read of an evaluation and its commit.
EvaluationsApart ==
  \A p, q \in Call :
    p # q /\ pc[q] \in {"load_comments", "replace"} /\ pc[p] = "replace" => ~Commits(p)

\* Nor does a confirmation, unless foreign keys are checked and it comes after
\* the second read: then its comment makes the commit of the evaluation fail.
ConfirmationsApart ==
  \A p, q \in Call :
    pc[q] \in {"load_comments", "replace"} /\ pc[p] = "update_risk" =>
      ~Commits(p) \/ (enforceFK /\ pc[q] = "replace")

\* A step of a call leaves what the others hold alone.
LEMMA OthersAlone ==
  ASSUME TypeOK, NEW q \in Call, Begin(q) \/ Step(q), NEW p \in Call, p # q
  PROVE  /\ pc'[p] = pc[p] /\ fresh'[p] = fresh[p]
         /\ base'[p] = base[p] /\ baseComments'[p] = baseComments[p]
         /\ row'[p] = row[p] /\ loaded'[p] = loaded[p] /\ want'[p] = want[p]
<1> USE DEF TypeOK, Arrive, Goto, evalLocal, confirmLocal
<1>1. CASE Begin(q)
  BY <1>1 DEF Begin, BeginEvaluate, BeginReport, BeginConfirm
<1>2. CASE Step(q)
  BY <1>2 DEF Step, LoadRisks, LoadComments, Replace, ReplaceFails, SelectRisk,
     UpdateRisk, UpdateRiskFails, WriteAudit, SaveRoute, ForgetEvaluation
<1> QED
  BY <1>1, <1>2

\* Only two steps write rows or comments, and both commit.
LEMMA Writers ==
  ASSUME TypeOK, NEW q \in Call, Begin(q) \/ Step(q)
  PROVE  \/ Replace(q) /\ pc[q] = "replace" /\ Commits(q)
         \/ UpdateRisk(q) /\ pc[q] = "update_risk" /\ Commits(q) /\ Rows' = Rows
         \/ ~Replace(q) /\ ~UpdateRisk(q) /\ conf' = conf /\ comments' = comments
<1>1. CASE Replace(q)
  BY <1>1 DEF Replace, SaveRoute, Goto, Commits, TypeOK
<1>2. CASE UpdateRisk(q)
  BY <1>2 DEF UpdateRisk, Goto, Commits, TypeOK, Rows
<1>3. CASE ~Replace(q) /\ ~UpdateRisk(q)
  BY <1>3 DEF Begin, Step, BeginEvaluate, BeginReport, BeginConfirm, LoadRisks,
     LoadComments, ReplaceFails, SelectRisk, UpdateRiskFails, WriteAudit, db
<1> QED
  BY <1>1, <1>2, <1>3

\* Where the system runs and what was stored at first does not change.
LEMMA GivenStays ==
  ASSUME NEW q \in Call, Begin(q) \/ Step(q)
  PROVE  enforceFK' = enforceFK /\ stored' = stored
  BY DEF Begin, Step, BeginEvaluate, BeginReport, BeginConfirm, LoadRisks, LoadComments,
     Replace, ReplaceFails, SelectRisk, UpdateRisk, UpdateRiskFails, WriteAudit, SaveRoute,
     given, db

\* An evaluation comes from its first read to its second, and from there to
\* its commit; a confirmation from one SELECT to the next.
LEMMA Readers ==
  ASSUME TypeOK, NEW q \in Call, Begin(q) \/ Step(q)
  PROVE  /\ pc'[q] = "load_comments" => LoadRisks(q)
         /\ pc'[q] = "replace" => LoadComments(q)
         /\ pc'[q] = "select_risk" =>
              \E r \in Rows, verdict \in Verdict : BeginConfirm(q, r, verdict)
         /\ pc'[q] = "update_risk" => SelectRisk(q)
<1> USE DEF TypeOK, Arrive, Goto
<1>1. CASE Begin(q)
  BY <1>1 DEF Begin, BeginEvaluate, BeginReport, BeginConfirm
<1>2. CASE Step(q)
  BY <1>2 DEF Step, LoadRisks, LoadComments, Replace, ReplaceFails, SelectRisk,
     UpdateRisk, UpdateRiskFails, WriteAudit, SaveRoute
<1> QED
  BY <1>1, <1>2

-----------------------------------------------------------------------------
(* One call at a time.                                                     *)

OneAtATime == \A p, q \in Call : pc[p] \in Active /\ pc[q] \in Active => p = q

\* A call that arrives finds nobody else, and a step is one of the only call.
LEMMA OnlyCall ==
  ASSUME MaxInFlight = 1, TypeOK, OneAtATime, NEW q \in Call, Begin(q) \/ Step(q)
  PROVE  \A p \in Call \ {q} : pc[p] \notin Active /\ pc'[p] = pc[p]
<1>1. CASE Begin(q)
  <2> DEFINE S == {p \in Call : pc[p] \in Active}
  <2>1. Cardinality(S) < 1
    BY <1>1 DEF Begin, BeginEvaluate, BeginReport, BeginConfirm, Arrive
  <2>2. IsFiniteSet(S)
    BY CallAssumption, FS_Subset
  <2>3. S = {}
    <3> HIDE DEF S
    <3> QED
      BY <2>1, <2>2, FS_CardinalityType, FS_EmptySet
  <2> QED
    BY <2>3, OthersAlone
<1>2. CASE Step(q)
  <2>1. pc[q] \in Active
    BY <1>2 DEF Step, LoadRisks, LoadComments, Replace, ReplaceFails, SelectRisk,
           UpdateRisk, UpdateRiskFails, WriteAudit, SaveRoute, Goto, Active
  <2> QED
    BY <2>1, OthersAlone DEF OneAtATime
<1> QED
  BY <1>1, <1>2

\* One call at a time, nobody commits between two steps of a call.
LEMMA SerialApart ==
  MaxInFlight = 1 =>
    (Spec => [][ReadTogether /\ EvaluationsApart /\ ConfirmationsApart]_vars)
<1> SUFFICES ASSUME MaxInFlight = 1
             PROVE  Spec => [][ReadTogether /\ EvaluationsApart /\ ConfirmationsApart]_vars
  OBVIOUS
<1>1. Init => OneAtATime
  BY DEF Init, OneAtATime, Active
<1>2. TypeOK /\ OneAtATime /\ [Next]_vars => OneAtATime'
  <2>1. ASSUME TypeOK, OneAtATime, Next PROVE OneAtATime'
    <3>1. PICK q \in Call : Begin(q) \/ Step(q)
      BY <2>1 DEF Next
    <3>2. \A p \in Call \ {q} : pc'[p] \notin Active
      BY <2>1, <3>1, OnlyCall
    <3> QED
      BY <3>2 DEF OneAtATime
  <2>2. ASSUME OneAtATime, UNCHANGED vars PROVE OneAtATime'
    BY <2>2 DEF OneAtATime, vars
  <2> QED
    BY <2>1, <2>2
<1>3. OneAtATime =>
        [ReadTogether /\ EvaluationsApart /\ ConfirmationsApart]_vars
  <2> SUFFICES ASSUME OneAtATime
               PROVE  ReadTogether /\ EvaluationsApart /\ ConfirmationsApart
    OBVIOUS
  <2>1. \A p, q \in Call : /\ pc[p] \in {"replace", "update_risk"}
                           /\ pc[q] \in {"load_comments", "replace", "update_risk"}
                           => p = q
    BY DEF OneAtATime, Active
  <2> QED
    BY <2>1 DEF ReadTogether, EvaluationsApart, ConfirmationsApart, Commits
<1> QED
  BY <1>1, <1>2, <1>3, SpecTypeOK, PTL DEF Spec

-----------------------------------------------------------------------------
(* Confirmations that survive.                                             *)

\* What an evaluation has read, nobody has changed since; or a comment was
\* added that makes its commit fail.
ReadsCurrent ==
  \A q \in Call :
    /\ pc[q] = "load_comments" => base[q] = conf
    /\ pc[q] = "replace" => base[q] = conf \/ (enforceFK /\ BlockedByComment(q))

\* The comments there are, and those read, are of calls that have committed.
CommentsCommitted ==
  /\ \A c \in comments : pc[c.by] \in {"audit", "done"}
  /\ \A q \in Call : \A c \in baseComments[q] : pc[c.by] \in {"audit", "done"}

\* A call that has committed stays so.
LEMMA CommittedStays ==
  ASSUME TypeOK, NEW q \in Call, Begin(q) \/ Step(q),
         NEW p \in Call, pc[p] \in {"audit", "done"}
  PROVE  pc'[p] \in {"audit", "done"}
<1> USE DEF TypeOK, Arrive, Goto
<1>1. CASE p # q
  BY <1>1, OthersAlone
<1>2. CASE p = q /\ Begin(q)
  BY <1>2 DEF Begin, BeginEvaluate, BeginReport, BeginConfirm
<1>3. CASE p = q /\ Step(q)
  BY <1>3 DEF Step, LoadRisks, LoadComments, Replace, ReplaceFails, SelectRisk,
     UpdateRisk, UpdateRiskFails, WriteAudit, SaveRoute
<1> QED
  BY <1>1, <1>2, <1>3

LEMMA CommentsCommittedStep ==
  ASSUME TypeOK, TypeOK', CommentsCommitted, NEW q \in Call, Begin(q) \/ Step(q)
  PROVE  CommentsCommitted'
<1>1. \A c \in comments : pc'[c.by] \in {"audit", "done"}
  <2>1. \A c \in comments : c.by \in Call
    BY DEF TypeOK, Comment
  <2> QED
    BY <2>1, CommittedStays DEF CommentsCommitted
<1>2. \A p \in Call : \A c \in baseComments[p] : pc'[c.by] \in {"audit", "done"}
  <2>1. \A p \in Call : \A c \in baseComments[p] : c.by \in Call
    BY DEF TypeOK, Comment
  <2> QED
    BY <2>1, CommittedStays DEF CommentsCommitted
<1>3. \A c \in comments' : c \in comments \/ (c.by = q /\ pc'[q] \in {"audit", "done"})
  <2>1. CASE Replace(q)
    <3>1. pc'[q] \in {"audit", "done"}
      BY <2>1, Writers DEF Commits, UpdateRisk, Goto
    <3> QED
      BY <2>1, <3>1 DEF Replace, CommentsCarried
  <2>2. CASE UpdateRisk(q)
    <3>1. pc'[q] \in {"audit", "done"}
      BY <2>2 DEF UpdateRisk, Goto, TypeOK
    <3> QED
      BY <2>2, <3>1 DEF UpdateRisk
  <2>3. CASE comments' = comments
    BY <2>3
  <2> QED
    BY <2>1, <2>2, <2>3, Writers
<1>4. \A p \in Call : \A c \in baseComments'[p] : c \in baseComments[p] \/ c \in comments
  <2>1. \A p \in Call \ {q} : baseComments'[p] = baseComments[p]
    BY OthersAlone
  <2>2. baseComments'[q] = baseComments[q] \/ baseComments'[q] \subseteq comments
    <3>1. CASE Begin(q)
      BY <3>1 DEF Begin, BeginEvaluate, BeginReport, BeginConfirm, evalLocal
    <3>2. CASE Step(q)
      BY <3>2 DEF Step, LoadRisks, LoadComments, Replace, ReplaceFails, SelectRisk,
         UpdateRisk, UpdateRiskFails, WriteAudit, SaveRoute, ForgetEvaluation, evalLocal,
         TypeOK
    <3> QED
      BY <3>1, <3>2
  <2> QED
    BY <2>1, <2>2
<1> QED
  BY <1>1, <1>2, <1>3, <1>4 DEF CommentsCommitted

\* A comment added after the second read blocks the commit.
LEMMA CommentBlocks ==
  ASSUME TypeOK, CommentsCommitted, enforceFK, NEW q \in Call, NEW p \in Call,
         p # q, UpdateRisk(p), base[q] = conf \/ BlockedByComment(q)
  PROVE  BlockedByComment(q)'
<1>1. PICK r \in row[p] :
        /\ r \in Rows
        /\ comments' = comments \cup {[row |-> r, by |-> p, result |-> want[p]]}
  BY DEF UpdateRisk
<1>2. Rows' = Rows /\ base' = base /\ baseComments' = baseComments
  BY DEF UpdateRisk, Rows, evalLocal
<1>3. CASE base[q] = conf
  <2> DEFINE c == [row |-> r, by |-> p, result |-> want[p]]
  <2>1. c \notin baseComments[q]
    <3>1. c.by = p /\ pc[p] = "update_risk"
      BY DEF UpdateRisk, Goto
    <3> QED
      BY <3>1 DEF CommentsCommitted
  <2>2. c \in comments' /\ c.row \in DOMAIN base[q] \cap Rows
    BY <1>1, <1>3 DEF Rows
  <2> HIDE DEF c
  <2> QED
    BY <1>2, <2>1, <2>2 DEF BlockedByComment
<1>4. CASE BlockedByComment(q)
  BY <1>1, <1>2, <1>4 DEF BlockedByComment
<1> QED
  BY <1>3, <1>4

LEMMA ReadsCurrentStep ==
  ASSUME TypeOK, ReadsCurrent, CommentsCommitted, NEW q \in Call, Begin(q) \/ Step(q),
         EvaluationsApart, ConfirmationsApart
  PROVE  ReadsCurrent'
<1>1. ASSUME NEW p \in Call, p # q, pc'[p] \in {"load_comments", "replace"}
      PROVE  /\ pc'[p] = "load_comments" => base'[p] = conf'
             /\ pc'[p] = "replace" =>
                  base'[p] = conf' \/ (enforceFK /\ BlockedByComment(p)')
  <2>1. /\ pc'[p] = pc[p] /\ base'[p] = base[p]
        /\ baseComments'[p] = baseComments[p]
    BY <1>1, OthersAlone
  <2>2. ~(Replace(q) /\ Commits(q) /\ pc[q] = "replace")
    BY <1>1, <2>1 DEF EvaluationsApart
  <2>3. CASE UpdateRisk(q) /\ Commits(q) /\ pc[q] = "update_risk"
    <3>1. enforceFK /\ pc[p] = "replace"
      BY <1>1, <2>1, <2>3 DEF ConfirmationsApart
    <3>2. BlockedByComment(p)'
      BY <1>1, <2>3, <3>1, CommentBlocks DEF ReadsCurrent
    <3> QED
      BY <2>1, <3>1, <3>2
  <2>4. CASE conf' = conf /\ comments' = comments
    BY <2>1, <2>4, GivenStays DEF ReadsCurrent, BlockedByComment, Rows
  <2> QED
    BY <2>2, <2>3, <2>4, Writers
<1>2. /\ pc'[q] = "load_comments" => base'[q] = conf'
      /\ pc'[q] = "replace" => base'[q] = conf'
  <2>1. ASSUME LoadRisks(q) PROVE base'[q] = conf'
    BY <2>1 DEF LoadRisks, db, TypeOK
  <2>2. ASSUME LoadComments(q) PROVE base'[q] = conf'
    BY <2>2 DEF LoadComments, Goto, db, ReadsCurrent
  <2> QED
    BY <2>1, <2>2, Readers
<1> QED
  BY <1>1, <1>2, GivenStays DEF ReadsCurrent

\* The commit of an evaluation whose reads still hold: its rows take the place
\* of all others, and what was settled is carried over.
LEMMA CurrentReplace ==
  ASSUME NEW q \in Call, NEW m \in CarryMaps(q), base[q] = conf
  PROVE  /\ DOMAIN LedgerAfter(q, m) = fresh[q]
         /\ \A r \in fresh[q] :
              (\E s \in Rows : Key(s) = Key(r) /\ conf[s] # Unconfirmed) =>
                LedgerAfter(q, m)[r] # Unconfirmed
<1>1. Survivors(q) = {}
  BY DEF Survivors, Rows
<1>2. \A k : (\E s \in Rows : Key(s) = k /\ conf[s] # Unconfirmed) => k \in CarriedKeys(q)
  BY DEF CarriedKeys, Settled, Rows
<1>3. \A k \in CarriedKeys(q) : base[q][m[k]] # Unconfirmed
  BY DEF CarryMaps, Settled
<1> QED
  BY <1>1, <1>2, <1>3 DEF LedgerAfter, Carried

\* A risk that is still reported stays looked at, if no other call commits
\* while update_route is between its first read and its commit; on PostgreSQL a
\* confirmation may, once the comments are read (_confirmation_carry_map).
THEOREM ApartConfirmationSurvives ==
  Spec /\ [][EvaluationsApart /\ ConfirmationsApart]_vars => ConfirmationSurvives
<1> DEFINE Apart2 == EvaluationsApart /\ ConfirmationsApart
           Survives ==
      \A k \in {Key(r) : r \in Rows \cap Row} :
        /\ \E r \in Rows : Key(r) = k /\ conf[r] # Unconfirmed
        /\ \E r \in Rows' : Key(r) = k
        => \E r \in Rows' : Key(r) = k /\ conf'[r] # Unconfirmed
<1>1. Init => ReadsCurrent /\ CommentsCommitted
  BY DEF Init, ReadsCurrent, CommentsCommitted
<1>2. ASSUME TypeOK, TypeOK', ReadsCurrent, CommentsCommitted, [Next]_vars, [Apart2]_vars
      PROVE  ReadsCurrent' /\ CommentsCommitted'
  <2>1. CASE Next /\ Apart2
    BY <1>2, <2>1, ReadsCurrentStep, CommentsCommittedStep DEF Next
  <2>2. CASE UNCHANGED vars
    BY <1>2, <2>2 DEF vars, ReadsCurrent, CommentsCommitted, BlockedByComment, Rows
  <2> QED
    BY <1>2, <2>1, <2>2
<1>3. ASSUME LedgerInv, ReadsCurrent, [Next]_vars PROVE Survives
  <2>1. SUFFICES ASSUME NEW k, NEW s \in Rows, Key(s) = k, conf[s] # Unconfirmed,
                        NEW t \in Rows', Key(t) = k
                 PROVE  \E r \in Rows' : Key(r) = k /\ conf'[r] # Unconfirmed
    OBVIOUS
  <2>2. ASSUME NEW q \in Call, Replace(q)
        PROVE  \E r \in Rows' : Key(r) = k /\ conf'[r] # Unconfirmed
    <3>1. PICK m \in CarryMaps(q) : conf' = LedgerAfter(q, m)
      BY <2>2 DEF Replace
    <3>2. base[q] = conf
      BY <1>3, <2>2 DEF Replace, SaveRoute, Goto, ReadsCurrent
    <3>3. Rows' = fresh[q] /\ conf'[t] # Unconfirmed
      BY <2>1, <3>1, <3>2, CurrentReplace DEF Rows
    <3> QED
      BY <2>1, <3>3
  <2>3. ASSUME NEW q \in Call, UpdateRisk(q)
        PROVE  \E r \in Rows' : Key(r) = k /\ conf'[r] # Unconfirmed
    <3>1. Rows' = Rows /\ conf'[s] \in {conf[s], want[q]}
      BY <2>3 DEF UpdateRisk, Rows
    <3>2. want[q] # Unconfirmed
      BY <1>3, <2>3, VerdictAssumption DEF LedgerInv, VerdictInHand, UpdateRisk, Goto
    <3> QED
      BY <2>1, <3>1, <3>2
  <2>4. CASE conf' = conf
    BY <2>1, <2>4 DEF Rows
  <2>5. \/ \E q \in Call : Replace(q) \/ UpdateRisk(q)
        \/ conf' = conf
    BY <1>3, Writers DEF Next, vars, LedgerInv
  <2> QED
    BY <2>2, <2>3, <2>4, <2>5
<1>4. LedgerInv /\ ReadsCurrent /\ [Next]_vars => [Survives]_vars
  BY <1>3
<1> QED
  BY <1>1, <1>2, <1>4, SpecTypeOK, SpecLedgerInv, PTL DEF Spec, ConfirmationSurvives

\* One call at a time, a risk that is still reported stays looked at.
THEOREM SpecConfirmationSurvives ==
  MaxInFlight = 1 => (Spec => ConfirmationSurvives)
<1> SUFFICES ASSUME MaxInFlight = 1 PROVE Spec => ConfirmationSurvives
  OBVIOUS
<1>1. Spec => [][ReadTogether /\ EvaluationsApart /\ ConfirmationsApart]_vars
  BY SerialApart
<1>2. [ReadTogether /\ EvaluationsApart /\ ConfirmationsApart]_vars
        => [EvaluationsApart /\ ConfirmationsApart]_vars
  OBVIOUS
<1> QED
  BY <1>1, <1>2, ApartConfirmationSurvives, PTL

-----------------------------------------------------------------------------
(* Comments that go with the confirmations.                                *)

\* What an evaluation has read is as well commented as the database: by the
\* comments there are, and once it has read them by those it has read.
ReadsCommented ==
  \A q \in Call :
    /\ pc[q] # "replace" => baseComments[q] = {}
    /\ \A c \in baseComments[q] : c.row \in DOMAIN base[q]
    /\ pc[q] = "load_comments" => \A s \in Settled(q) : \E c \in comments : c.row = s
    /\ pc[q] = "replace" => \A s \in Settled(q) : \E c \in baseComments[q] : c.row = s

LEMMA ReadsCommentedStep ==
  ASSUME TypeOK, ReadsCommented, ConfirmedHasComment, NEW q \in Call,
         Begin(q) \/ Step(q), ReadTogether
  PROVE  ReadsCommented'
<1> USE DEF Settled
<1>1. ASSUME NEW p \in Call, p # q
      PROVE  /\ pc'[p] # "replace" => baseComments'[p] = {}
             /\ \A c \in baseComments'[p] : c.row \in DOMAIN base'[p]
             /\ pc'[p] = "load_comments" =>
                  \A s \in Settled(p)' : \E c \in comments' : c.row = s
             /\ pc'[p] = "replace" =>
                  \A s \in Settled(p)' : \E c \in baseComments'[p] : c.row = s
  <2>1. pc'[p] = pc[p] /\ base'[p] = base[p] /\ baseComments'[p] = baseComments[p]
    BY <1>1, OthersAlone
  <2>2. pc[p] = "load_comments" => comments \subseteq comments'
    <3>1. CASE Commits(q) /\ pc[q] = "replace"
      BY <3>1 DEF ReadTogether
    <3>2. CASE UpdateRisk(q)
      BY <3>2 DEF UpdateRisk
    <3>3. CASE comments' = comments
      BY <3>3
    <3> QED
      BY <3>1, <3>2, <3>3, Writers
  <2> QED
    BY <2>1, <2>2 DEF ReadsCommented
<1>2. CASE LoadRisks(q)
  <2>1. /\ pc'[q] = "load_comments" /\ baseComments'[q] = {}
        /\ base'[q] = conf /\ comments' = comments
    BY <1>2 DEF LoadRisks, Goto, db, TypeOK, ReadsCommented
  <2> QED
    BY <1>1, <2>1 DEF ReadsCommented, ConfirmedHasComment, Rows
<1>3. CASE LoadComments(q)
  <2>1. /\ pc[q] = "load_comments" /\ pc'[q] = "replace" /\ base' = base
        /\ baseComments'[q] = {c \in comments : c.row \in DOMAIN base[q]}
    BY <1>3 DEF LoadComments, Goto, TypeOK
  <2> QED
    BY <1>1, <2>1 DEF ReadsCommented
<1>4. CASE ~LoadRisks(q) /\ ~LoadComments(q)
  <2>1. pc'[q] \notin {"load_comments", "replace"}
    BY <1>4, Readers
  <2>2. baseComments'[q] = {}
    <3>1. CASE Begin(q)
      BY <3>1 DEF Begin, BeginEvaluate, BeginReport, BeginConfirm, Arrive, evalLocal,
         ReadsCommented
    <3>2. CASE Step(q)
      BY <1>4, <3>2 DEF Step, Replace, ReplaceFails, SelectRisk, UpdateRisk,
         UpdateRiskFails, WriteAudit, SaveRoute, Goto, ForgetEvaluation, evalLocal,
         ReadsCommented, TypeOK
    <3> QED
      BY <3>1, <3>2
  <2> QED
    BY <1>1, <2>1, <2>2 DEF ReadsCommented
<1> QED
  BY <1>2, <1>3, <1>4

LEMMA CommentedStep ==
  ASSUME TypeOK, ReadsCommented, ConfirmedHasComment, NEW q \in Call,
         Begin(q) \/ Step(q)
  PROVE  ConfirmedHasComment'
<1>1. SUFFICES ASSUME NEW r \in Rows', conf'[r] # Unconfirmed
               PROVE  \E c \in comments' : c.row = r /\ c.result = conf'[r]
  BY DEF ConfirmedHasComment
<1>2. CASE Replace(q)
  <2>1. PICK m \in CarryMaps(q) :
          /\ conf' = LedgerAfter(q, m)
          /\ comments' = (comments \ baseComments[q]) \cup CommentsCarried(q, m)
    BY <1>2 DEF Replace
  <2>2. pc[q] = "replace"
    BY <1>2 DEF Replace, SaveRoute, Goto
  <2>3. CASE r \in Carried(q)
    <3> DEFINE s == m[Key(r)]
    <3>1. s \in Settled(q) /\ conf'[r] = base[q][s]
      BY <2>1, <2>3 DEF LedgerAfter, Carried, CarryMaps
    <3>2. PICK c \in baseComments[q] : c.row = s
      BY <2>2, <3>1 DEF ReadsCommented
    <3>3. [row |-> r, by |-> q, result |-> base[q][s]] \in comments'
      BY <2>1, <2>3, <3>2 DEF CommentsCarried
    <3> HIDE DEF s
    <3> QED
      BY <3>1, <3>3
  <2>4. CASE r \notin Carried(q)
    <3>1. r \in Survivors(q) /\ conf'[r] = conf[r]
      BY <1>1, <2>1, <2>4 DEF LedgerAfter, Rows
    <3>2. PICK c \in comments : c.row = r /\ c.result = conf[r]
      BY <1>1, <3>1 DEF ConfirmedHasComment, Survivors
    <3>3. c \notin baseComments[q]
      BY <3>1, <3>2 DEF ReadsCommented, Survivors
    <3> QED
      BY <2>1, <3>1, <3>2, <3>3
  <2> QED
    BY <2>3, <2>4
<1>3. CASE UpdateRisk(q)
  <2>1. PICK s \in row[q] :
          /\ conf' = [x \in Rows |-> IF x = s /\ loaded[q] # want[q] THEN want[q]
                                                                   ELSE conf[x]]
          /\ comments' = comments \cup {[row |-> s, by |-> q, result |-> want[q]]}
    BY <1>3 DEF UpdateRisk
  <2>2. r \in Rows
    BY <1>1, <2>1 DEF Rows
  <2>3. CASE r = s /\ loaded[q] # want[q]
    <3>1. [row |-> s, by |-> q, result |-> want[q]] \in comments' /\ conf'[r] = want[q]
      BY <2>1, <2>2, <2>3
    <3> QED
      BY <2>3, <3>1
  <2>4. CASE ~(r = s /\ loaded[q] # want[q])
    <3>1. conf'[r] = conf[r]
      BY <2>1, <2>2, <2>4
    <3> QED
      BY <1>1, <2>1, <2>2, <3>1 DEF ConfirmedHasComment
  <2> QED
    BY <2>3, <2>4
<1>4. CASE conf' = conf /\ comments' = comments
  BY <1>1, <1>4 DEF ConfirmedHasComment, Rows
<1> QED
  BY <1>2, <1>3, <1>4, Writers

\* A risk that has been looked at has a comment that says so, also after its
\* row was replaced, if no evaluation commits between the two reads of another;
\* confirmations may overlap as they like (update_route, confirm_route_risk).
THEOREM TogetherConfirmedHasComment ==
  Spec /\ [][ReadTogether]_vars => []ConfirmedHasComment
<1>1. Init => ConfirmedHasComment /\ ReadsCommented
  BY DEF Init, ConfirmedHasComment, Rows, ReadsCommented
<1>2. TypeOK /\ ConfirmedHasComment /\ ReadsCommented /\ [Next]_vars /\ [ReadTogether]_vars
        => ConfirmedHasComment' /\ ReadsCommented'
  <2> SUFFICES ASSUME TypeOK, ConfirmedHasComment, ReadsCommented, [Next]_vars,
                      [ReadTogether]_vars
               PROVE  ConfirmedHasComment' /\ ReadsCommented'
    OBVIOUS
  <2>1. CASE Next /\ ReadTogether
    BY <2>1, CommentedStep, ReadsCommentedStep DEF Next
  <2>2. CASE UNCHANGED vars
    BY <2>2 DEF vars, ConfirmedHasComment, ReadsCommented, Settled, Rows
  <2> QED
    BY <2>1, <2>2
<1> QED
  BY <1>1, <1>2, SpecTypeOK, PTL DEF Spec

\* One call at a time, a risk that has been looked at has its comment.
THEOREM SpecConfirmedHasComment ==
  MaxInFlight = 1 => (Spec => []ConfirmedHasComment)
<1> SUFFICES ASSUME MaxInFlight = 1 PROVE Spec => []ConfirmedHasComment
  OBVIOUS
<1>1. Spec => [][ReadTogether /\ EvaluationsApart /\ ConfirmationsApart]_vars
  BY SerialApart
<1>2. [ReadTogether /\ EvaluationsApart /\ ConfirmationsApart]_vars
        => [ReadTogether]_vars
  OBVIOUS
<1> QED
  BY <1>1, <1>2, TogetherConfirmedHasComment, PTL

-----------------------------------------------------------------------------
(* What calls have not seen.                                               *)

\* Only the two commits are recorded.
LEMMA Recorded ==
  ASSUME TypeOK, NEW q \in Call, Begin(q) \/ Step(q)
  PROVE  \/ (Replace(q) \/ UpdateRisk(q)) /\ Record(q)
         \/ ~Replace(q) /\ ~UpdateRisk(q) /\ unseen' = unseen
<1>1. CASE Replace(q)
  BY <1>1 DEF Replace, SaveRoute
<1>2. CASE UpdateRisk(q)
  BY <1>2 DEF UpdateRisk
<1>3. CASE ~Replace(q) /\ ~UpdateRisk(q)
  BY <1>3 DEF Begin, Step, BeginEvaluate, BeginReport, BeginConfirm, LoadRisks,
     LoadComments, ReplaceFails, SelectRisk, UpdateRiskFails, WriteAudit
<1> QED
  BY <1>1, <1>2, <1>3

\* What a call has missed it goes on missing; once it has ended, that is all,
\* and what it asked for is fixed.
LEMMA HistoryGrows ==
  ASSUME TypeOK, NEW q \in Call, Begin(q) \/ Step(q), NEW p \in Call
  PROVE  /\ unseen[p] \subseteq unseen'[p]
         /\ p = q => unseen'[p] = unseen[p]
         /\ pc[p] \notin {"load_comments", "replace", "update_risk"} =>
              unseen'[p] = unseen[p]
         /\ pc[p] # "idle" =>
              kind'[p] = kind[p] /\ row'[p] = row[p] /\ want'[p] = want[p]
<1>1. /\ unseen[p] \subseteq unseen'[p]
      /\ p = q => unseen'[p] = unseen[p]
      /\ pc[p] \notin {"load_comments", "replace", "update_risk"} =>
           unseen'[p] = unseen[p]
  BY Recorded DEF Record, TypeOK
<1>2. ASSUME pc[p] # "idle"
      PROVE  kind'[p] = kind[p] /\ row'[p] = row[p] /\ want'[p] = want[p]
  <2> USE DEF TypeOK, Arrive, Goto, confirmLocal
  <2>1. CASE Begin(q)
    BY <1>2, <2>1 DEF Begin, BeginEvaluate, BeginReport, BeginConfirm
  <2>2. CASE Step(q)
    BY <2>2 DEF Step, LoadRisks, LoadComments, Replace, ReplaceFails, SelectRisk,
       UpdateRisk, UpdateRiskFails, WriteAudit, SaveRoute
  <2> QED
    BY <2>1, <2>2
<1> QED
  BY <1>1, <1>2

\* A commit is missed by every other call that has read and not committed.
LEMMA CommitMissed ==
  ASSUME TypeOK, NEW q \in Call, Replace(q) \/ UpdateRisk(q), NEW p \in Call, p # q,
         pc[p] \in {"load_comments", "replace", "update_risk"}
  PROVE  q \in unseen'[p]
  BY DEF Replace, SaveRoute, UpdateRisk, Record

-----------------------------------------------------------------------------
(* Where rows come from.                                                   *)

\* The rows in S were inserted by calls that have committed.
Old(S) == \A r \in S : r.by = Generated \/ Committed(r.by)

\* What is stored, read or asked about was inserted by calls that have committed,
\* what an evaluation is going to insert is new, and only commits are missed.
Provenance ==
  /\ Old(Rows)
  /\ \A q \in Call : /\ Old(DOMAIN base[q]) /\ Old(row[q])
                     /\ \A r \in fresh[q] : r.by = q
                     /\ \A p \in unseen[q] : Committed(p)

\* An evaluation evaluates, and a confirmation does not.
KindInHand ==
  \A q \in Call :
    /\ pc[q] \in {"load_risks", "load_comments", "replace"} => Evaluates(q)
    /\ pc[q] \in {"select_risk", "update_risk"} => ~Evaluates(q)

LEMMA KindInHandStep ==
  ASSUME TypeOK, KindInHand, NEW q \in Call, Begin(q) \/ Step(q)
  PROVE  KindInHand'
<1> USE DEF TypeOK, KindInHand, Evaluates, Arrive, Goto
<1>1. CASE Begin(q)
  BY <1>1 DEF Begin, BeginEvaluate, BeginReport, BeginConfirm
<1>2. CASE Step(q)
  BY <1>2 DEF Step, LoadRisks, LoadComments, Replace, ReplaceFails, SelectRisk,
     UpdateRisk, UpdateRiskFails, WriteAudit, SaveRoute
<1> QED
  BY <1>1, <1>2

\* Old rows stay old.
LEMMA OldStays ==
  ASSUME TypeOK, NEW q \in Call, Begin(q) \/ Step(q), NEW S \in SUBSET Row, Old(S)
  PROVE  \A r \in S : r.by = Generated \/ pc'[r.by] \in {"audit", "done"}
<1>1. \A r \in S : r.by \in Call \cup {Generated}
  BY DEF Row
<1> QED
  BY <1>1, CommittedStays DEF Old, Committed

\* The rows of an evaluation that has not committed are neither stored nor
\* read nor asked about.
LEMMA FreshIsNew ==
  ASSUME Provenance, NEW q \in Call, pc[q] = "replace", NEW S, Old(S)
  PROVE  fresh[q] \cap S = {}
  BY CallAssumption DEF Provenance, Old, Committed

LEMMA ProvenanceStep ==
  ASSUME TypeOK, TypeOK', Provenance, NEW q \in Call, Begin(q) \/ Step(q)
  PROVE  Provenance'
<1>1. \A S \in SUBSET Row : Old(S) =>
        \A r \in S : r.by = Generated \/ pc'[r.by] \in {"audit", "done"}
  BY OldStays
<1>2. /\ Rows \in SUBSET Row
      /\ \A p \in Call : DOMAIN base[p] \in SUBSET Row /\ row[p] \in SUBSET Row
  BY DEF TypeOK, IsLedger, Rows
<1>3. \A r \in Rows' : r \in Rows \/ (r \in fresh[q] /\ Replace(q))
  <2>1. CASE Replace(q)
    BY <2>1 DEF Replace, LedgerAfter, Survivors, Rows
  <2> QED
    BY <2>1, Writers DEF Rows
<1>4. Old(Rows)'
  <2>1. ASSUME NEW r \in Rows' PROVE r.by = Generated \/ pc'[r.by] \in {"audit", "done"}
    <3>1. CASE r \in Rows
      BY <1>1, <1>2, <3>1 DEF Provenance
    <3>2. CASE r \in fresh[q] /\ Replace(q)
      BY <3>2, Writers DEF Provenance, Commits, UpdateRisk, Goto
    <3> QED
      BY <1>3, <2>1, <3>1, <3>2
  <2> QED
    BY <2>1 DEF Old, Committed
<1>5. ASSUME NEW p \in Call
      PROVE  Old(DOMAIN base[p])' /\ Old(row[p])'
  <2>1. \/ base'[p] \in {base[p], NoRows}
        \/ base'[p] = conf
    BY DEF Begin, Step, BeginEvaluate, BeginReport, BeginConfirm, LoadRisks,
       LoadComments, Replace, ReplaceFails, SelectRisk, UpdateRisk, UpdateRiskFails,
       WriteAudit, SaveRoute, ForgetEvaluation, evalLocal, TypeOK
  <2>2. row'[p] = row[p] \/ \E r \in Rows : row'[p] = {r}
    BY DEF Begin, Step, BeginEvaluate, BeginReport, BeginConfirm, LoadRisks,
       LoadComments, Replace, ReplaceFails, SelectRisk, UpdateRisk, UpdateRiskFails,
       WriteAudit, SaveRoute, confirmLocal, TypeOK
  <2>3. DOMAIN NoRows = {}
    BY DEF NoRows
  <2> QED
    BY <1>1, <1>2, <2>1, <2>2, <2>3 DEF Provenance, Old, Committed, Rows
<1>6. ASSUME NEW p \in Call, NEW r \in fresh'[p] PROVE r.by = p
  <2>1. CASE p # q
    BY <1>6, <2>1, OthersAlone DEF Provenance
  <2>2. CASE Step(q)
    <3>1. fresh' = fresh \/ fresh' = [fresh EXCEPT ![q] = {}]
      BY <2>2 DEF Step, LoadRisks, LoadComments, Replace, ReplaceFails, SelectRisk,
         UpdateRisk, UpdateRiskFails, WriteAudit, SaveRoute, ForgetEvaluation, evalLocal
    <3> QED
      BY <1>6, <3>1 DEF Provenance, TypeOK
  <2>3. CASE p = q /\ Begin(q)
    <3>1. \/ fresh'[q] = fresh[q]
          \/ fresh'[q] = {}
          \/ \E included, table : fresh'[q] = RisksOf(q, included, table)
      BY <2>3 DEF Begin, BeginEvaluate, BeginReport, BeginConfirm, evalLocal, TypeOK
    <3>2. \A included, table : \A x \in RisksOf(q, included, table) : x.by = q
      BY DEF RisksOf
    <3> QED
      BY <1>6, <2>3, <3>1, <3>2 DEF Provenance
  <2> QED
    BY <2>1, <2>2, <2>3
<1>7. ASSUME NEW p \in Call, NEW x \in unseen'[p] PROVE pc'[x] \in {"audit", "done"}
  <2>1. x \in Call
    BY <1>7 DEF TypeOK
  <2>2. x \in unseen[p] \/ (x = q /\ (Replace(q) \/ UpdateRisk(q)))
    BY <1>7, Recorded DEF Record
  <2>3. CASE x \in unseen[p]
    BY <2>1, <2>3, CommittedStays DEF Provenance, Committed
  <2>4. CASE x = q /\ (Replace(q) \/ UpdateRisk(q))
    BY <2>4, Writers DEF Commits
  <2> QED
    BY <2>2, <2>3, <2>4
<1> QED
  BY <1>4, <1>5, <1>6, <1>7 DEF Provenance, Committed

-----------------------------------------------------------------------------
(* Confirmations and evaluations that get into each other's way.           *)

\* The calls p has missed of one sort: these too stay as they are.
LEMMA MissedStays ==
  ASSUME TypeOK, Provenance, NEW q \in Call, Begin(q) \/ Step(q),
         NEW p \in Call, NEW x \in unseen[p]
  PROVE  /\ x \in Call /\ x \in unseen'[p]
         /\ kind'[x] = kind[x] /\ row'[x] = row[x] /\ want'[x] = want[x]
<1>1. x \in Call /\ pc[x] # "idle"
  BY DEF TypeOK, Provenance, Committed
<1> QED
  BY <1>1, HistoryGrows

\* A comment an evaluation has not read on a row it has was added since by a
\* confirmation.
CommentsMissed ==
  \A q \in Call : pc[q] = "replace" =>
    \A c \in comments : c.row \in DOMAIN base[q] /\ c \notin baseComments[q] =>
      ~Evaluates(c.by) /\ c.by \in unseen[q]

LEMMA CommentsMissedStep ==
  ASSUME TypeOK, TypeOK', Provenance, KindInHand, CommentsCommitted, CommentsMissed,
         NEW q \in Call, Begin(q) \/ Step(q)
  PROVE  CommentsMissed'
<1> SUFFICES ASSUME NEW p \in Call, pc'[p] = "replace", NEW c \in comments',
                    c.row \in DOMAIN base'[p], c \notin baseComments'[p]
             PROVE  kind'[c.by] \notin {"evaluate", "report"} /\ c.by \in unseen'[p]
  BY DEF CommentsMissed, Evaluates
<1>1. CASE p = q
  <2>1. LoadComments(q)
    BY <1>1, Readers
  <2>2. FALSE
    BY <1>1, <2>1 DEF LoadComments, db, TypeOK
  <2> QED
    BY <2>2
<1>2. CASE p # q
  <2>1. pc[p] = "replace" /\ base'[p] = base[p] /\ baseComments'[p] = baseComments[p]
    BY <1>2, OthersAlone
  <2>2. CASE c \in comments
    <3>1. kind[c.by] \notin {"evaluate", "report"} /\ c.by \in unseen[p]
      BY <2>1, <2>2 DEF CommentsMissed, Evaluates
    <3> QED
      BY <3>1, MissedStays
  <2>3. CASE c \notin comments /\ Replace(q)
    <3>1. c.row \in fresh[q]
      BY <2>3 DEF Replace, CommentsCarried, Carried
    <3>2. FALSE
      BY <2>1, <2>3, <3>1, FreshIsNew DEF Replace, SaveRoute, Goto, Provenance
    <3> QED
      BY <3>2
  <2>4. CASE c \notin comments /\ UpdateRisk(q)
    <3>1. c.by = q /\ pc[q] = "update_risk"
      BY <2>4 DEF UpdateRisk, Goto
    <3>2. kind'[q] = kind[q] /\ kind[q] \notin {"evaluate", "report"}
      BY <3>1, HistoryGrows DEF KindInHand, Evaluates
    <3>3. q \in unseen'[p]
      BY <1>2, <2>1, <2>4, CommitMissed
    <3> QED
      BY <3>1, <3>2, <3>3
  <2> QED
    BY <2>2, <2>3, <2>4, Writers
<1> QED
  BY <1>1, <1>2

\* A row that is gone when a confirmation wants to update it was deleted since
\* by an evaluation; one that is there has the status the SELECT loaded or the
\* one a confirmation has given it since.
RowMissed ==
  \A q \in Call : pc[q] = "update_risk" => \A r \in row[q] :
    /\ r \notin Rows => \E p \in unseen[q] : Evaluates(p)
    /\ r \in Rows => \/ conf[r] = loaded[q]
                     \/ \E p \in unseen[q] :
                          ~Evaluates(p) /\ row[p] = row[q] /\ want[p] = conf[r]

\* A confirmation is about one row.
OneRow ==
  \A q \in Call : pc[q] \in {"select_risk", "update_risk"} => \E r \in Row : row[q] = {r}

LEMMA OneRowStep ==
  ASSUME TypeOK, OneRow, NEW q \in Call, Begin(q) \/ Step(q)
  PROVE  OneRow'
<1>1. ASSUME NEW p \in Call, p # q, pc'[p] \in {"select_risk", "update_risk"}
      PROVE  \E r \in Row : row'[p] = {r}
  BY <1>1, OthersAlone DEF OneRow
<1>2. ASSUME pc'[q] \in {"select_risk", "update_risk"} PROVE \E r \in Row : row'[q] = {r}
  <2>1. ASSUME NEW r \in Rows, NEW verdict, BeginConfirm(q, r, verdict)
        PROVE  r \in Row /\ row'[q] = {r}
    BY <2>1 DEF BeginConfirm, TypeOK, IsLedger, Rows
  <2>2. ASSUME SelectRisk(q) PROVE \E r \in Row : row'[q] = {r}
    BY <2>2 DEF SelectRisk, Goto, OneRow
  <2> QED
    BY <1>2, <2>1, <2>2, Readers
<1> QED
  BY <1>1, <1>2 DEF OneRow

LEMMA RowMissedStep ==
  ASSUME TypeOK, TypeOK', Provenance, KindInHand, OneRow, RowMissed,
         NEW q \in Call, Begin(q) \/ Step(q)
  PROVE  RowMissed'
<1> DEFINE Gone(p) == \E x \in unseen'[p] : kind'[x] \in {"evaluate", "report"}
           Given(p, v) == \E x \in unseen'[p] :
             kind'[x] \notin {"evaluate", "report"} /\ row'[x] = row'[p] /\ want'[x] = v
<1> SUFFICES ASSUME NEW p \in Call, pc'[p] = "update_risk", NEW r \in row'[p]
             PROVE  /\ r \notin Rows' => Gone(p)
                    /\ r \in Rows' => conf'[r] = loaded'[p] \/ Given(p, conf'[r])
  BY DEF RowMissed, Evaluates
<1>1. CASE p = q
  <2>1. SelectRisk(q)
    BY <1>1, Readers
  <2>2. row[q] \subseteq Rows /\ row'[q] = row[q] /\ conf' = conf
    BY <1>1, <2>1 DEF SelectRisk, Goto, db, TypeOK
  <2>3. row[q] = {r}
    BY <1>1, <2>1, <2>2 DEF SelectRisk, Goto, OneRow
  <2>4. loaded'[q] = conf[r]
    BY <2>1, <2>2, <2>3 DEF SelectRisk, TypeOK
  <2> QED
    BY <1>1, <2>2, <2>3, <2>4 DEF Rows
<1>2. CASE p # q
  <2>1. pc[p] = "update_risk" /\ row'[p] = row[p] /\ loaded'[p] = loaded[p] /\ r \in row[p]
    BY <1>2, OthersAlone
  <2>2. \A x \in unseen[p] : /\ x \in unseen'[p] /\ kind'[x] = kind[x]
                             /\ row'[x] = row[x] /\ want'[x] = want[x]
    BY MissedStays
  <2>3. r \notin Rows => Gone(p)
    BY <2>1, <2>2 DEF RowMissed, Evaluates
  <2>4. r \in Rows => conf[r] = loaded'[p] \/ Given(p, conf[r])
    BY <2>1, <2>2 DEF RowMissed, Evaluates
  <2>5. CASE conf' = conf
    BY <2>3, <2>4, <2>5 DEF Rows
  <2>6. CASE Replace(q)
    <3>1. q \in unseen'[p] /\ kind'[q] = kind[q] /\ pc[q] = "replace"
      BY <1>2, <2>1, <2>6, CommitMissed, HistoryGrows DEF Replace, SaveRoute, Goto
    <3>2. Gone(p)
      BY <3>1 DEF KindInHand, Evaluates
    <3>3. r \notin fresh[q]
      BY <2>1, <3>1, FreshIsNew DEF Provenance
    <3>4. r \in Rows' => r \in Rows /\ conf'[r] = conf[r]
      BY <2>6, <3>3 DEF Replace, LedgerAfter, Survivors, Carried, Rows
    <3> QED
      BY <2>4, <3>2, <3>4
  <2>7. CASE UpdateRisk(q)
    <3>1. /\ q \in unseen'[p] /\ kind'[q] = kind[q] /\ row'[q] = row[q]
          /\ want'[q] = want[q] /\ pc[q] = "update_risk"
      BY <1>2, <2>1, <2>7, CommitMissed, HistoryGrows DEF UpdateRisk, Goto
    <3>2. PICK s \in row[q] :
            conf' = [x \in Rows |-> IF x = s /\ loaded[q] # want[q] THEN want[q]
                                                                  ELSE conf[x]]
      BY <2>7 DEF UpdateRisk
    <3>3. Rows' = Rows
      BY <3>2 DEF Rows
    <3>4. CASE r = s /\ r \in Rows /\ loaded[q] # want[q]
      <4>1. conf'[r] = want[q]
        BY <3>2, <3>4
      <4>2. row[q] = {r} /\ row[p] = {r}
        BY <2>1, <3>1, <3>2, <3>4 DEF OneRow
      <4>3. Given(p, want[q])
        BY <2>1, <3>1, <4>2 DEF KindInHand, Evaluates
      <4> QED
        BY <3>3, <3>4, <4>1, <4>3
    <3>5. CASE ~(r = s /\ r \in Rows /\ loaded[q] # want[q])
      <4>1. r \in Rows => conf'[r] = conf[r]
        BY <3>2, <3>5
      <4> QED
        BY <2>3, <2>4, <3>3, <4>1
    <3> QED
      BY <3>4, <3>5
  <2> QED
    BY <2>5, <2>6, <2>7, Writers
<1> QED
  BY <1>1, <1>2

RaceInv ==
  /\ LedgerInv
  /\ CommentsCommitted
  /\ Provenance
  /\ KindInHand
  /\ CommentsMissed
  /\ OneRow
  /\ RowMissed

LEMMA InitRaceInv == Init => RaceInv /\ OnlyRacesCollide
<1> SUFFICES ASSUME Init PROVE RaceInv /\ OnlyRacesCollide
  OBVIOUS
<1>1. LedgerInv
  BY InitLedgerInv
<1>2. \A r \in Rows : r.by = Generated
  BY DEF Init, StoredRows, Rows
<1>3. Provenance
  BY <1>2 DEF Init, Provenance, Old, NoRows
<1>4. CommentsCommitted /\ KindInHand /\ CommentsMissed /\ OneRow /\ RowMissed
  BY DEF Init, CommentsCommitted, KindInHand, CommentsMissed, OneRow, RowMissed
<1>5. OnlyRacesCollide
  BY DEF Init, OnlyRacesCollide
<1> QED
  BY <1>1, <1>3, <1>4, <1>5 DEF RaceInv

LEMMA NextRaceInv == RaceInv /\ [Next]_vars => RaceInv'
<1> SUFFICES ASSUME RaceInv, [Next]_vars PROVE RaceInv'
  OBVIOUS
<1>1. LedgerInv' /\ TypeOK /\ TypeOK'
  BY NextLedgerInv DEF RaceInv, LedgerInv
<1>2. CASE Next
  <2>1. PICK q \in Call : Begin(q) \/ Step(q)
    BY <1>2 DEF Next
  <2>2. CommentsCommitted' /\ Provenance' /\ KindInHand' /\ CommentsMissed'
    BY <1>1, <2>1, CommentsCommittedStep, ProvenanceStep, KindInHandStep,
       CommentsMissedStep DEF RaceInv
  <2>3. OneRow' /\ RowMissed'
    BY <1>1, <2>1, OneRowStep, RowMissedStep DEF RaceInv
  <2> QED
    BY <1>1, <2>2, <2>3 DEF RaceInv
<1>3. CASE UNCHANGED vars
  <2>1. CommentsCommitted' /\ Provenance' /\ KindInHand'
    BY <1>3 DEF RaceInv, vars, CommentsCommitted, Provenance, KindInHand, Old, Committed,
       Evaluates, Rows
  <2>2. CommentsMissed' /\ OneRow' /\ RowMissed'
    BY <1>3 DEF RaceInv, vars, CommentsMissed, OneRow, RowMissed, Evaluates, Rows
  <2> QED
    BY <1>1, <2>1, <2>2 DEF RaceInv
<1> QED
  BY <1>2, <1>3

\* A call that fails has missed what makes it fail.
LEMMA FailedStep ==
  ASSUME RaceInv, OnlyRacesCollide, NEW q \in Call, Begin(q) \/ Step(q),
         NEW p \in Call, pc'[p] = "failed"
  PROVE  \E x \in unseen'[p] : Evaluates(x)' # Evaluates(p)'
<1> USE DEF Evaluates
<1>1. TypeOK /\ Provenance
  BY DEF RaceInv, LedgerInv
<1>2. SUFFICES /\ pc[p] # "idle"
               /\ \E x \in unseen[p] : Evaluates(x) # Evaluates(p)
  BY <1>1, MissedStays, HistoryGrows
<1>3. CASE pc[p] = "failed"
  BY <1>3 DEF OnlyRacesCollide
<1>4. CASE pc[p] # "failed"
  <2>1. p = q
    BY <1>1, <1>4, OthersAlone
  <2>2. ReplaceFails(p) \/ UpdateRiskFails(p)
    BY <1>1, <1>4, <2>1 DEF Begin, Step, BeginEvaluate, BeginReport, BeginConfirm,
       LoadRisks, LoadComments, Replace, SaveRoute, SelectRisk, UpdateRisk, WriteAudit,
       Arrive, Goto, TypeOK
  <2>3. CASE ReplaceFails(p)
    <3>1. pc[p] = "replace" /\ BlockedByComment(p)
      BY <2>3 DEF ReplaceFails, Goto
    <3>2. PICK c \in comments : c.row \in DOMAIN base[p] /\ c \notin baseComments[p]
      BY <3>1 DEF BlockedByComment
    <3>3. ~Evaluates(c.by) /\ c.by \in unseen[p]
      BY <3>1, <3>2 DEF RaceInv, CommentsMissed
    <3>4. Evaluates(p)
      BY <3>1 DEF RaceInv, KindInHand
    <3> QED
      BY <3>1, <3>3, <3>4
  <2>4. CASE UpdateRiskFails(p)
    <3>1. pc[p] = "update_risk" /\ ~(row[p] \subseteq Rows)
      BY <2>4 DEF UpdateRiskFails, Goto
    <3>2. \E x \in unseen[p] : Evaluates(x)
      BY <3>1 DEF RaceInv, RowMissed
    <3>3. ~Evaluates(p)
      BY <3>1 DEF RaceInv, KindInHand
    <3> QED
      BY <3>1, <3>2, <3>3
  <2> QED
    BY <2>2, <2>3, <2>4
<1> QED
  BY <1>3, <1>4

\* A comment without its row is of a confirmation that an evaluation has
\* missed, or that has missed an evaluation.
Stray(c) ==
  /\ ~Evaluates(c.by)
  /\ \E p \in Call : /\ Evaluates(p) /\ Committed(p)
                     /\ c.by \in unseen[p] \/ p \in unseen[c.by]

LEMMA StrayStep ==
  ASSUME RaceInv, OnlyRacesCollide, NEW q \in Call, Begin(q) \/ Step(q),
         NEW c \in comments', c.row \notin Rows'
  PROVE  Stray(c)'
<1> USE DEF Evaluates, Committed
<1>1. TypeOK /\ Provenance
  BY DEF RaceInv, LedgerInv
<1>2. ASSUME c \in comments, Stray(c) PROVE Stray(c)'
  <2>1. PICK p \in Call : /\ Evaluates(p) /\ Committed(p)
                          /\ c.by \in unseen[p] \/ p \in unseen[c.by]
    BY <1>2 DEF Stray
  <2>2. c.by \in Call /\ Committed(c.by)
    BY <1>1, <1>2 DEF RaceInv, CommentsCommitted, TypeOK, Comment
  <2>3. kind'[c.by] = kind[c.by] /\ kind'[p] = kind[p]
    BY <1>1, <2>1, <2>2, HistoryGrows
  <2>4. unseen[c.by] \subseteq unseen'[c.by] /\ unseen[p] \subseteq unseen'[p]
    BY <1>1, <2>1, <2>2, HistoryGrows
  <2>5. pc'[p] \in {"audit", "done"}
    BY <1>1, <2>1, CommittedStays
  <2> QED
    BY <1>2, <2>1, <2>3, <2>4, <2>5 DEF Stray
<1>3. CASE Replace(q)
  <2>1. PICK m \in CarryMaps(q) :
          /\ conf' = LedgerAfter(q, m)
          /\ comments' = (comments \ baseComments[q]) \cup CommentsCarried(q, m)
    BY <1>3 DEF Replace
  <2>2. Rows' = Survivors(q) \cup fresh[q]
    BY <2>1 DEF Rows, LedgerAfter
  <2>3. c \in comments \ baseComments[q]
    BY <2>1, <2>2 DEF CommentsCarried, Carried
  <2>4. CASE c.row \notin Rows
    BY <1>2, <2>3, <2>4 DEF OnlyRacesCollide, Stray
  <2>5. CASE c.row \in Rows
    <3>1. pc[q] = "replace" /\ c.row \in DOMAIN base[q]
      BY <1>3, <2>2, <2>5 DEF Replace, SaveRoute, Goto, Survivors
    <3>2. ~Evaluates(c.by) /\ c.by \in unseen[q]
      BY <2>3, <3>1 DEF RaceInv, CommentsMissed
    <3>3. c.by \in unseen'[q] /\ kind'[c.by] = kind[c.by]
      BY <1>1, <3>2, MissedStays
    <3>4. Evaluates(q) /\ kind'[q] = kind[q]
      BY <1>1, <3>1, HistoryGrows DEF RaceInv, KindInHand
    <3>5. pc'[q] \in {"audit", "done"}
      BY <1>1, <1>3, Writers DEF Commits
    <3> QED
      BY <3>2, <3>3, <3>4, <3>5 DEF Stray
  <2> QED
    BY <2>4, <2>5
<1>4. CASE UpdateRisk(q)
  <2>1. PICK r \in row[q] :
          /\ conf' = [x \in Rows |-> IF x = r /\ loaded[q] # want[q] THEN want[q]
                                                                   ELSE conf[x]]
          /\ comments' = comments \cup {[row |-> r, by |-> q, result |-> want[q]]}
    BY <1>4 DEF UpdateRisk
  <2>2. Rows' = Rows
    BY <2>1 DEF Rows
  <2>3. CASE c \in comments
    BY <1>2, <2>2, <2>3 DEF OnlyRacesCollide, Stray
  <2>4. CASE c = [row |-> r, by |-> q, result |-> want[q]]
    <3>1. pc[q] = "update_risk" /\ r \notin Rows /\ c.by = q
      BY <1>4, <2>2, <2>4 DEF UpdateRisk, Goto
    <3>2. PICK p \in unseen[q] : Evaluates(p)
      BY <2>1, <3>1 DEF RaceInv, RowMissed
    <3>3. p \in Call /\ p \in unseen'[q] /\ kind'[p] = kind[p] /\ Committed(p)
      BY <1>1, <3>2, MissedStays DEF Provenance
    <3>4. pc'[p] \in {"audit", "done"}
      BY <1>1, <3>3, CommittedStays
    <3>5. ~Evaluates(q) /\ kind'[q] = kind[q]
      BY <1>1, <3>1, HistoryGrows DEF RaceInv, KindInHand
    <3> QED
      BY <3>1, <3>2, <3>3, <3>4, <3>5 DEF Stray
  <2> QED
    BY <2>1, <2>3, <2>4
<1>5. CASE conf' = conf /\ comments' = comments
  BY <1>2, <1>5 DEF OnlyRacesCollide, Stray, Rows
<1> QED
  BY <1>1, <1>3, <1>4, <1>5, Writers

\* A call fails, or a comment is left without its row, only when a confirmation
\* and an evaluation have missed each other, with and without foreign keys and
\* however many calls overlap (update_route, confirm_route_risk).
THEOREM SpecOnlyRacesCollide == Spec => []OnlyRacesCollide
<1>1. RaceInv /\ OnlyRacesCollide /\ [Next]_vars => OnlyRacesCollide'
  <2> SUFFICES ASSUME RaceInv, OnlyRacesCollide, [Next]_vars PROVE OnlyRacesCollide'
    OBVIOUS
  <2>1. CASE Next
    <3>1. PICK q \in Call : Begin(q) \/ Step(q)
      BY <2>1 DEF Next
    <3>2. \A p \in Call : pc'[p] = "failed" =>
            \E x \in unseen'[p] : Evaluates(x)' # Evaluates(p)'
      BY <3>1, FailedStep
    <3>3. \A c \in comments' : c.row \notin Rows' => Stray(c)'
      BY <3>1, StrayStep
    <3> QED
      BY <3>2, <3>3 DEF OnlyRacesCollide, Stray, Evaluates, Committed
  <2>2. CASE UNCHANGED vars
    BY <2>2 DEF vars, OnlyRacesCollide, Evaluates, Committed, Rows
  <2> QED
    BY <2>1, <2>2
<1> QED
  BY <1>1, InitRaceInv, NextRaceInv, PTL DEF Spec

\* A confirmation that succeeds has set the status of its row, unless a call it
\* has missed has given the row another verdict or replaced it
\* (confirm_route_risk).
THEOREM SpecConfirmTakesEffect == Spec => ConfirmTakesEffect
<1> DEFINE TakesEffect ==
      \A q \in Call : pc[q] = "update_risk" /\ pc'[q] = "audit" =>
        \A r \in row[q] :
          \/ r \in Rows' /\ conf'[r] = want[q]
          \/ r \notin Rows' /\ \E p \in unseen[q] : Evaluates(p)
          \/ \E p \in unseen[q] : /\ ~Evaluates(p)
                                  /\ row[p] = row[q] /\ want[p] # want[q]
<1>1. ASSUME RaceInv, [Next]_vars PROVE TakesEffect
  <2>1. SUFFICES ASSUME NEW q \in Call, pc[q] = "update_risk", pc'[q] = "audit",
                        NEW r \in row[q]
                 PROVE  \/ r \in Rows' /\ conf'[r] = want[q]
                        \/ r \notin Rows' /\ \E p \in unseen[q] : Evaluates(p)
                        \/ \E p \in unseen[q] : /\ ~Evaluates(p)
                                                /\ row[p] = row[q] /\ want[p] # want[q]
    OBVIOUS
  <2>2. TypeOK
    BY <1>1 DEF RaceInv, LedgerInv
  <2>3. PICK p \in Call : Begin(p) \/ Step(p)
    BY <1>1, <2>1 DEF Next, vars
  <2>4. p = q
    BY <2>1, <2>2, <2>3, OthersAlone
  <2>5. UpdateRisk(q)
    BY <2>1, <2>2, <2>3, <2>4 DEF Begin, Step, BeginEvaluate, BeginReport, BeginConfirm,
       Arrive, LoadRisks, LoadComments, Replace, SaveRoute, ReplaceFails, SelectRisk,
       UpdateRiskFails, WriteAudit, Goto, TypeOK
  <2>6. row[q] = {r}
    BY <1>1, <2>1 DEF RaceInv, OneRow
  <2>7. conf' = [x \in Rows |-> IF x = r /\ loaded[q] # want[q] THEN want[q]
                                                              ELSE conf[x]]
    BY <2>5, <2>6 DEF UpdateRisk
  <2>8. CASE r \notin Rows
    BY <1>1, <2>1, <2>7, <2>8 DEF RaceInv, RowMissed, Rows
  <2>9. CASE r \in Rows /\ loaded[q] # want[q]
    BY <2>7, <2>9 DEF Rows
  <2>10. CASE r \in Rows /\ loaded[q] = want[q]
    <3>1. conf'[r] = conf[r] /\ r \in Rows'
      BY <2>7, <2>10 DEF Rows
    <3>2. \/ conf[r] = want[q]
          \/ \E x \in unseen[q] : ~Evaluates(x) /\ row[x] = row[q] /\ want[x] = conf[r]
      BY <1>1, <2>1, <2>10 DEF RaceInv, RowMissed
    <3> QED
      BY <3>1, <3>2
  <2> QED
    BY <2>8, <2>9, <2>10
<1>2. RaceInv /\ [Next]_vars => [TakesEffect]_vars
  BY <1>1
<1>3. Spec => []RaceInv
  BY InitRaceInv, NextRaceInv, PTL DEF Spec
<1> QED
  BY <1>2, <1>3, PTL DEF Spec, ConfirmTakesEffect

-----------------------------------------------------------------------------
(* Risks per rule and feature.                                             *)

\* A vehicle below 44 t meets one rule at each feature (evaluate_route; a
\* heavier one meets RR-BRIDGE-001 and RR-BRIDGE-002 at a bridge).
OneRulePerFeature ==
  \A table \in RuleTables : \A f \in Feature : \A x, y \in table[f] : x = y

\* A feature has no more rows than it was stored with, and a missing vehicle
\* specification has one: the rows have the numbers 1, 2, ...
Few(S) ==
  /\ \A r \in S : r.copy \in 1..TimesDue(r.feature)
  /\ \A r, s \in S : /\ r.feature = s.feature /\ r.copy = s.copy
                     /\ r.feature \in Feature \/ r.rule = s.rule
                     => r = s

\* What has different numbers up to n is no more than n.
LEMMA NumberedBound ==
  ASSUME NEW n \in Nat, NEW S, \A r \in S : r.copy \in 1..n,
         \A r, s \in S : r.copy = s.copy => r = s
  PROVE  Cardinality(S) \in Nat /\ Cardinality(S) <= n
<1> DEFINE number == [r \in S |-> r.copy]
<1>1. IsFiniteSet(1..n) /\ Cardinality(1..n) = n
  BY FS_Interval
<1>2. number \in Injection(S, 1..n)
  BY DEF Injection, IsInjective
<1>3. IsFiniteSet(S) /\ Cardinality(S) <= Cardinality(1..n)
  BY <1>1, <1>2, FS_Injection
<1> QED
  BY <1>1, <1>3, FS_CardinalityType

LEMMA TimesDueType == TypeOK => \A f : TimesDue(f) \in Nat
  BY LedgerBoundAssumption DEF TypeOK, TimesDue

\* So a feature comes back no more often than it was stored ...
LEMMA FewOccurrences ==
  ASSUME TypeOK, Few(Rows), NEW f \in Feature
  PROVE  Occurrences(f) \in Nat /\ Occurrences(f) <= TimesDue(f)
<1> DEFINE S == {r \in Rows : r.feature = f}
<1>1. TimesDue(f) \in Nat
  BY TimesDueType
<1>2. \A r \in S : r.copy \in 1..TimesDue(f)
  BY DEF Few
<1>3. \A r, s \in S : r.copy = s.copy => r = s
  BY DEF Few
<1> HIDE DEF S
<1>4. Cardinality(S) \in Nat /\ Cardinality(S) <= TimesDue(f)
  BY <1>1, <1>2, <1>3, NumberedBound
<1> QED
  BY <1>4 DEF Occurrences, S

\* ... and a rule is reported for it no more often.
LEMMA FewBound ==
  ASSUME TypeOK, Few(Rows), NEW r \in Rows
  PROVE  Cardinality({s \in Rows : Key(s) = Key(r)}) <= TimesDue(r.feature)
<1> DEFINE S == {s \in Rows : Key(s) = Key(r)}
<1>1. TimesDue(r.feature) \in Nat
  BY TimesDueType
<1>2. \A s \in S : s.rule = r.rule /\ s.feature = r.feature
  BY DEF Key
<1>3. \A s \in S : s.copy \in 1..TimesDue(r.feature)
  BY <1>2 DEF Few
<1>4. \A s, t \in S : s.copy = t.copy => s = t
  BY <1>2 DEF Few
<1> HIDE DEF S
<1>5. Cardinality(S) <= TimesDue(r.feature)
  BY <1>1, <1>3, <1>4, NumberedBound
<1> QED
  BY <1>5 DEF S

LEMMA RisksFew ==
  ASSUME OneRulePerFeature, TypeOK, Few(Rows), NEW q \in Call,
         NEW included \in SUBSET Feature, NEW table \in RuleTables
  PROVE  Few(RisksOf(q, included, table))
<1> DEFINE Of == {r \in [by : {q}, feature : included, rule : Rule, copy : 1..MaxCopies] :
                    r.rule \in table[r.feature] /\ r.copy <= Occurrences(r.feature)}
           Spec0 == [by : {q}, feature : {NoFeature}, rule : SpecRules, copy : {1}]
<1>1. RisksOf(q, included, table) = Of \cup Spec0
  BY DEF RisksOf
<1>2. ASSUME NEW r \in Of
      PROVE  r.feature \in Feature /\ r.copy \in 1..TimesDue(r.feature)
  <2>1. r.feature \in Feature /\ r.copy \in 1..MaxCopies /\ r.copy <= Occurrences(r.feature)
    OBVIOUS
  <2>2. /\ Occurrences(r.feature) \in Nat
        /\ Occurrences(r.feature) <= TimesDue(r.feature)
        /\ TimesDue(r.feature) \in Nat
    BY <2>1, FewOccurrences, TimesDueType
  <2> HIDE DEF Of
  <2> QED
    BY <2>1, <2>2, LedgerBoundAssumption
<1>3. \A r \in Spec0 : /\ r.feature = NoFeature /\ NoFeature \notin Feature
                       /\ r.copy = 1 /\ TimesDue(r.feature) = 1
  BY FeatureAssumption DEF TimesDue
<1>4. ASSUME NEW r \in Of, NEW s \in Of, r.feature = s.feature, r.copy = s.copy
      PROVE  r = s
  <2>1. r.rule = s.rule
    BY <1>2, <1>4 DEF OneRulePerFeature
  <2> QED
    BY <1>4, <2>1
<1>5. ASSUME NEW r \in Spec0, NEW s \in Spec0, r.rule = s.rule PROVE r = s
  BY <1>5
<1> HIDE DEF Of, Spec0
<1>6. \A r \in Of \cup Spec0 : r.copy \in 1..TimesDue(r.feature)
  BY <1>2, <1>3
<1>7. ASSUME NEW r \in Of \cup Spec0, NEW s \in Of \cup Spec0,
             r.feature = s.feature, r.copy = s.copy,
             r.feature \in Feature \/ r.rule = s.rule
      PROVE  r = s
  BY <1>2, <1>3, <1>4, <1>5, <1>7
<1> QED
  BY <1>1, <1>6, <1>7 DEF Few

\* An evaluation that has missed no other is going to delete every row.
AllRowsRead ==
  \A q \in Call :
    pc[q] \in {"load_comments", "replace"} /\ (\A p \in unseen[q] : ~Evaluates(p)) =>
      DOMAIN base[q] = Rows

FewInv == EvaluationsInTurn => Few(Rows) /\ \A q \in Call : Few(fresh[q])

LEMMA AllRowsReadStep ==
  ASSUME TypeOK, Provenance, KindInHand, AllRowsRead, NEW q \in Call, Begin(q) \/ Step(q)
  PROVE  AllRowsRead'
<1> USE DEF Evaluates
<1>1. SUFFICES ASSUME NEW p \in Call, pc'[p] \in {"load_comments", "replace"},
                      \A x \in unseen'[p] : kind'[x] \notin {"evaluate", "report"}
               PROVE  DOMAIN base'[p] = Rows'
  BY DEF AllRowsRead
<1>2. \A x \in unseen[p] : ~Evaluates(x)
  BY <1>1, MissedStays
<1>3. CASE p # q
  <2>1. pc'[p] = pc[p] /\ base'[p] = base[p]
    BY <1>3, OthersAlone
  <2>2. ~Replace(q)
    <3> SUFFICES ASSUME Replace(q) PROVE FALSE
      OBVIOUS
    <3>1. q \in unseen'[p] /\ kind'[q] = kind[q] /\ pc[q] = "replace"
      BY <1>1, <1>3, <2>1, CommitMissed, HistoryGrows DEF Replace, SaveRoute, Goto
    <3> QED
      BY <1>1, <3>1 DEF KindInHand
  <2>3. Rows' = Rows
    BY <2>2, Writers DEF Rows
  <2> QED
    BY <1>1, <1>2, <2>1, <2>3 DEF AllRowsRead
<1>4. CASE p = q
  <2>1. CASE LoadRisks(q)
    BY <1>4, <2>1 DEF LoadRisks, db, Rows, TypeOK
  <2>2. CASE LoadComments(q)
    BY <1>2, <1>4, <2>2 DEF LoadComments, Goto, db, Rows, AllRowsRead
  <2> QED
    BY <1>1, <1>4, <2>1, <2>2, Readers
<1> QED
  BY <1>3, <1>4

\* Evaluations that have been in turn so far were so before.
LEMMA InTurnBefore ==
  ASSUME TypeOK, Provenance, NEW q \in Call, Begin(q) \/ Step(q), EvaluationsInTurn'
  PROVE  EvaluationsInTurn
<1> SUFFICES ASSUME NEW p \in Call, Evaluates(p), Committed(p), NEW x \in unseen[p]
             PROVE  ~Evaluates(x)
  BY DEF EvaluationsInTurn
<1>1. kind'[p] = kind[p] /\ pc'[p] \in {"audit", "done"}
  BY HistoryGrows, CommittedStays DEF Committed
<1>2. x \in unseen'[p] /\ kind'[x] = kind[x]
  BY MissedStays
<1> QED
  BY <1>1, <1>2 DEF EvaluationsInTurn, Evaluates, Committed

LEMMA FewStep ==
  ASSUME OneRulePerFeature, TypeOK, Provenance, KindInHand, AllRowsRead, FewInv,
         NEW q \in Call, Begin(q) \/ Step(q)
  PROVE  FewInv'
<1> SUFFICES ASSUME EvaluationsInTurn'
             PROVE  Few(Rows') /\ \A p \in Call : Few(fresh'[p])
  BY GivenStays DEF FewInv, Few, TimesDue
<1>1. Few(Rows) /\ \A p \in Call : Few(fresh[p])
  BY InTurnBefore DEF FewInv
<1>2. Few({})
  BY DEF Few
<1>3. \A p \in Call : p # q => fresh'[p] = fresh[p]
  BY OthersAlone
<1>4. CASE Replace(q)
  <2>1. pc[q] = "replace" /\ fresh'[q] = {}
    BY <1>4 DEF Replace, SaveRoute, Goto, ForgetEvaluation, TypeOK
  <2>2. Evaluates(q)' /\ Committed(q)'
    BY <1>4, <2>1, Writers, HistoryGrows DEF Commits, KindInHand, Evaluates, Committed
  <2>3. \A x \in unseen[q] : ~Evaluates(x)
    BY <2>2, MissedStays, HistoryGrows DEF EvaluationsInTurn, Evaluates, Committed
  <2>4. Survivors(q) = {}
    BY <2>1, <2>3 DEF Survivors, AllRowsRead
  <2>5. Rows' = fresh[q]
    BY <1>4, <2>4 DEF Replace, LedgerAfter, Rows
  <2> QED
    BY <1>1, <1>2, <1>3, <2>1, <2>5
<1>5. CASE ~Replace(q)
  <2>1. Rows' = Rows
    BY <1>5, Writers DEF Rows
  <2>2. \/ fresh'[q] = fresh[q]
        \/ fresh'[q] = {}
        \/ \E included \in SUBSET Feature, table \in RuleTables :
             fresh'[q] = RisksOf(q, included, table)
    <3>1. CASE Begin(q)
      BY <3>1, InclusionAssumption DEF Begin, BeginEvaluate, BeginReport, BeginConfirm,
         evalLocal, TypeOK
    <3>2. CASE Step(q)
      BY <1>5, <3>2 DEF Step, LoadRisks, LoadComments, ReplaceFails, SelectRisk, UpdateRisk,
         UpdateRiskFails, WriteAudit, ForgetEvaluation, evalLocal, TypeOK
    <3> QED
      BY <3>1, <3>2
  <2>3. Few(fresh'[q])
    BY <1>1, <1>2, <2>2, RisksFew
  <2> QED
    BY <1>1, <1>3, <2>1, <2>3
<1> QED
  BY <1>4, <1>5

LEMMA InitFew == Init => AllRowsRead /\ FewInv
<1> SUFFICES ASSUME Init PROVE AllRowsRead /\ FewInv
  OBVIOUS
<1>1. \A r \in Rows : /\ r \in Row /\ r.by = Generated /\ r.feature \in Feature
                      /\ r.rule = Placeholder /\ r.copy <= stored[r.feature]
  BY DEF Init, StoredRows, Rows
<1>2. \A r \in Rows : r.copy \in 1..TimesDue(r.feature)
  BY <1>1, LedgerBoundAssumption DEF Init, TimesDue, Row
<1>3. \A r, s \in Rows : r.feature = s.feature /\ r.copy = s.copy => r = s
  BY <1>1 DEF Row
<1>4. Few(Rows)
  BY <1>2, <1>3 DEF Few
<1>5. \A q \in Call : Few(fresh[q])
  BY DEF Init, Few
<1> QED
  BY <1>4, <1>5 DEF FewInv, AllRowsRead, Init

\* For a vehicle that meets one rule per feature, a rule is reported for a
\* feature no more often than the feature was stored, however often features
\* are rebuilt from the rows of the last evaluation, as long as no evaluation
\* has missed the commit of another; confirmations may overlap as they like.
THEOREM SpecNoRiskMultiplied == OneRulePerFeature => (Spec => []NoRiskMultiplied)
<1> SUFFICES ASSUME OneRulePerFeature PROVE Spec => []NoRiskMultiplied
  OBVIOUS
<1>1. RaceInv /\ AllRowsRead /\ FewInv /\ [Next]_vars => AllRowsRead' /\ FewInv'
  <2> SUFFICES ASSUME RaceInv, AllRowsRead, FewInv, [Next]_vars
               PROVE  AllRowsRead' /\ FewInv'
    OBVIOUS
  <2>1. TypeOK /\ Provenance /\ KindInHand
    BY DEF RaceInv, LedgerInv
  <2>2. CASE Next
    BY <2>1, <2>2, AllRowsReadStep, FewStep DEF Next
  <2>3. CASE UNCHANGED vars
    BY <2>3 DEF vars, AllRowsRead, FewInv, Few, TimesDue, EvaluationsInTurn, Evaluates,
       Committed, Rows
  <2> QED
    BY <2>2, <2>3
<1>2. RaceInv /\ FewInv => NoRiskMultiplied
  BY FewBound DEF RaceInv, LedgerInv, FewInv, NoRiskMultiplied
<1>3. Spec => []RaceInv
  BY InitRaceInv, NextRaceInv, PTL DEF Spec
<1> QED
  BY <1>1, <1>2, <1>3, InitFew, PTL DEF Spec
=============================================================================
