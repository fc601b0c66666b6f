------------------------- MODULE RouteEvaluationProofs -------------------------
(***************************************************************************)
(* Proofs about RouteEvaluation, for any route types, services, answers    *)
(* and source filters, and any number of copies.  First the sums of scores *)
(* and copies: that they exist, and what bounds them.                      *)
(***************************************************************************)
EXTENDS RouteEvaluation, FiniteSetTheorems, WellFoundedInduction, TLAPS

\* An evaluation that still counts has been made, and a row is there for what
\* the vehicle lacks.
MissingInRows ==
  fresh # NotFresh /\ "unknown" \in {vehicle.height, vehicle.weight} =>
    /\ status = "evaluated"
    /\ \E x \in DOMAIN rows : x.rule \in {"height_missing", "weight_missing"}

\* The candidate is what its last evaluation would make of it again, for a
\* vehicle that meets one rule per feature.
EvaluatedAgain ==
  fresh # NotFresh /\ vehicle.weight # "heavy" =>
    /\ rows = Bag(Risks(fresh))
    /\ score = ScoreOf(Bag(Risks(fresh)))
    /\ level = LevelOf(Risks(fresh))

EvaluationInv == TypeOK /\ LevelIsWorst /\ MissingInRows /\ EvaluatedAgain

-----------------------------------------------------------------------------
(* Sums.                                                                   *)

\* The element a sum takes next, and what MapThenSumSet iterates: the sums of
\* the numbers w over every subset of S.
Pick(s) == CHOOSE x \in s : TRUE

SumsUp(g, w, S) ==
  g = [s \in SUBSET S |-> IF s = {} THEN 0 ELSE w[Pick(s)] + g[s \ {Pick(s)}]]

\* A set of numbers has a least one.
LEMMA LeastNumber ==
  ASSUME NEW T \in SUBSET Nat, T # {}
  PROVE  \E n \in T : \A m \in T : n <= m
<1>1. PICK n \in T : \A m \in T : ~(<<m, n>> \in OpToRel(<, Nat))
  BY NatLessThanWellFounded, WFMin
<1>2. ASSUME NEW m \in T
      PROVE  n <= m
  <2>1. <<m, n>> \notin {pair \in Nat \X Nat : pair[1] < pair[2]}
    BY <1>1 DEF OpToRel
  <2>2. <<m, n>> \in Nat \X Nat /\ <<m, n>>[1] = m /\ <<m, n>>[2] = n
    OBVIOUS
  <2>3. ~(m < n)
    BY <2>1, <2>2
  <2> QED
    BY <2>3
<1> QED
  BY <1>2

\* What a nonempty set picks, and what is left of it.
LEMMA PickOne ==
  ASSUME NEW S, IsFiniteSet(S), NEW s \in SUBSET S, s # {}
  PROVE  /\ Pick(s) \in s
         /\ s \ {Pick(s)} \in SUBSET S
         /\ Cardinality(s) \in Nat
         /\ Cardinality(s \ {Pick(s)}) = Cardinality(s) - 1
<1>1. Pick(s) \in s
  BY DEF Pick
<1>2. IsFiniteSet(s)
  BY FS_Subset
<1> QED
  BY <1>1, <1>2, FS_RemoveElement, FS_CardinalityType

\* There are such sums.  Otherwise take the least n such that no g is right up
\* to n elements, and extend one that is right up to n - 1.
LEMMA SumsExist ==
  ASSUME NEW S, IsFiniteSet(S), NEW w, \A x \in S : w[x] \in Nat
  PROVE  \E g : SumsUp(g, w, S)
<1> DEFINE Right(g, s) == g[s] = IF s = {} THEN 0 ELSE w[Pick(s)] + g[s \ {Pick(s)}]
           UpTo(g, n) == \A s \in SUBSET S : Cardinality(s) <= n => Right(g, s)
           wrong == {n \in Nat : ~\E g \in [SUBSET S -> Nat] : UpTo(g, n)}
<1>1. \A s \in SUBSET S : Cardinality(s) \in Nat /\ (Cardinality(s) = 0 <=> s = {})
  BY FS_Subset, FS_CardinalityType, FS_EmptySet
<1>2. wrong = {}
  <2>1. SUFFICES ASSUME wrong # {} PROVE FALSE
    OBVIOUS
  <2>2. wrong \in SUBSET Nat
    OBVIOUS
  <2>3. PICK n \in wrong : \A m \in wrong : n <= m
    <3> HIDE DEF wrong
    <3> QED
      BY <2>1, <2>2, LeastNumber
  <2>4. n # 0
    <3>1. SUFFICES ASSUME n = 0 PROVE FALSE
      OBVIOUS
    <3> DEFINE g == [s \in SUBSET S |-> 0]
    <3>2. g \in [SUBSET S -> Nat] /\ UpTo(g, 0)
      BY <1>1
    <3> QED
      BY <3>1, <3>2
  <2>5. n - 1 \in Nat /\ n - 1 \notin wrong
    <3> HIDE DEF wrong
    <3> QED
      BY <2>2, <2>3, <2>4
  <2>6. PICK g \in [SUBSET S -> Nat] : UpTo(g, n - 1)
    BY <2>5
  <2> DEFINE h == [s \in SUBSET S |->
                     IF Cardinality(s) = n THEN w[Pick(s)] + g[s \ {Pick(s)}] ELSE g[s]]
  <2>7. ASSUME NEW s \in SUBSET S, Cardinality(s) = n
        PROVE  s # {} /\ Right(h, s) /\ h[s] \in Nat
    <3>1. s # {}
      BY <1>1, <2>4, <2>7
    <3>2. /\ Pick(s) \in S
          /\ s \ {Pick(s)} \in SUBSET S
          /\ Cardinality(s \ {Pick(s)}) = n - 1
      BY <2>7, <3>1, PickOne
    <3>3. Cardinality(s \ {Pick(s)}) # n
      BY <3>2
    <3>4. h[s \ {Pick(s)}] = g[s \ {Pick(s)}]
      BY <3>2, <3>3
    <3>5. h[s] = w[Pick(s)] + g[s \ {Pick(s)}]
      BY <2>7
    <3>6. g[s \ {Pick(s)}] \in Nat /\ w[Pick(s)] \in Nat
      BY <3>2
    <3> QED
      BY <3>1, <3>4, <3>5, <3>6
  <2>8. ASSUME NEW s \in SUBSET S, Cardinality(s) <= n - 1
        PROVE  Right(h, s) /\ h[s] \in Nat
    <3>1. h[s] = g[s]
      BY <1>1, <2>5, <2>8
    <3>2. Right(g, s)
      BY <2>6, <2>8
    <3>3. ASSUME s # {} PROVE h[s \ {Pick(s)}] = g[s \ {Pick(s)}]
      BY <2>5, <2>8, <3>3, PickOne
    <3> QED
      BY <3>1, <3>2, <3>3
  <2>9. h \in [SUBSET S -> Nat]
    <3>1. ASSUME NEW s \in SUBSET S PROVE h[s] \in Nat
      BY <2>7
    <3> QED
      BY <3>1
  <2>10. UpTo(h, n)
    <3>1. \A s \in SUBSET S : Cardinality(s) <= n => Cardinality(s) = n \/ Cardinality(s) <= n - 1
      BY <1>1, <2>5
    <3> HIDE DEF h
    <3> QED
      BY <2>7, <2>8, <3>1
  <2> HIDE DEF h, UpTo
  <2> QED
    BY <2>9, <2>10
<1>3. PICK g \in [SUBSET S -> Nat] : UpTo(g, Cardinality(S))
  BY <1>1, <1>2
<1>4. \A s \in SUBSET S : Right(g, s)
  BY <1>3, FS_Subset
<1> QED
  BY <1>4 DEF SumsUp

\* A sum is a number, at least each of the numbers it adds.
LEMMA SumsBound ==
  ASSUME NEW S, IsFiniteSet(S), NEW w, \A x \in S : w[x] \in Nat,
         NEW g, SumsUp(g, w, S)
  PROVE  \A s \in SUBSET S : g[s] \in Nat /\ \A x \in s : w[x] <= g[s]
<1> DEFINE Good(s) == g[s] \in Nat /\ \A x \in s : w[x] <= g[s]
           bad == {s \in SUBSET S : ~Good(s)}
<1>1. IsWellFoundedOn(StrictSubsetOrdering(S), SUBSET S)
  BY FS_StrictSubsetOrderingWellFounded, FS_FiniteSubsetsOfFinite
<1>2. SUFFICES ASSUME bad # {} PROVE FALSE
  OBVIOUS
<1>3. PICK s \in bad : \A t \in bad : <<t, s>> \notin StrictSubsetOrdering(S)
  <2>1. bad \subseteq SUBSET S
    OBVIOUS
  <2> HIDE DEF bad
  <2> QED
    BY <1>1, <1>2, <2>1, WFMin
<1>4. s # {}
  BY DEF SumsUp
<1> DEFINE rest == s \ {Pick(s)}
<1>5. Pick(s) \in s /\ rest \in SUBSET S
  BY <1>4, PickOne
<1>6. <<rest, s>> \in StrictSubsetOrdering(S)
  BY <1>5 DEF StrictSubsetOrdering
<1>7. Good(rest)
  BY <1>3, <1>5, <1>6
<1>8. g[s] = w[Pick(s)] + g[rest]
  BY <1>4 DEF SumsUp
<1>9. \A x \in s : x = Pick(s) \/ x \in rest
  OBVIOUS
<1>10. Good(s)
  <2>1. w[Pick(s)] \in Nat /\ g[rest] \in Nat /\ \A x \in s : w[x] \in Nat
    BY <1>5, <1>7
  <2>2. g[s] \in Nat /\ w[Pick(s)] <= g[s] /\ g[rest] <= g[s]
    BY <1>8, <2>1
  <2> HIDE DEF rest
  <2> QED
    BY <1>7, <1>9, <2>1, <2>2
<1> QED
  BY <1>10

\* The sum of one number is the number.
LEMMA SumOfOne ==
  ASSUME NEW S, NEW w, NEW x \in S, w[x] \in Nat, NEW g, SumsUp(g, w, S)
  PROVE  g[{x}] = w[x]
<1>1. Pick({x}) = x /\ {x} \ {x} = {}
  BY DEF Pick
<1>2. g[{}] = 0
  BY DEF SumsUp
<1>3. g[{x}] = w[x] + g[{}]
  BY <1>1 DEF SumsUp
<1> QED
  BY <1>2, <1>3

\* What MapThenSumSet adds up, as a function of the numbers.
Total(w, S) == MapThenSumSet(LAMBDA x : w[x], S)

LEMMA TotalIsASum ==
  ASSUME NEW S, IsFiniteSet(S), NEW w, \A x \in S : w[x] \in Nat
  PROVE  \E g : SumsUp(g, w, S) /\ Total(w, S) = g[S]
<1> DEFINE iter == CHOOSE g : SumsUp(g, w, S)
<1>1. SumsUp(iter, w, S)
  BY SumsExist
<1>2. Total(w, S) = iter[S]
  BY DEF Total, MapThenSumSet, MapThenFoldSet, SumsUp, Pick
<1> QED
  BY <1>1, <1>2

\* A total is a number, at least each of those it adds, and no more than the
\* only one there is.
LEMMA TotalFacts ==
  ASSUME NEW S, IsFiniteSet(S), NEW w, \A x \in S : w[x] \in Nat
  PROVE  /\ Total(w, S) \in Nat
         /\ \A x \in S : w[x] <= Total(w, S)
         /\ \A x : S = {x} => Total(w, S) = w[x]
<1>1. PICK g : SumsUp(g, w, S) /\ Total(w, S) = g[S]
  BY TotalIsASum
<1>2. g[S] \in Nat /\ \A x \in S : w[x] <= g[S]
  BY <1>1, SumsBound
<1>3. ASSUME NEW x, S = {x} PROVE g[S] = w[x]
  BY <1>1, <1>3, SumOfOne
<1> QED
  BY <1>1, <1>2, <1>3

-----------------------------------------------------------------------------
(* Rules and levels.                                                       *)

\* Every rule has one of the levels.
LEMMA RuleLevels == \A rule \in Rule : Rules[rule].level \in DOMAIN Severity
<1> SUFFICES ASSUME NEW rule \in Rule PROVE Rules[rule].level \in DOMAIN Severity
  OBVIOUS
<1> QED
  BY DEF Rule, Rules, Severity

\* Missing data is missing data.
LEMMA MissingLevels ==
  /\ {"height_missing", "weight_missing"} \subseteq Rule
  /\ \A rule \in {"height_missing", "weight_missing"} :
       Rules[rule].level = "data_insufficient"
  BY DEF Rule, Rules

\* The cascade of _route_level is a maximum.
LEMMA Cascade ==
  ASSUME NEW risks, \A x \in risks : x.rule \in Rule
  PROVE  /\ LevelOf(risks) \in DOMAIN Severity
         /\ \A x \in risks : Severity[Rules[x.rule].level] <= Severity[LevelOf(risks)]
         /\ LevelOf(risks) # "candidate" =>
              \E x \in risks : Rules[x.rule].level = LevelOf(risks)
<1> DEFINE levels == {Rules[x.rule].level : x \in risks}
           worst == LevelOf(risks)
<1>1. levels \subseteq DOMAIN Severity
  BY RuleLevels
<1>2. /\ worst \in DOMAIN Severity
      /\ worst # "candidate" => worst \in levels
      /\ \A l \in levels : Severity[l] <= Severity[worst]
  <2> HIDE DEF levels
  <2>1. worst = IF "exclusion_consideration" \in levels THEN "exclusion_consideration"
                ELSE IF "confirm_required" \in levels THEN "confirm_required"
                ELSE IF "data_insufficient" \in levels THEN "data_insufficient"
                ELSE IF "caution" \in levels THEN "caution"
                ELSE "candidate"
    BY DEF LevelOf, levels
  <2> HIDE DEF worst
  <2> QED
    BY <1>1, <2>1 DEF Severity
<1> QED
  BY <1>2

-----------------------------------------------------------------------------
(* Evaluation.                                                             *)

\* The stored features are features.
LEMMA StoredAreFeatures == TypeOK => StoredFeatures \subseteq Feature
  BY DEF TypeOK, StoredFeatures, Row

\* Whatever a feature is, some rule looks at it.
LEMMA EveryFeatureHasARule ==
  TypeOK => \A f \in Feature : RulesOf(f) # {}
<1> SUFFICES ASSUME TypeOK, NEW f \in Feature PROVE \E rule \in Rule : Meets(f, rule)
  BY DEF RulesOf
<1>1. CASE f.type = "bridge"
  BY <1>1 DEF Meets, Rule, Rules
<1>2. CASE f.type = "school"
  BY <1>2 DEF Meets, Rule, Rules
<1>3. CASE f.type \in {"tunnel", "osm_quality", "hospital", "residential", "traffic",
                       "disaster"}
  <2>1. f.type \in Rule
    BY <1>3 DEF Rule, Rules
  <2> QED
    BY <1>3, <2>1 DEF Meets
<1> QED
  BY <1>1, <1>2, <1>3 DEF Feature, FeatureType

\* The risks of an evaluation are rows, of the rules there are.
LEMMA RisksFit ==
  ASSUME TypeOK, NEW sources
  PROVE  /\ Risks(sources) \subseteq Row
         /\ \A x \in Risks(sources) : x.rule \in Rule
<1>1. Included(sources) \subseteq Feature
  BY StoredAreFeatures DEF Included
<1> QED
  BY <1>1 DEF Risks, RulesOf, Row

\* The features of the risks are those the filter lets through.
LEMMA RiskFeatures ==
  ASSUME TypeOK, NEW sources
  PROVE  {x.feature : x \in Risks(sources)} \ {NoFeature} = Included(sources)
<1>1. Included(sources) \subseteq Feature /\ NoFeature \notin Included(sources)
  BY StoredAreFeatures DEF Included, StoredFeatures
<1>2. ASSUME NEW f \in Included(sources)
      PROVE  \E x \in Risks(sources) : x.feature = f
  <2>1. PICK rule \in RulesOf(f) : TRUE
    BY <1>1, EveryFeatureHasARule
  <2>2. [feature |-> f, rule |-> rule] \in [feature : {f}, rule : RulesOf(f)]
    BY <2>1
  <2> QED
    BY <2>2 DEF Risks
<1>3. ASSUME NEW x \in Risks(sources), x.feature # NoFeature
      PROVE  x.feature \in Included(sources)
  BY <1>3 DEF Risks
<1> QED
  BY <1>1, <1>2, <1>3

\* The rows after an evaluation are its risks, and its level is their level.
LEMMA EvaluateEffect ==
  ASSUME TypeOK, NEW sources, Evaluate(sources)
  PROVE  /\ DOMAIN rows' = Risks(sources)
         /\ level' = LevelOf(Risks(sources))
         /\ StoredFeatures' = Included(sources)
         /\ Risks(sources)' = Risks(sources)
<1>1. DOMAIN rows' = Risks(sources) /\ level' = LevelOf(Risks(sources))
  BY DEF Evaluate, Bag
<1>2. StoredFeatures' = {x.feature : x \in Risks(sources)} \ {NoFeature}
  BY <1>1 DEF StoredFeatures
<1>3. StoredFeatures' = Included(sources)
  BY <1>2, RiskFeatures
<1>4. Included(sources)' = Included(sources)
  BY <1>3 DEF Included
<1>5. vehicle' = vehicle /\ window' = window
  BY DEF Evaluate, project
<1>6. \A f : RulesOf(f)' = RulesOf(f)
  BY <1>5 DEF RulesOf, Meets
<1>7. \A rule : Missing(rule)' = Missing(rule)
  BY <1>5 DEF Missing
<1>8. Risks(sources)' = Risks(sources)
  BY <1>4, <1>6, <1>7 DEF Risks
<1> QED
  BY <1>1, <1>3, <1>8

-----------------------------------------------------------------------------
(* How often a row and a feature occur, and what a bag of risks scores.    *)

LEMMA FourFinite == \A a, b, c, d : IsFiniteSet({a, b, c, d})
<1> SUFFICES ASSUME NEW a, NEW b, NEW c, NEW d PROVE IsFiniteSet({a, b, c, d})
  OBVIOUS
<1>1. IsFiniteSet({a}) /\ IsFiniteSet({b}) /\ IsFiniteSet({c}) /\ IsFiniteSet({d})
  BY FS_Singleton
<1>2. IsFiniteSet({a} \cup {b}) /\ IsFiniteSet({c} \cup {d})
  BY <1>1, FS_Union
<1>3. IsFiniteSet(({a} \cup {b}) \cup ({c} \cup {d}))
  BY <1>2, FS_Union
<1>4. {a, b, c, d} = ({a} \cup {b}) \cup ({c} \cup {d})
  OBVIOUS
<1> QED
  BY <1>3, <1>4

\* There are finitely many different rows.
LEMMA RowFinite == IsFiniteSet(Row)
<1> DEFINE T1 == {"bridge", "tunnel", "osm_quality", "school"}
           T2 == {"hospital", "residential", "traffic", "disaster"}
           R1 == {"bridge_weight", "bridge_heavy", "tunnel", "osm_quality"}
           R2 == {"school_peak", "school", "hospital", "residential"}
           R3 == {"traffic", "disaster", "height_missing", "weight_missing"}
<1>1. FeatureType = T1 \cup T2 /\ Rule = (R1 \cup R2) \cup R3
  BY DEF FeatureType, Rule, Rules
<1>2. IsFiniteSet(T1) /\ IsFiniteSet(T2)
  BY FourFinite
<1>3. IsFiniteSet(R1) /\ IsFiniteSet(R2) /\ IsFiniteSet(R3)
  BY FourFinite
<1>4. IsFiniteSet({"osm", "ksj", "xroad"})
  <2>1. {"osm", "ksj", "xroad"} = {"osm", "ksj", "xroad", "xroad"}
    OBVIOUS
  <2> QED
    BY <2>1, FourFinite
<1>5. IsFiniteSet(FeatureType)
  <2> HIDE DEF T1, T2
  <2> QED
    BY <1>1, <1>2, FS_Union
<1>6. IsFiniteSet(Rule)
  <2> HIDE DEF R1, R2, R3
  <2>1. IsFiniteSet(R1 \cup R2)
    BY <1>3, FS_Union
  <2> QED
    BY <1>1, <1>3, <2>1, FS_Union
<1>7. IsFiniteSet(Feature)
  <2> DEFINE P == FeatureType \X {"osm", "ksj", "xroad"}
             f == [p \in P |-> [type |-> p[1], source |-> p[2]]]
  <2>1. IsFiniteSet(P)
    BY <1>4, <1>5, FS_Product
  <2>2. f \in Surjection(P, Feature)
    <3>1. \A p \in P : f[p] \in Feature
      BY DEF Feature
    <3>2. ASSUME NEW x \in Feature PROVE \E p \in P : f[p] = x
      <4>1. <<x.type, x.source>> \in P
        BY DEF Feature
      <4>2. f[<<x.type, x.source>>] = x
        BY <4>1 DEF Feature
      <4> QED
        BY <4>1, <4>2
    <3> QED
      BY <3>1, <3>2 DEF Surjection
  <2> HIDE DEF P, f
  <2> QED
    BY <2>1, <2>2, FS_Surjection
<1>8. IsFiniteSet(Feature \cup {NoFeature}) /\ IsFiniteSet(Rule \cup {Placeholder})
  BY <1>6, <1>7, FS_AddElement
<1> DEFINE Q == (Feature \cup {NoFeature}) \X (Rule \cup {Placeholder})
           g == [p \in Q |-> [feature |-> p[1], rule |-> p[2]]]
<1>9. IsFiniteSet(Q)
  BY <1>8, FS_Product
<1>10. g \in Surjection(Q, Row)
  <2>1. \A p \in Q : g[p] \in Row
    BY DEF Row
  <2>2. ASSUME NEW x \in Row PROVE \E p \in Q : g[p] = x
    <3>1. <<x.feature, x.rule>> \in Q
      BY DEF Row
    <3>2. g[<<x.feature, x.rule>>] = x
      BY <3>1 DEF Row
    <3> QED
      BY <3>1, <3>2
  <2> QED
    BY <2>1, <2>2 DEF Surjection
<1> HIDE DEF Q, g
<1> QED
  BY <1>9, <1>10, FS_Surjection

\* The copies of a feature are a total over its rows, now and after a step.
LEMMA CopiesAreTotals ==
  LET Equation == \A f : Copies(f) = Total(rows, {y \in DOMAIN rows : y.feature = f})
  IN  Equation /\ Equation'
<1> DEFINE Equation == \A f : Copies(f) = Total(rows, {y \in DOMAIN rows : y.feature = f})
<1>1. Equation
  BY DEF Copies, Total
<1>2. Equation'
  BY <1>1, PTL
<1> QED
  BY <1>1, <1>2

\* A feature occurs at least as often as each of its rows, and as often as
\* the only one it has.
LEMMA CopiesFacts ==
  ASSUME TypeOK, NEW f
  PROVE  /\ Copies(f) \in Nat
         /\ f \in StoredFeatures => Copies(f) > 0
         /\ \A x : {y \in DOMAIN rows : y.feature = f} = {x} => Copies(f) = rows[x]
<1> DEFINE S == {y \in DOMAIN rows : y.feature = f}
<1>1. IsFiniteSet(S) /\ \A y \in S : rows[y] \in Nat \ {0}
  BY RowFinite, FS_Subset DEF TypeOK
<1>2. Copies(f) = Total(rows, S)
  BY CopiesAreTotals
<1>3. f \in StoredFeatures => S # {}
  BY DEF StoredFeatures
<1>4. /\ Total(rows, S) \in Nat
      /\ \A y \in S : rows[y] <= Total(rows, S)
      /\ \A x : S = {x} => Total(rows, S) = rows[x]
  <2> HIDE DEF S
  <2> QED
    BY <1>1, TotalFacts
<1> HIDE DEF S
<1>5. S # {} => Total(rows, S) > 0
  BY <1>1, <1>4
<1> QED
  BY <1>2, <1>3, <1>4, <1>5 DEF S

\* The risks of an evaluation occur as often as their features.
LEMMA BagCounts ==
  ASSUME TypeOK, NEW sources
  PROVE  /\ DOMAIN Bag(Risks(sources)) = Risks(sources)
         /\ \A x \in Risks(sources) : Bag(Risks(sources))[x] \in Nat \ {0}
<1>1. \A x \in Risks(sources) : x.feature = NoFeature \/ x.feature \in StoredFeatures
  BY DEF Risks, Included
<1>2. \A f \in StoredFeatures : Copies(f) \in Nat \ {0}
  BY CopiesFacts
<1> QED
  BY <1>1, <1>2 DEF Bag

\* A bag of risks scores a number of points, of which 100 count.
LEMMA ScoreType ==
  ASSUME NEW bag, DOMAIN bag \subseteq Row,
         \A x \in DOMAIN bag : x.rule \in Rule /\ bag[x] \in Nat
  PROVE  ScoreOf(bag) \in 0..100
<1> DEFINE D == DOMAIN bag
           points == [x \in D |-> bag[x] * Rules[x.rule].score]
           Step(g) == [s \in SUBSET D |->
                         IF s = {} THEN 0
                         ELSE bag[Pick(s)] * Rules[Pick(s).rule].score + g[s \ {Pick(s)}]]
           iter == CHOOSE g : g = Step(g)
<1>1. \A rule \in Rule : Rules[rule].score \in Nat
  <2> SUFFICES ASSUME NEW rule \in Rule PROVE Rules[rule].score \in Nat
    OBVIOUS
  <2> QED
    BY DEF Rule, Rules
<1>2. IsFiniteSet(D) /\ \A x \in D : points[x] \in Nat
  <2>1. \A x \in D : bag[x] \in Nat /\ Rules[x.rule].score \in Nat
    BY <1>1
  <2>2. \A m, n \in Nat : m * n \in Nat
    OBVIOUS
  <2> QED
    BY <2>1, <2>2, RowFinite, FS_Subset
<1>3. \A g : g = Step(g) <=> SumsUp(g, points, D)
  <2>1. \A s \in SUBSET D : s # {} =>
          points[Pick(s)] = bag[Pick(s)] * Rules[Pick(s).rule].score
    BY <1>2, PickOne
  <2> HIDE DEF points
  <2> QED
    BY <2>1 DEF SumsUp
<1>4. \E g : SumsUp(g, points, D)
  <2> HIDE DEF points, D
  <2> QED
    BY <1>2, SumsExist
<1>5. SumsUp(iter, points, D)
  <2> HIDE DEF Step, points, D
  <2> QED
    BY <1>3, <1>4
<1>6. iter[D] \in Nat
  <2> HIDE DEF iter, points, D
  <2> QED
    BY <1>2, <1>5, SumsBound
<1>7. ScoreOf(bag) = AtMost(iter[D], 100)
  BY DEF ScoreOf, MapThenSumSet, MapThenFoldSet, Pick
<1> HIDE DEF iter
<1> QED
  BY <1>6, <1>7 DEF AtMost

-----------------------------------------------------------------------------
(* The invariant.                                                          *)

\* A vehicle below 44 t meets one rule at each feature.
LEMMA OneRule ==
  ASSUME TypeOK, vehicle.weight # "heavy", NEW f \in Feature
  PROVE  \A r, s \in RulesOf(f) : r = s
<1> SUFFICES ASSUME NEW r, NEW s, Meets(f, r), Meets(f, s) PROVE r = s
  BY DEF RulesOf
<1>1. CASE f.type = "bridge"
  BY <1>1 DEF Meets
<1>2. CASE f.type = "school"
  BY <1>2 DEF Meets
<1>3. CASE f.type \notin {"bridge", "school"}
  BY <1>3 DEF Meets
<1> QED
  BY <1>1, <1>2, <1>3

\* What an evaluation writes is what it would write again: a feature that has
\* one risk is rebuilt as often as it occurred.
LEMMA EvaluateAgain ==
  ASSUME EvaluationInv, NEW sources, Evaluate(sources), TypeOK'
  PROVE  EvaluatedAgain'
<1>1. /\ DOMAIN rows' = Risks(sources)
      /\ level' = LevelOf(Risks(sources))
      /\ StoredFeatures' = Included(sources)
      /\ Risks(sources)' = Risks(sources)
  BY EvaluateEffect DEF EvaluationInv
<1>2. rows' = Bag(Risks(sources)) /\ score' = ScoreOf(Bag(Risks(sources)))
  BY DEF Evaluate
<1>3. fresh' = sources /\ vehicle' = vehicle
  BY DEF Evaluate, project
<1>4. SUFFICES ASSUME vehicle.weight # "heavy"
               PROVE  Bag(Risks(sources))' = Bag(Risks(sources))
  BY <1>1, <1>2, <1>3 DEF EvaluatedAgain
<1>5. ASSUME NEW x \in Risks(sources), x.feature # NoFeature
      PROVE  Copies(x.feature)' = Copies(x.feature)
  <2>1. x.feature \in Feature
    <3>1. x.feature \in Included(sources)
      BY <1>5, RiskFeatures DEF EvaluationInv
    <3> QED
      BY <3>1, StoredAreFeatures DEF EvaluationInv, Included
  <2>2. ASSUME NEW y \in Risks(sources), y.feature = x.feature
        PROVE  y = x
    <3>1. x \in Row /\ y \in Row
      BY RisksFit DEF EvaluationInv
    <3>2. x.rule \in RulesOf(x.feature) /\ y.rule \in RulesOf(x.feature)
      BY <1>5, <2>2 DEF Risks
    <3>3. x.rule = y.rule
      BY <1>4, <2>1, <3>2, OneRule DEF EvaluationInv
    <3> QED
      BY <2>2, <3>1, <3>3 DEF Row
  <2>3. {y \in DOMAIN rows' : y.feature = x.feature} = {x}
    BY <1>1, <2>2
  <2>4. Copies(x.feature)' = rows'[x]
    <3>1. Copies(x.feature)' = Total(rows', {x})
      BY <2>3, CopiesAreTotals
    <3>2. IsFiniteSet({x}) /\ rows'[x] \in Nat
      BY <1>1, FS_Singleton DEF TypeOK
    <3> QED
      BY <3>1, <3>2, TotalFacts
  <2>5. rows'[x] = Copies(x.feature)
    BY <1>2, <1>5 DEF Bag
  <2> QED
    BY <2>4, <2>5
<1> QED
  BY <1>1, <1>5 DEF Bag

LEMMA EvaluateStep ==
  ASSUME EvaluationInv, NEW sources \in SourceChoices \cup {{}}, Evaluate(sources)
  PROVE  EvaluationInv'
<1> DEFINE risks == Risks(sources)
<1>1. risks \subseteq Row /\ \A x \in risks : x.rule \in Rule
  BY RisksFit DEF EvaluationInv
<1>2. DOMAIN rows' = risks /\ level' = LevelOf(risks)
  BY EvaluateEffect DEF EvaluationInv
<1>3. /\ LevelOf(risks) \in DOMAIN Severity
      /\ \A x \in risks : Severity[Rules[x.rule].level] <= Severity[LevelOf(risks)]
      /\ LevelOf(risks) # "candidate" =>
           \E x \in risks : Rules[x.rule].level = LevelOf(risks)
  BY <1>1, Cascade
<1>4. vehicle' = vehicle /\ window' = window /\ status' = "evaluated"
  BY DEF Evaluate, project
<1>5. ASSUME "unknown" \in {vehicle.height, vehicle.weight}
      PROVE  \E x \in risks : x.rule \in {"height_missing", "weight_missing"}
  <2>1. PICK rule \in {"height_missing", "weight_missing"} : Missing(rule)
    BY <1>5 DEF Missing
  <2>2. [feature |-> NoFeature, rule |-> rule]
          \in [feature : {NoFeature}, rule : {r \in Rule : Missing(r)}]
    BY <2>1, MissingLevels
  <2>3. [feature |-> NoFeature, rule |-> rule] \in risks
    BY <2>2 DEF Risks
  <2>4. [feature |-> NoFeature, rule |-> rule].rule = rule
    OBVIOUS
  <2> HIDE DEF risks
  <2> QED
    BY <2>1, <2>3, <2>4
<1> HIDE DEF risks
<1>6. TypeOK'
  <2>1. rows' = Bag(risks) /\ score' = ScoreOf(Bag(risks)) /\ fresh' = sources
    BY DEF Evaluate, risks
  <2>2. /\ DOMAIN Bag(risks) = risks
        /\ \A x \in risks : Bag(risks)[x] \in Nat \ {0}
    BY BagCounts DEF EvaluationInv, risks
  <2>3. ScoreOf(Bag(risks)) \in 0..100
    BY <1>1, <2>2, ScoreType
  <2> QED
    BY <1>1, <1>2, <1>3, <1>4, <2>1, <2>2, <2>3 DEF EvaluationInv, TypeOK
<1>7. LevelIsWorst'
  BY <1>1, <1>2, <1>3 DEF LevelIsWorst
<1>8. MissingInRows'
  BY <1>2, <1>4, <1>5 DEF MissingInRows
<1>9. EvaluatedAgain'
  BY <1>6, EvaluateAgain
<1> QED
  BY <1>6, <1>7, <1>8, <1>9 DEF EvaluationInv

\* What an answer is made of: the samples of the type, or what Overpass knows.
LEMMA CandidatesHaveFeatures ==
  ASSUME NEW t, NEW routed \in RoutedFeatures(t),
         NEW start \in Answers, NEW destination \in Answers
  PROVE  LET features == CandidateFeatures(routed, start, destination)
         IN  /\ DOMAIN features \subseteq Feature
             /\ \A f \in DOMAIN features : features[f] \in Nat \ {0}
<1>1. \A type \in FeatureType : Overlay(type) \in Feature
  BY DEF Overlay, Feature
<1>2. routed \subseteq Feature
  <2>1. SampleTypes(t) \subseteq FeatureType
    BY DEF SampleTypes, FeatureType
  <2> QED
    BY <1>1, <2>1 DEF RoutedFeatures
<1>3. \A s \in Answers : s \subseteq Feature
  <2>1. OverpassFeature \subseteq Feature
    BY DEF OverpassFeature, Feature, FeatureType
  <2>2. FullOverlay \subseteq Feature
    BY <1>1 DEF FullOverlay
  <2> QED
    BY <2>1, <2>2, AnswerAssumption DEF Answers
<1>4. ASSUME NEW f \in start \cup destination
      PROVE  Cardinality({n \in 1..2 : f \in <<start, destination>>[n]}) \in Nat \ {0}
  <2> DEFINE ends == {n \in 1..2 : f \in <<start, destination>>[n]}
  <2>1. IsFiniteSet(ends)
    BY FS_Interval, FS_Subset
  <2>2. ends # {}
    <3>1. CASE f \in start
      BY <3>1 DEF ends
    <3>2. CASE f \in destination
      BY <3>2 DEF ends
    <3> QED
      BY <3>1, <3>2
  <2> HIDE DEF ends
  <2>3. Cardinality(ends) \in Nat /\ Cardinality(ends) # 0
    BY <2>1, <2>2, FS_CardinalityType, FS_EmptySet
  <2> QED
    BY <2>3 DEF ends
<1> QED
  BY <1>2, <1>3, <1>4 DEF CandidateFeatures

LEMMA GenerateStep ==
  ASSUME EvaluationInv, NEW features, DOMAIN features \subseteq Feature,
         \A f \in DOMAIN features : features[f] \in Nat \ {0}, Generate(features)
  PROVE  EvaluationInv'
<1>1. /\ DOMAIN rows' \subseteq Row
      /\ \A x \in DOMAIN rows' : rows'[x] \in Nat \ {0}
      /\ score' = 0
      /\ level' \in DOMAIN Severity
      /\ status' = "pending" /\ fresh' = NotFresh
      /\ vehicle' = vehicle /\ window' = window
  BY DEF Generate, Row, project, Severity
<1> QED
  BY <1>1 DEF EvaluationInv, TypeOK, LevelIsWorst, MissingInRows, EvaluatedAgain

LEMMA EditStep ==
  ASSUME EvaluationInv, NEW v \in Vehicle, NEW w \in Window, EditProject(v, w)
  PROVE  EvaluationInv'
  BY DEF EditProject, EvaluationInv, TypeOK, LevelIsWorst, MissingInRows, EvaluatedAgain

\* A step generates, edits, or evaluates.
LEMMA EvaluationCases ==
  ASSUME Next
  PROVE  \/ \E v \in Vehicle, w \in Window : EditProject(v, w)
         \/ \E features : /\ DOMAIN features \subseteq Feature
                          /\ \A f \in DOMAIN features : features[f] \in Nat \ {0}
                          /\ Generate(features)
         \/ \E sources \in SourceChoices \cup {{}} : Evaluate(sources)
  BY CandidatesHaveFeatures DEF Next, Report

LEMMA EvaluationInvNext == EvaluationInv /\ [Next]_vars => EvaluationInv'
<1> SUFFICES ASSUME EvaluationInv, [Next]_vars PROVE EvaluationInv'
  OBVIOUS
<1>1. CASE Next
  BY <1>1, EvaluationCases, EvaluateStep, GenerateStep, EditStep
<1>2. CASE UNCHANGED vars
  <2>1. EvaluatedAgain'
    <3>1. UNCHANGED <<vehicle, window, rows, score, level, fresh>>
      BY <1>2 DEF vars
    <3>2. \A f : Copies(f)' = Copies(f)
      BY <3>1, CopiesAreTotals
    <3>3. Included(fresh)' = Included(fresh)
      BY <3>1 DEF Included, StoredFeatures
    <3>4. (\A f : RulesOf(f)' = RulesOf(f)) /\ (\A rule : Missing(rule)' = Missing(rule))
      BY <3>1 DEF RulesOf, Meets, Missing
    <3>5. Risks(fresh)' = Risks(fresh)
      BY <3>3, <3>4 DEF Risks
    <3>6. Bag(Risks(fresh))' = Bag(Risks(fresh))
      BY <3>2, <3>5 DEF Bag
    <3> QED
      BY <3>1, <3>5, <3>6 DEF EvaluationInv, EvaluatedAgain
  <2> QED
    BY <1>2, <2>1 DEF vars, EvaluationInv, TypeOK, LevelIsWorst, MissingInRows
<1> QED
  BY <1>1, <1>2

LEMMA EvaluationInvInit == Init => EvaluationInv
  BY DEF Init, EvaluationInv, TypeOK, LevelIsWorst, MissingInRows, Severity,
     EvaluatedAgain

-----------------------------------------------------------------------------
(* Theorems.                                                               *)

\* The invariant holds, whatever is generated, edited, evaluated and reported.
THEOREM SpecEvaluationInv == Spec => []EvaluationInv
  BY EvaluationInvInit, EvaluationInvNext, PTL DEF Spec

\* A score is a number from 0 to 100, a row is there once or more often.
THEOREM SpecTypeOK == Spec => []TypeOK
<1>1. EvaluationInv => TypeOK
  BY DEF EvaluationInv
<1> QED
  BY <1>1, SpecEvaluationInv, PTL

\* The stored level is that of the most serious stored risk.
THEOREM SpecLevelIsWorst == Spec => []LevelIsWorst
<1>1. EvaluationInv => LevelIsWorst
  BY DEF EvaluationInv
<1> QED
  BY <1>1, SpecEvaluationInv, PTL

\* Whoever leaves out the height or the weight sees it in the level.
THEOREM SpecMissingDataIsShown == Spec => []MissingDataIsShown
<1>1. EvaluationInv => MissingDataIsShown
  <2> SUFFICES ASSUME EvaluationInv, fresh # NotFresh,
                      "unknown" \in {vehicle.height, vehicle.weight}
               PROVE  Severity[level] >= Severity["data_insufficient"]
    BY DEF MissingDataIsShown
  <2>1. PICK x \in DOMAIN rows : x.rule \in {"height_missing", "weight_missing"}
    BY DEF EvaluationInv, MissingInRows
  <2>2. Rules[x.rule].level = "data_insufficient"
    BY <2>1, MissingLevels
  <2>3. Severity["data_insufficient"] <= Severity[level]
    BY <2>2 DEF EvaluationInv, MissingInRows, LevelIsWorst
  <2>4. Severity[level] \in Nat /\ Severity["data_insufficient"] \in Nat
    BY DEF EvaluationInv, TypeOK, Severity
  <2> QED
    BY <2>3, <2>4
<1> QED
  BY <1>1, SpecEvaluationInv, PTL

\* An evaluation brings no feature a generate call has not brought.
THEOREM SpecFeaturesOnlyShrink == Spec => FeaturesOnlyShrink
<1>1. ASSUME EvaluationInv, [Next]_vars, status' = "evaluated"
      PROVE  StoredFeatures' \subseteq StoredFeatures
  <2>1. ASSUME NEW sources, Evaluate(sources)
        PROVE  StoredFeatures' \subseteq StoredFeatures
    BY <1>1, <2>1, EvaluateEffect DEF EvaluationInv, Included
  <2>2. ASSUME NEW features, Generate(features) PROVE FALSE
    BY <1>1, <2>2 DEF Generate
  <2>3. ASSUME rows' = rows PROVE StoredFeatures' \subseteq StoredFeatures
    BY <2>3 DEF StoredFeatures
  <2> QED
    BY <1>1, <2>1, <2>2, <2>3, EvaluationCases DEF EditProject, vars
<1>2. EvaluationInv /\ [Next]_vars =>
        [status' = "evaluated" => StoredFeatures' \subseteq StoredFeatures]_vars
  BY <1>1
<1> QED
  BY <1>2, SpecEvaluationInv, PTL DEF Spec, FeaturesOnlyShrink

\* An evaluation of every source keeps every feature.
THEOREM SpecFullEvaluationKeepsFeatures == Spec => FullEvaluationKeepsFeatures
<1>1. ASSUME EvaluationInv, [Next]_vars, status' = "evaluated", fresh' = {}
      PROVE  StoredFeatures' = StoredFeatures
  <2>1. ASSUME NEW sources, Evaluate(sources)
        PROVE  StoredFeatures' = StoredFeatures
    <3>1. sources = {}
      BY <1>1, <2>1 DEF Evaluate
    <3> QED
      BY <1>1, <2>1, <3>1, EvaluateEffect DEF EvaluationInv, Included
  <2>2. ASSUME NEW features, Generate(features) PROVE FALSE
    BY <1>1, <2>2 DEF Generate
  <2>3. ASSUME rows' = rows PROVE StoredFeatures' = StoredFeatures
    BY <2>3 DEF StoredFeatures
  <2> QED
    BY <1>1, <2>1, <2>2, <2>3, EvaluationCases DEF EditProject, vars
<1>2. EvaluationInv /\ [Next]_vars =>
        [status' = "evaluated" /\ fresh' = {} => StoredFeatures' = StoredFeatures]_vars
  BY <1>1
<1> QED
  BY <1>2, SpecEvaluationInv, PTL DEF Spec, FullEvaluationKeepsFeatures

\* The same evaluation twice gives the same rows, score and level
\* (repository.py: rules and coordinates are stable across evaluations).
THEOREM SpecReEvaluationIsStable == Spec => ReEvaluationIsStable
<1> DEFINE Stable == fresh' = fresh /\ fresh # NotFresh /\ vehicle.weight # "heavy" =>
                       UNCHANGED <<rows, score, level>>
<1>1. ASSUME EvaluationInv, [Next]_vars PROVE Stable
  <2>1. SUFFICES ASSUME fresh' = fresh, fresh # NotFresh, vehicle.weight # "heavy"
                 PROVE  UNCHANGED <<rows, score, level>>
    OBVIOUS
  <2>2. ASSUME NEW sources, Evaluate(sources) PROVE UNCHANGED <<rows, score, level>>
    <3>1. sources = fresh
      BY <2>1, <2>2 DEF Evaluate
    <3> QED
      BY <1>1, <2>1, <2>2, <3>1 DEF Evaluate, EvaluationInv, EvaluatedAgain
  <2>3. ASSUME NEW features, Generate(features) PROVE FALSE
    BY <2>1, <2>3 DEF Generate
  <2> QED
    BY <1>1, <2>1, <2>2, <2>3, EvaluationCases DEF EditProject, vars
<1>2. EvaluationInv /\ [Next]_vars => [Stable]_vars
  BY <1>1
<1> QED
  BY <1>2, SpecEvaluationInv, PTL DEF Spec, ReEvaluationIsStable

-----------------------------------------------------------------------------
(* What a plain candidate is.                                              *)

\* Every rule is at least a reason for caution, so "candidate" is what is
\* left when an evaluation has found nothing at all: no feature, and no vehicle
\* data missing.
THEOREM SpecPlainCandidateIsEmpty ==
  Spec => [](status = "evaluated" => (level = "candidate" <=> DOMAIN rows = {}))
<1>1. EvaluationInv =>
        (status = "evaluated" => (level = "candidate" <=> DOMAIN rows = {}))
  <2> SUFFICES ASSUME EvaluationInv, status = "evaluated"
               PROVE  level = "candidate" <=> DOMAIN rows = {}
    OBVIOUS
  <2>1. \A x \in DOMAIN rows :
          x.rule \in Rule /\ Severity[Rules[x.rule].level] <= Severity[level]
    BY DEF EvaluationInv, LevelIsWorst
  <2>2. \A rule \in Rule : ~(Severity[Rules[rule].level] <= Severity["candidate"])
    BY DEF Rule, Rules, Severity
  <2>3. level # "candidate" => DOMAIN rows # {}
    BY DEF EvaluationInv, LevelIsWorst
  <2> QED
    BY <2>1, <2>2, <2>3
<1> QED
  BY <1>1, SpecEvaluationInv, PTL

\* Where no candidate comes from OSRM and no filter leaves OpenStreetMap out,
\* a candidate always keeps a feature of that source.
OsmIncluded ==
  /\ ~OsrmEnabled
  /\ \A sources \in SourceChoices : sources = {} \/ "osm" \in sources

OsmKept == status # "none" => \E f \in StoredFeatures : f.source = "osm"

\* The built-in samples have a bridge, and all Overpass answers is of OSM.
LEMMA CandidatesHaveOsm ==
  ASSUME OsmIncluded, NEW t, NEW routed \in RoutedFeatures(t),
         NEW start \in Answers, NEW destination \in Answers
  PROVE  \E f \in DOMAIN CandidateFeatures(routed, start, destination) :
           f.source = "osm"
<1>1. Overlay("bridge").source = "osm"
  BY DEF Overlay
<1>2. Overlay("bridge") \in routed
  BY DEF OsmIncluded, RoutedFeatures, SampleTypes
<1>3. \A s \in Answers : s # {} => \E f \in s : f.source = "osm"
  <2>1. Overlay("bridge") \in FullOverlay
    BY DEF FullOverlay, FeatureType
  <2>2. \A s \in OverpassAnswers : \A f \in s : f.source = "osm"
    BY AnswerAssumption DEF OverpassFeature
  <2> QED
    BY <1>1, <2>1, <2>2 DEF Answers
<1>4. CASE start \cup destination = {}
  <2>1. DOMAIN CandidateFeatures(routed, start, destination) = routed
    BY <1>4 DEF CandidateFeatures
  <2> QED
    BY <1>1, <1>2, <2>1
<1>5. CASE start \cup destination # {}
  <2>1. DOMAIN CandidateFeatures(routed, start, destination) = start \cup destination
    BY <1>5 DEF CandidateFeatures
  <2> QED
    BY <1>3, <1>5, <2>1
<1> QED
  BY <1>4, <1>5

LEMMA OsmKeptNext ==
  ASSUME OsmIncluded, TypeOK, OsmKept, [Next]_vars
  PROVE  OsmKept'
<1>1. ASSUME NEW sources \in SourceChoices \cup {{}}, Evaluate(sources)
      PROVE  OsmKept'
  <2>1. status # "none" /\ StoredFeatures' = Included(sources)
    BY <1>1, EvaluateEffect DEF Evaluate
  <2>2. sources = {} \/ "osm" \in sources
    BY DEF OsmIncluded
  <2> QED
    BY <2>1, <2>2 DEF OsmKept, Included
<1>2. ASSUME NEW t, NEW routed \in RoutedFeatures(t),
             NEW start \in Answers, NEW destination \in Answers,
             Generate(CandidateFeatures(routed, start, destination))
      PROVE  OsmKept'
  <2> DEFINE features == CandidateFeatures(routed, start, destination)
  <2>1. PICK f \in DOMAIN features : f.source = "osm"
    BY <1>2, CandidatesHaveOsm
  <2>2. DOMAIN features \subseteq Feature
    BY <1>2, CandidatesHaveFeatures
  <2> HIDE DEF features
  <2>3. [feature |-> f, rule |-> Placeholder] \in DOMAIN rows'
    BY <1>2, <2>1 DEF Generate, features
  <2>4. f \in StoredFeatures'
    BY <2>1, <2>2, <2>3, MarkAssumption DEF StoredFeatures
  <2> QED
    BY <2>1, <2>4 DEF OsmKept
<1>3. ASSUME UNCHANGED <<rows, status>> PROVE OsmKept'
  BY <1>3 DEF OsmKept, StoredFeatures
<1> QED
  BY <1>1, <1>2, <1>3 DEF Next, Report, EditProject, vars

\* The detailed design, line 1275, "missing data is never no problem", holds
\* where candidates are the built-in ones and every evaluation includes
\* OpenStreetMap; no_data_candidate shows that it does not where OSRM routes.
THEOREM SpecNoDataNeverCandidate ==
  OsmIncluded => (Spec => []NoDataNeverCandidate)
<1> SUFFICES ASSUME OsmIncluded PROVE Spec => []NoDataNeverCandidate
  OBVIOUS
<1>1. Init => OsmKept
  BY DEF Init, OsmKept
<1>2. TypeOK /\ OsmKept /\ [Next]_vars => OsmKept'
  BY OsmKeptNext
<1>3. OsmKept /\ (status = "evaluated" => (level = "candidate" <=> DOMAIN rows = {}))
        => NoDataNeverCandidate
  BY DEF OsmKept, NoDataNeverCandidate, StoredFeatures
<1> QED
  BY <1>1, <1>2, <1>3, SpecTypeOK, SpecPlainCandidateIsEmpty, PTL DEF Spec
=============================================================================
