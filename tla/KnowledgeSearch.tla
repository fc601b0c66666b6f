---------------------------- MODULE KnowledgeSearch ----------------------------
(***************************************************************************)
(* The answer of the knowledge search, src/app/knowledge.py: of its texts, *)
(* only whom the planner is told to ask.  Topics match by keyword, in any  *)
(* combination.                                                            *)
(***************************************************************************)
EXTENDS Naturals, FiniteSets

Topic == 1 .. 10

\* The mark of a target that every answer is given.
Always == 0

Asks(topic, target) == [topic |-> topic, target |-> target]

\* The confirmation targets of _RULES, topic by topic, and _BASE_TARGETS.
Targets == <<
  Asks(1, "bridge_ledger"),                 \* bridges, weight limits
  Asks(2, "height_signs"),                  \* tunnels, height limits
  Asks(3, "width_survey"),                  \* narrow roads
  Asks(3, "guides"),
  Asks(4, "school"),                        \* schools
  Asks(5, "hospital"),                      \* hospitals
  Asks(6, "railway"),                       \* level crossings
  Asks(7, "weather"),                       \* disasters
  Asks(8, "traffic_police"),                \* traffic
  Asks(9, "neighbours"),                    \* night deliveries
  Asks(10, "special_vehicle_permit"),       \* special vehicles
  Asks(10, "road_use_permit"),
  Asks(Always, "road_administrator"),
  Asks(Always, "police_station"),
  Asks(Always, "carriers") >>

MaxTargets == 6

VARIABLES
  matched,  \* the topics whose keywords are in the query
  targets   \* the confirmation targets of the answer; none before there is one

searchVars == <<matched, targets>>

SearchInit == matched = {} /\ targets = {}

\* The targets an answer mentions are known by their places in the table, which
\* are in the order of the answer: matched topics first, base targets last.
Mentioned(topics) == {i \in DOMAIN Targets : Targets[i].topic \in topics \cup {Always}}

\* Every target once, where it is first mentioned.
Distinct(mentions) ==
  {i \in mentions :
     \A k \in mentions : Targets[k].target = Targets[i].target => i <= k}

\* The first six.
Cut(mentions) == {i \in mentions : Cardinality({k \in mentions : k < i}) < MaxTargets}

\* Fault: the base targets come first.
SearchKnowledgeFault(topics) ==
  LET mentions == Distinct(Mentioned(topics))
      base     == Mentioned({})
  IN  {Targets[i].target :
         i \in {i \in mentions :
                  \/ i \in base
                  \/ Cardinality({k \in mentions : k \in base \/ k < i}) < MaxTargets}}

\* The targets of the matched topics, then the base targets, cut to six.
SearchKnowledge(topics) ==
  {Targets[i].target : i \in Cut(Distinct(Mentioned(topics)))}

Search(topics) ==
  /\ targets = {}
  /\ matched' = topics
  /\ targets' = SearchKnowledge(topics)

NextQuery == targets # {} /\ matched' = {} /\ targets' = {}

SearchNext == (\E topics \in SUBSET Topic : Search(topics)) \/ NextQuery

SearchSpec == SearchInit /\ [][SearchNext]_searchVars

-----------------------------------------------------------------------------

TargetsOf(topic) ==
  {Targets[i].target : i \in {k \in DOMAIN Targets : Targets[k].topic = topic}}

\* The cut to six never costs one of the first four matched topics a target,
\* and with up to two topics it leaves a base target in: an answer always has
\* three to six targets (knowledge.py:126 and :175, tests/test_knowledge.py:60).
TopicsSurviveTheCut ==
  targets # {} =>
    /\ Cardinality(targets) \in 3 .. MaxTargets
    /\ \A t \in matched :
         Cardinality({u \in matched : u < t}) < 4 => TargetsOf(t) \subseteq targets
    /\ Cardinality(matched) <= 2 => TargetsOf(Always) \cap targets # {}
=============================================================================
