----------------------------- MODULE DemoSeedProofs -----------------------------
(***************************************************************************)
(* Proofs about DemoSeed: what people create is kept, only first calls of  *)
(* a user fail, and where foreign keys are not checked the script can      *)
(* always be run again and stores its plan once.                           *)
(***************************************************************************)
EXTENDS DemoSeed, FiniteSetTheorems, TLAPS

OneRow == [NoRows EXCEPT !["conditions"] = 1]
WithAudit == [NoRows EXCEPT !["conditions"] = 1, !["audit"] = 1]

\* The project of a call is its own and belongs to its caller, from the commit
\* that made it on.
CallInv ==
  \A c \in Call :
    /\ callStep[c] # "idle" => caller[c] \in AppUser
    /\ callStep[c] \in {"project", "audit", "done", "failed"} => caller[c] \in users
    /\ callStep[c] \in {"user", "failed"} => ~knew[c]
    /\ callStep[c] \in {"idle", "user", "project", "failed"} => made[c] = NoId
    /\ callStep[c] \in {"audit", "done"} => made[c] # NoId
    /\ callStep[c] = "audit" => kids[made[c]] = OneRow
    /\ callStep[c] = "done" => kids[made[c]] = WithAudit
    /\ made[c] # NoId => /\ callStep[c] # "idle"
                         /\ owner[made[c]] = caller[c]
                         /\ status[made[c]] = "draft"

Apart ==
  \A c, d \in Call : c # d /\ made[c] # NoId => made[c] # made[d]

\* Whoever is stored was stored by a call that had not found the user.
FirstCall(u, d) ==
  caller[d] = u /\ ~knew[d] /\ callStep[d] \notin {"idle", "user", "failed"}

UserInv == \A u \in users \cap AppUser : \E d \in Call : FirstCall(u, d)

\* Between its two commits, the new project of the script is the script's.
MoveInv ==
  phase = "move" => /\ fresh \in Generated
                    /\ owner[fresh] = Item.owner

\* The projects the script has still to store are not there.
Ahead(n) == n > nth \/ (n = nth /\ phase \in {"users", "create", "move"})

Running == phase \notin Resting \cup {"clear"}

ScriptInv ==
  ~fk =>
    /\ phase # "refused"
    /\ phase = "users" => users \cap SeedUser = {}
    /\ Running => \A n \in DOMAIN Plan : Ahead(n) => owner[Plan[n].id] = NoUser
    /\ Running => shared = IF phase = "points" THEN {"sources"} ELSE {}

SeedInv ==
  SeedTypeOK /\ CallInv /\ Apart /\ UserInv /\ MoveInv /\ ScriptInv

-----------------------------------------------------------------------------
(* Facts about the constants and the helpers.                              *)

\* The plan is a sequence that is not empty.
LEMMA PlanShape == DOMAIN Plan = 1 .. Len(Plan) /\ Len(Plan) \in Nat \ {0}
<1> DEFINE Entry == [id : SeedId, owner : SeedUser, status : Status]
<1>1. Plan \in Seq(Entry) /\ Len(Plan) > 0
  BY PlanAssumption
<1> HIDE DEF Entry
<1> QED
  BY <1>1

\* An entry of the plan has an id and an owner of its kind.
LEMMA PlanEntry ==
  ASSUME NEW n \in DOMAIN Plan
  PROVE  /\ Plan[n].id \in SeedId /\ Plan[n].owner \in SeedUser
         /\ Plan[n].status \in Status
         /\ Plan[n].id \in Id /\ Plan[n].id \notin Generated
         /\ DOMAIN Plan = 1 .. Len(Plan) /\ Len(Plan) \in Nat \ {0}
<1> DEFINE Entry == [id : SeedId, owner : SeedUser, status : Status]
<1>1. Plan \in Seq(Entry)
  BY PlanAssumption
<1>2. DOMAIN Plan = 1 .. Len(Plan) /\ Len(Plan) \in Nat \ {0}
  BY PlanShape
<1>3. Plan[n] \in Entry
  <2> HIDE DEF Entry
  <2> QED
    BY <1>1, <1>2
<1> QED
  BY <1>2, <1>3, NameAssumption DEF Id

\* The rows of a project: none, those of create_project, and its record.
LEMMA Rows ==
  /\ NoRows \in [Part -> Nat] /\ OneRow \in [Part -> Nat] /\ WithAudit \in [Part -> Nat]
  /\ OneRow # NoRows /\ WithAudit # NoRows
  /\ [OneRow EXCEPT !["audit"] = OneRow["audit"] + 1] = WithAudit
<1>1. NoRows \in [Part -> Nat] /\ OneRow \in [Part -> Nat] /\ WithAudit \in [Part -> Nat]
  BY DEF NoRows, OneRow, WithAudit, Part
<1>2. /\ NoRows["conditions"] = 0 /\ OneRow["conditions"] = 1
      /\ WithAudit["conditions"] = 1
  BY DEF NoRows, OneRow, WithAudit, Part
<1>3. [OneRow EXCEPT !["audit"] = OneRow["audit"] + 1] = WithAudit
  <2> DEFINE f == [OneRow EXCEPT !["audit"] = OneRow["audit"] + 1]
  <2>1. f \in [Part -> Nat]
    BY <1>1, "audit" \in Part DEF Part
  <2>2. ASSUME NEW part \in Part PROVE f[part] = WithAudit[part]
    BY DEF NoRows, OneRow, WithAudit, Part
  <2>3. f = WithAudit
    <3> HIDE DEF f
    <3> QED
      BY <1>1, <2>1, <2>2
  <2> QED
    BY <2>3
<1> QED
  BY <1>1, <1>2, <1>3

\* An id that is given is free.
LEMMA NewIdFree ==
  ASSUME \E p \in Generated : Free(p)
  PROVE  NewId \in Generated /\ Free(NewId)
BY DEF NewId

-----------------------------------------------------------------------------
(* The invariant.                                                          *)

LEMMA SeedInvInit == SeedInit => SeedInv
<1> SUFFICES ASSUME SeedInit PROVE SeedInv
  OBVIOUS
<1>1. 1 \in DOMAIN Plan
  BY PlanShape
<1>2. SeedTypeOK
  <2>1. /\ users \subseteq AppUser \cup SeedUser
        /\ owner \in [Id -> AppUser \cup SeedUser \cup {NoUser}]
        /\ status \in [Id -> Status]
        /\ shared \subseteq Demo
    BY DEF SeedInit, Status
  <2>2. kids \in [Id -> [Part -> Nat]]
    BY Rows DEF SeedInit
  <2>3. phase \in Phase /\ nth \in DOMAIN Plan /\ crashes \in Nat
        /\ fresh \in Generated \cup {NoId}
    BY <1>1 DEF SeedInit, Phase, Resting
  <2>4. fk \in BOOLEAN /\ knew \in [Call -> BOOLEAN]
    BY DEF SeedInit
  <2>5. /\ callStep \in [Call -> {"idle", "user", "project", "audit", "done", "failed", "lost"}]
        /\ caller \in [Call -> AppUser \cup {NoUser}]
        /\ made \in [Call -> Generated \cup {NoId}]
    BY DEF SeedInit
  <2> QED
    BY <2>1, <2>2, <2>3, <2>4, <2>5 DEF SeedTypeOK
<1>3. CallInv /\ Apart
  BY DEF SeedInit, CallInv, Apart
<1>4. UserInv /\ MoveInv /\ ScriptInv
  BY DEF SeedInit, UserInv, MoveInv, ScriptInv, Running, Resting
<1> QED
  BY <1>2, <1>3, <1>4 DEF SeedInv

\* What the script does to the projects of people: nothing.
Spared ==
  /\ \A p \in Generated : owner[p] \in AppUser =>
       owner'[p] = owner[p] /\ status'[p] = status[p] /\ kids'[p] = kids[p]
  /\ users' \cap AppUser = users \cap AppUser
  /\ UNCHANGED callVars

LEMMA ScriptSpares == SeedInv /\ Script => Spared
<1> SUFFICES ASSUME SeedInv, Script PROVE Spared
  OBVIOUS
<1> USE DEF SeedInv, SeedTypeOK, tables, callVars, Spared
<1>1. Item.id \in Id /\ Item.id \notin Generated /\ Item.owner \in SeedUser
  BY PlanEntry DEF Item
<1>2. \A p \in Generated : p \in Id /\ p \notin SeedId
  BY NameAssumption DEF Id
<1>3. CASE StartSeed \/ SeedFails \/ SeedDies \/ InsertShared
  BY <1>3 DEF StartSeed, SeedFails, SeedDies, InsertShared
<1>4. CASE Clear
  BY <1>2, <1>4, NameAssumption DEF Clear
<1>5. CASE InsertSeedUsers
  BY <1>5, NameAssumption DEF InsertSeedUsers
<1>6. CASE CreateSeedProject
  <2>1. NewId \in Generated /\ owner[NewId] \notin AppUser
    BY <1>6, NewIdFree, NameAssumption DEF CreateSeedProject, Create, Free
  <2> QED
    BY <1>6, <2>1 DEF CreateSeedProject, Create
<1>7. CASE Move
  <2>1. fresh \in Generated /\ owner[fresh] \notin AppUser
    BY <1>1, <1>7, NameAssumption DEF Move, MoveInv
  <2>2. \A p \in Generated : owner[p] \in AppUser => p # fresh /\ p # Item.id
    BY <1>1, <2>1
  <2> QED
    BY <1>7, <1>2, <2>2 DEF Move
<1>8. CASE Fill
  BY <1>1, <1>2, <1>8 DEF Fill
<1>9. CASE SetStatus
  BY <1>1, <1>2, <1>9 DEF SetStatus
<1> QED
  BY <1>3, <1>4, <1>5, <1>6, <1>7, <1>8, <1>9 DEF Script

LEMMA SparedKeepsCalls ==
  SeedInv /\ Spared => CallInv' /\ Apart' /\ UserInv'
<1> SUFFICES ASSUME SeedInv, Spared PROVE CallInv' /\ Apart' /\ UserInv'
  OBVIOUS
<1>1. UNCHANGED <<callStep, caller, knew, made>>
  BY DEF Spared, callVars
<1>2. ASSUME NEW c \in Call, made[c] # NoId
      PROVE  /\ owner'[made[c]] = owner[made[c]]
             /\ status'[made[c]] = status[made[c]]
             /\ kids'[made[c]] = kids[made[c]]
  <2>1. made[c] \in Generated /\ owner[made[c]] \in AppUser
    BY <1>2 DEF SeedInv, SeedTypeOK, CallInv
  <2> QED
    BY <2>1 DEF Spared
<1>3. \A c \in Call : callStep[c] # "idle" => (caller[c] \in users <=> caller[c] \in users')
  BY DEF SeedInv, CallInv, Spared
<1>4. CallInv'
  BY <1>1, <1>2, <1>3 DEF SeedInv, CallInv
<1>5. Apart'
  BY <1>1 DEF SeedInv, Apart
<1>6. UserInv'
  BY <1>1 DEF SeedInv, UserInv, FirstCall, Spared
<1> QED
  BY <1>4, <1>5, <1>6

\* The script stores values of the right kind.
LEMMA ScriptType == SeedInv /\ Script => SeedTypeOK'
<1> SUFFICES ASSUME SeedInv, Script PROVE SeedTypeOK'
  OBVIOUS
<1> USE DEF SeedInv, SeedTypeOK, tables, callVars
<1>1. /\ Item.id \in Id /\ Item.owner \in SeedUser /\ Item.status \in Status
      /\ DOMAIN Plan = 1 .. Len(Plan) /\ Len(Plan) \in Nat \ {0}
  BY PlanEntry DEF Item
<1>2. \A p \in Generated : p \in Id
  BY DEF Id
<1>3. CASE StartSeed
  BY <1>1, <1>3 DEF StartSeed, Phase
<1>4. CASE SeedFails \/ SeedDies
  BY <1>4 DEF SeedFails, SeedDies, Phase, Resting
<1>5. CASE InsertShared
  BY <1>5 DEF InsertShared, Phase, Resting, Demo
<1>6. CASE Clear
  BY <1>6, Rows DEF Clear, Phase, Demo, Status
<1>7. CASE InsertSeedUsers
  BY <1>7 DEF InsertSeedUsers, Phase
<1>8. CASE CreateSeedProject
  <2>1. NewId \in Generated /\ "draft" \in Status
    BY <1>8, NewIdFree DEF CreateSeedProject, Create, Status
  <2>2. kids' \in [Id -> [Part -> Nat]]
    BY <1>2, <1>8, <2>1, Rows DEF CreateSeedProject, Create, OneRow
  <2> QED
    BY <1>1, <1>8, <2>1, <2>2 DEF CreateSeedProject, Create, Phase
<1>9. CASE Move
  <2>1. fresh \in Id
    BY <1>2, <1>9 DEF Move, MoveInv
  <2>2. kids' \in [Id -> [Part -> Nat]]
    <3> DEFINE moved == [kids EXCEPT ![Item.id]["conditions"] =
                                       @ + kids[fresh]["conditions"]]
    <3>1. "conditions" \in Part /\ kids[fresh] \in [Part -> Nat]
      BY <2>1 DEF Part
    <3>2. moved \in [Id -> [Part -> Nat]]
      BY <1>1, <3>1
    <3>3. kids' = [moved EXCEPT ![fresh]["conditions"] = 0]
      BY <1>9 DEF Move
    <3> HIDE DEF moved
    <3> QED
      BY <2>1, <3>1, <3>2, <3>3
  <2> QED
    BY <1>1, <1>9, <2>1, <2>2 DEF Move, Phase, Part, Status
<1>10. CASE Fill
  <2>1. phase \in Part /\ After[phase] \in Phase
    BY <1>10 DEF Fill, After, Part, Phase
  <2>2. kids' \in [Id -> [Part -> Nat]]
    BY <1>1, <1>10, <2>1 DEF Fill
  <2> QED
    BY <1>10, <2>1, <2>2 DEF Fill
<1>11. CASE SetStatus
  <2>1. status' \in [Id -> Status]
    BY <1>1, <1>11 DEF SetStatus
  <2>2. phase' \in Phase /\ nth' \in DOMAIN Plan
    BY <1>1, <1>11 DEF SetStatus, Phase, Demo
  <2> QED
    BY <1>11, <2>1, <2>2 DEF SetStatus
<1> QED
  BY <1>3, <1>4, <1>5, <1>6, <1>7, <1>8, <1>9, <1>10, <1>11 DEF Script

LEMMA ScriptMoves == SeedInv /\ Script => MoveInv'
<1> SUFFICES ASSUME SeedInv, Script PROVE MoveInv'
  OBVIOUS
<1>1. CASE CreateSeedProject
  <2>1. NewId \in Generated /\ NewId \in Id
    BY <1>1, NewIdFree DEF CreateSeedProject, Create, Id
  <2> QED
    BY <1>1, <2>1 DEF CreateSeedProject, Create, MoveInv, Item, SeedInv, SeedTypeOK
<1>2. CASE ~CreateSeedProject
  <2>1. phase' # "move"
    BY <1>2 DEF Script, StartSeed, Clear, InsertSeedUsers, Move, Fill, After, SetStatus,
                InsertShared, SeedFails, SeedDies
  <2> QED
    BY <2>1 DEF MoveInv
<1> QED
  BY <1>1, <1>2

\* Where foreign keys are not checked, what the script stores is never there.
LEMMA ScriptNotRefused == SeedInv /\ ~fk => ~Refused
<1> SUFFICES ASSUME SeedInv, ~fk PROVE ~Refused
  OBVIOUS
<1>1. nth \in DOMAIN Plan
  BY DEF SeedInv, SeedTypeOK
<1>2. phase = "move" => Running /\ Ahead(nth)
  BY DEF Running, Resting, Ahead
<1>3. phase \in Demo => Running
  BY DEF Running, Resting, Demo
<1>4. phase \in shared => phase \in Demo
  BY DEF SeedInv, SeedTypeOK
<1>5. phase \notin shared
  BY <1>3, <1>4 DEF SeedInv, ScriptInv, Demo
<1> QED
  BY <1>1, <1>2, <1>5 DEF SeedInv, ScriptInv, Refused, Item

LEMMA ScriptGoesOn == SeedInv /\ Script => ScriptInv'
<1> SUFFICES ASSUME SeedInv, Script, ~fk' PROVE ScriptInv'
  BY DEF ScriptInv
<1> USE DEF SeedInv, SeedTypeOK, tables, callVars
<1>1. ~fk /\ ~Refused
  BY ScriptNotRefused DEF Script, StartSeed, Clear, InsertSeedUsers, CreateSeedProject,
                      Move, Fill, SetStatus, InsertShared, SeedFails, SeedDies
<1>2. \A n \in DOMAIN Plan : Plan[n].id \in Id /\ Plan[n].id \in SeedId
                             /\ Plan[n].id \notin Generated /\ n \in Nat
  BY PlanEntry
<1>3. \A m, n \in DOMAIN Plan : m # n => Plan[m].id # Plan[n].id
  BY PlanAssumption
<1>4. nth \in DOMAIN Plan /\ nth \in Nat
  BY <1>2
<1>5. CASE StartSeed \/ SeedDies \/ SeedFails
  BY <1>1, <1>5 DEF StartSeed, SeedDies, SeedFails, ScriptInv, Running, Resting
<1>6. CASE Clear
  BY <1>2, <1>6 DEF Clear, ScriptInv
<1>7. CASE InsertSeedUsers
  BY <1>1, <1>7 DEF InsertSeedUsers, ScriptInv, Running, Resting, Ahead
<1>8. CASE CreateSeedProject
  <2>1. NewId \in Generated
    BY <1>8, NewIdFree DEF CreateSeedProject, Create
  <2> QED
    BY <1>1, <1>2, <1>8, <2>1 DEF CreateSeedProject, Create, ScriptInv, Running, Resting, Ahead
<1>9. CASE Move
  <2>1. Running /\ \A n \in DOMAIN Plan : Ahead(n)' => Ahead(n) /\ n # nth
    BY <1>4, <1>9 DEF Move, Running, Resting, Ahead
  <2>2. \A n \in DOMAIN Plan : n # nth => owner'[Plan[n].id] = owner[Plan[n].id]
    BY <1>2, <1>3, <1>4, <1>9 DEF Move, MoveInv, Item
  <2> QED
    BY <1>1, <1>9, <2>1, <2>2 DEF Move, ScriptInv, Running, Resting
<1>10. CASE Fill
  BY <1>1, <1>10 DEF Fill, After, ScriptInv, Running, Resting, Ahead
<1>11. CASE SetStatus
  <2>1. Running /\ \A n \in DOMAIN Plan : Ahead(n)' => Ahead(n)
    BY <1>2, <1>4, <1>11 DEF SetStatus, Running, Resting, Ahead
  <2> QED
    BY <1>1, <1>11, <2>1 DEF SetStatus, ScriptInv, Running, Resting
<1>12. CASE InsertShared
  BY <1>1, <1>12 DEF InsertShared, ScriptInv, Running, Resting, Ahead, Demo
<1> QED
  BY <1>5, <1>6, <1>7, <1>8, <1>9, <1>10, <1>11, <1>12 DEF Script

LEMMA ScriptStep == SeedInv /\ Script => SeedInv'
  BY ScriptSpares, SparedKeepsCalls, ScriptType, ScriptMoves, ScriptGoesOn DEF SeedInv

-----------------------------------------------------------------------------
(* The calls.                                                              *)

\* A call leaves alone what the script relies on.
Aside ==
  /\ UNCHANGED <<fk, scriptVars, shared>>
  /\ users' \cap SeedUser = users \cap SeedUser
  /\ \A p \in Id : owner[p] \in SeedUser \/ p \in SeedId => owner'[p] = owner[p]

LEMMA AsideKeepsScript == SeedInv /\ Aside => MoveInv' /\ ScriptInv'
<1> SUFFICES ASSUME SeedInv, Aside PROVE MoveInv' /\ ScriptInv'
  OBVIOUS
<1>1. UNCHANGED <<fk, phase, nth, fresh, shared>>
  BY DEF Aside, scriptVars
<1>2. \A n \in DOMAIN Plan : Plan[n].id \in SeedId /\ Plan[n].id \in Id
                             /\ Plan[n].owner \in SeedUser
  BY PlanEntry
<1>3. MoveInv'
  BY <1>1, <1>2 DEF SeedInv, SeedTypeOK, MoveInv, Item, Aside, Id
<1>4. ScriptInv'
  BY <1>1, <1>2 DEF SeedInv, ScriptInv, Running, Ahead, Aside
<1> QED
  BY <1>3, <1>4

LEMMA BeginCreateStep ==
  ASSUME SeedInv, NEW c \in Call, NEW u \in AppUser, BeginCreate(c, u)
  PROVE  SeedInv'
<1> USE DEF SeedInv, tables, scriptVars, BeginCreate, GoOn
<1>1. SeedTypeOK'
  BY DEF SeedTypeOK
<1>2. MoveInv' /\ ScriptInv'
  BY AsideKeepsScript DEF Aside
<1>3. CallInv'
  BY DEF SeedTypeOK, CallInv
<1>4. Apart'
  BY DEF Apart
<1>5. UserInv'
  BY DEF SeedTypeOK, UserInv, FirstCall
<1> QED
  BY <1>1, <1>2, <1>3, <1>4, <1>5

LEMMA InsertUserStep ==
  ASSUME SeedInv, NEW c \in Call, InsertUser(c)
  PROVE  SeedInv'
<1> USE DEF SeedInv, tables, scriptVars, InsertUser, GoOn
<1>1. caller[c] \in AppUser /\ ~knew[c]
  BY DEF CallInv
<1>2. SeedTypeOK'
  BY <1>1 DEF SeedTypeOK
<1>3. MoveInv' /\ ScriptInv'
  BY <1>1, AsideKeepsScript, NameAssumption DEF Aside
<1>4. CallInv'
  BY <1>1 DEF SeedTypeOK, CallInv
<1>5. Apart'
  BY DEF Apart
<1>6. UserInv'
  <2>1. FirstCall(caller[c], c)'
    BY <1>1 DEF FirstCall, SeedTypeOK
  <2>2. ASSUME NEW d \in Call, NEW v, FirstCall(v, d) PROVE FirstCall(v, d)'
    BY <2>2 DEF FirstCall, SeedTypeOK
  <2> QED
    BY <2>1, <2>2 DEF UserInv
<1> QED
  BY <1>2, <1>3, <1>4, <1>5, <1>6

LEMMA CallFailsStep ==
  ASSUME SeedInv, NEW c \in Call, CallFails(c)
  PROVE  SeedInv'
<1> USE DEF SeedInv, tables, scriptVars, CallFails, GoOn
<1>1. callStep[c] = "user" /\ caller[c] \in users
  BY DEF CallRefused, CallInv
<1>2. SeedTypeOK'
  BY DEF SeedTypeOK
<1>3. MoveInv' /\ ScriptInv'
  BY AsideKeepsScript DEF Aside
<1>4. CallInv' /\ Apart'
  BY <1>1 DEF SeedTypeOK, CallInv, Apart
<1>5. UserInv'
  BY <1>1 DEF UserInv, FirstCall, SeedTypeOK
<1> QED
  BY <1>2, <1>3, <1>4, <1>5

LEMMA ServerDiesStep == SeedInv /\ ServerDies => SeedInv'
<1> SUFFICES ASSUME SeedInv, ServerDies PROVE SeedInv'
  OBVIOUS
<1> USE DEF SeedInv, tables, scriptVars, ServerDies, InFlight
<1>1. SeedTypeOK'
  BY DEF SeedTypeOK
<1>2. MoveInv' /\ ScriptInv'
  BY AsideKeepsScript DEF Aside
<1>3. CallInv' /\ Apart'
  BY DEF CallInv, Apart
<1>4. UserInv'
  BY DEF UserInv, FirstCall
<1> QED
  BY <1>1, <1>2, <1>3, <1>4

LEMMA InsertProjectStep ==
  ASSUME SeedInv, NEW c \in Call, InsertProject(c)
  PROVE  SeedInv'
<1> USE DEF SeedInv, tables, scriptVars, InsertProject, Create, GoOn
<1>1. NewId \in Generated /\ NewId \in Id /\ NewId \notin SeedId
      /\ owner[NewId] = NoUser /\ NewId # NoId
  BY NewIdFree, NameAssumption DEF Free, Id
<1>2. caller[c] \in AppUser /\ caller[c] \in users /\ made[c] = NoId
  BY DEF CallInv
<1>3. \A d \in Call : made[d] # NoId => made[d] # NewId /\ made[d] \in Id
  BY <1>1, NameAssumption DEF CallInv, SeedTypeOK, Id
<1>4. SeedTypeOK'
  <2>1. kids' \in [Id -> [Part -> Nat]]
    BY <1>1, Rows DEF SeedTypeOK, OneRow
  <2>2. status' \in [Id -> Status]
    BY <1>1 DEF SeedTypeOK, Status
  <2> QED
    BY <1>1, <1>2, <2>1, <2>2 DEF SeedTypeOK
<1>5. MoveInv' /\ ScriptInv'
  <2>1. NoUser \notin SeedUser
    BY NameAssumption
  <2> QED
    BY <1>1, <2>1, AsideKeepsScript DEF Aside, SeedTypeOK
<1>6. CallInv'
  <2>1. /\ owner'[NewId] = caller[c] /\ status'[NewId] = "draft"
        /\ kids'[NewId] = OneRow
        /\ \A p \in Id \ {NewId} : /\ owner'[p] = owner[p] /\ status'[p] = status[p]
                                   /\ kids'[p] = kids[p]
    BY <1>1 DEF SeedTypeOK, OneRow
  <2>2. /\ callStep'[c] = "audit" /\ made'[c] = NewId
        /\ \A d \in Call \ {c} : callStep'[d] = callStep[d] /\ made'[d] = made[d]
    BY DEF SeedTypeOK
  <2> QED
    BY <1>1, <1>2, <1>3, <2>1, <2>2 DEF CallInv
<1>7. Apart'
  BY <1>1, <1>2, <1>3 DEF Apart, SeedTypeOK
<1>8. UserInv'
  BY DEF UserInv, FirstCall, SeedTypeOK
<1> QED
  BY <1>4, <1>5, <1>6, <1>7, <1>8

LEMMA RecordCreateStep ==
  ASSUME SeedInv, NEW c \in Call, RecordCreate(c)
  PROVE  SeedInv'
<1> USE DEF SeedInv, tables, scriptVars, RecordCreate, GoOn
<1>1. made[c] \in Generated /\ made[c] \in Id /\ made[c] # NoId /\ kids[made[c]] = OneRow
  BY DEF CallInv, SeedTypeOK, Id
<1>2. /\ kids' = [kids EXCEPT ![made[c]] = WithAudit]
  BY <1>1, Rows
<1>3. SeedTypeOK'
  <2>1. kids' \in [Id -> [Part -> Nat]]
    BY <1>1, Rows DEF SeedTypeOK
  <2> QED
    BY <2>1 DEF SeedTypeOK
<1>4. MoveInv' /\ ScriptInv'
  BY AsideKeepsScript DEF Aside
<1>5. CallInv'
  <2>1. /\ callStep'[c] = "done"
        /\ \A d \in Call \ {c} : callStep'[d] = callStep[d]
    BY DEF SeedTypeOK
  <2>2. /\ kids'[made[c]] = WithAudit
        /\ \A d \in Call \ {c} : made[d] # NoId => kids'[made[d]] = kids[made[d]]
    BY <1>1, <1>2 DEF SeedTypeOK, Apart, Id
  <2> QED
    BY <1>1, <2>1, <2>2 DEF CallInv
<1>6. Apart' /\ UserInv'
  BY DEF Apart, UserInv, FirstCall, SeedTypeOK
<1> QED
  BY <1>3, <1>4, <1>5, <1>6

-----------------------------------------------------------------------------
(* Theorems.                                                               *)

\* The invariant holds of every run of the script and of the calls.
THEOREM SpecSeedInv == SeedSpec => []SeedInv
<1>1. ASSUME SeedInv, [SeedNext]_seedVars PROVE SeedInv'
  <2>1. CASE Script
    BY <1>1, <2>1, ScriptStep
  <2>2. ASSUME NEW c \in Call, CreateCall(c) PROVE SeedInv'
    BY <1>1, <2>2, BeginCreateStep, InsertUserStep, InsertProjectStep, RecordCreateStep,
       CallFailsStep DEF CreateCall
  <2>3. CASE ServerDies
    BY <1>1, <2>3, ServerDiesStep
  <2>4. CASE UNCHANGED seedVars
    BY <1>1, <2>4 DEF seedVars, tables, scriptVars, callVars, SeedInv, SeedTypeOK, CallInv,
                      Apart, UserInv, FirstCall, MoveInv, Item, ScriptInv, Running, Ahead
  <2> QED
    BY <1>1, <2>1, <2>2, <2>3, <2>4 DEF SeedNext
<1> QED
  BY <1>1, SeedInvInit, PTL DEF SeedSpec

\* What create_project has stored for somebody stays, whatever the script does.
THEOREM SpecCreatedProjectsStay == SeedSpec => []CreatedProjectsStay
<1>1. SeedInv => CreatedProjectsStay
  BY DEF SeedInv, CallInv, Apart, CreatedProjectsStay, WithAudit
<1> QED
  BY <1>1, SpecSeedInv, PTL

\* ensure_user turns nobody away but the losers of a race of first calls.
THEOREM SpecOnlyFirstCallsFail == SeedSpec => []OnlyFirstCallsFail
<1>1. ASSUME SeedInv PROVE OnlyFirstCallsFail
  <2>1. ASSUME NEW c \in Call, callStep[c] = "failed"
        PROVE  /\ ~knew[c] /\ caller[c] \in users
               /\ \E d \in Call \ {c} : FirstCall(caller[c], d)
    <3>1. ~knew[c] /\ caller[c] \in users /\ caller[c] \in AppUser
      BY <1>1, <2>1 DEF SeedInv, CallInv
    <3>2. PICK d \in Call : FirstCall(caller[c], d)
      BY <1>1, <3>1 DEF SeedInv, UserInv
    <3>3. d # c
      BY <2>1, <3>2 DEF FirstCall
    <3> QED
      BY <3>1, <3>2, <3>3
  <2> QED
    BY <2>1 DEF OnlyFirstCallsFail, FirstCall
<1> QED
  BY <1>1, SpecSeedInv, PTL

\* The script stores no key twice, wherever its earlier runs died.
THEOREM SpecRerunIsAccepted == SeedSpec => []RerunIsAccepted
<1>1. SeedInv => RerunIsAccepted
  BY DEF SeedInv, ScriptInv, RerunIsAccepted
<1> QED
  BY <1>1, SpecSeedInv, PTL

-----------------------------------------------------------------------------
(* What the script leaves.                                                 *)

\* The parts a project of the plan has when the script is at a phase.
Laid == [routes   |-> {"conditions"},
         markdown |-> {"conditions", "routes"},
         csv      |-> {"conditions", "routes", "markdown"},
         audit    |-> {"conditions", "routes", "markdown", "csv"},
         status   |-> Part]

Once(parts) == [part \in Part |-> IF part \in parts THEN 1 ELSE 0]

\* The projects the script is through with.
Behind(n) ==
  \/ phase \in Demo \cup {"done"}
  \/ n < nth /\ phase \in {"create", "move"} \cup DOMAIN Laid

Complete(n) ==
  /\ owner[Plan[n].id] = Plan[n].owner
  /\ status[Plan[n].id] = Plan[n].status
  /\ kids[Plan[n].id] = Once(Part)

PlanInv ==
  ~fk =>
    /\ phase \in {"clear", "users"} => nth = 1
    /\ phase \in {"create", "move", "done"} \cup DOMAIN Laid \cup Demo =>
         SeedUser \subseteq users
    /\ phase = "done" => shared = Demo
    /\ \A n \in DOMAIN Plan : Behind(n) => Complete(n)
    /\ Running => \A n \in DOMAIN Plan : Ahead(n) => kids[Plan[n].id] = NoRows
    /\ phase = "move" => kids[fresh] = OneRow
    /\ phase \in DOMAIN Laid =>
         owner[Item.id] = Item.owner /\ kids[Item.id] = Once(Laid[phase])

\* The projects of the script no later run looks for.
Stray ==
  {p \in Generated : owner[p] \in SeedUser} \
    (IF phase = "move" THEN {fresh} ELSE {})

StrayInv == ~fk => IsFiniteSet(Stray) /\ Cardinality(Stray) <= crashes

LEMMA OnceIsRows ==
  /\ Once({}) = NoRows
  /\ Once({"conditions"}) = OneRow
  /\ \A parts \in SUBSET Part : Once(parts) \in [Part -> Nat]
<1>1. Once({}) = NoRows
  BY DEF Once, NoRows
<1>2. Once({"conditions"}) = OneRow
  <2>1. \A part \in Part : Once({"conditions"})[part] = OneRow[part]
    BY DEF Once, NoRows, OneRow
  <2>2. Once({"conditions"}) \in [Part -> Nat] /\ OneRow \in [Part -> Nat]
    BY Rows DEF Once
  <2> QED
    BY <2>1, <2>2
<1>3. \A parts \in SUBSET Part : Once(parts) \in [Part -> Nat]
  BY DEF Once
<1> QED
  BY <1>1, <1>2, <1>3

\* A part that is stored is stored once.
LEMMA OnceMore ==
  ASSUME NEW parts \in SUBSET Part, NEW part \in Part \ parts
  PROVE  [Once(parts) EXCEPT ![part] = @ + 1] = Once(parts \cup {part})
<1> DEFINE f == [Once(parts) EXCEPT ![part] = @ + 1]
<1>1. Once(parts) \in [Part -> Nat] /\ Once(parts \cup {part}) \in [Part -> Nat]
  BY OnceIsRows
<1>2. f \in [Part -> Nat]
  BY <1>1
<1>3. ASSUME NEW other \in Part PROVE f[other] = Once(parts \cup {part})[other]
  BY DEF Once
<1> QED
  <2> HIDE DEF f
  <2>1. f = Once(parts \cup {part})
    BY <1>1, <1>2, <1>3
  <2> QED
    BY <2>1 DEF f

\* A phase lays the part it is named for.
LEMMA Laying ==
  ASSUME NEW p \in DOMAIN After
  PROVE  /\ p \in DOMAIN Laid
         /\ p \in Part \ Laid[p] /\ Laid[p] \in SUBSET Part
         /\ After[p] \in DOMAIN Laid /\ Laid[After[p]] = Laid[p] \cup {p}
<1>1. p \in {"routes", "markdown", "csv", "audit"}
  BY DEF After
<1>2. CASE p = "routes"
  BY <1>2 DEF After, Laid, Part
<1>3. CASE p = "markdown"
  BY <1>3 DEF After, Laid, Part
<1>4. CASE p = "csv"
  BY <1>4 DEF After, Laid, Part
<1>5. CASE p = "audit"
  BY <1>5 DEF After, Laid, Part
<1> QED
  BY <1>1, <1>2, <1>3, <1>4, <1>5

LEMMA Below == \A m, n \in Nat : m <= n /\ m # n => m < n
OBVIOUS

LEMMA PlanInvInit == SeedInit => PlanInv /\ StrayInv
<1> SUFFICES ASSUME SeedInit PROVE PlanInv /\ StrayInv
  OBVIOUS
<1>1. PlanInv
  BY DEF SeedInit, PlanInv, Behind, Demo, Laid, Running, Resting
<1>2. Stray = {}
  BY NameAssumption DEF SeedInit, Stray, Id
<1> QED
  BY <1>1, <1>2, FS_EmptySet DEF SeedInit, StrayInv

\* What a call does to the rows of the script: nothing.
Elsewhere ==
  /\ UNCHANGED <<fk, scriptVars, shared>>
  /\ users' \cap SeedUser = users \cap SeedUser
  /\ \A p \in Id : owner[p] \in SeedUser \/ p \in SeedId =>
       owner'[p] = owner[p] /\ status'[p] = status[p] /\ kids'[p] = kids[p]
  /\ \A p \in Id : owner'[p] \in SeedUser => owner[p] \in SeedUser

LEMMA CallElsewhere ==
  ASSUME SeedInv, ServerDies \/ \E c \in Call : CreateCall(c)
  PROVE  Elsewhere
<1> USE DEF SeedInv, SeedTypeOK, tables, scriptVars, GoOn, Elsewhere
<1>1. CASE ServerDies
  BY <1>1 DEF ServerDies
<1>2. ASSUME NEW c \in Call, NEW u \in AppUser, BeginCreate(c, u)
      PROVE  Elsewhere
  BY <1>2 DEF BeginCreate
<1>3. ASSUME NEW c \in Call, InsertUser(c)
      PROVE  Elsewhere
  BY <1>3, NameAssumption DEF InsertUser, CallInv
<1>4. ASSUME NEW c \in Call, InsertProject(c)
      PROVE  Elsewhere
  <2>1. NewId \in Generated /\ NewId \notin SeedId /\ owner[NewId] = NoUser
    BY <1>4, NewIdFree, NameAssumption DEF InsertProject, Create, Free
  <2>2. caller[c] \in AppUser
    BY <1>4 DEF InsertProject, CallInv
  <2> QED
    BY <1>4, <2>1, <2>2, NameAssumption DEF InsertProject, Create
<1>5. ASSUME NEW c \in Call, RecordCreate(c)
      PROVE  Elsewhere
  <2>1. made[c] \in Generated /\ made[c] \notin SeedId /\ owner[made[c]] \in AppUser
    BY <1>5, NameAssumption DEF RecordCreate, CallInv
  <2> QED
    BY <1>5, <2>1, NameAssumption DEF RecordCreate
<1>6. ASSUME NEW c \in Call, CallFails(c)
      PROVE  Elsewhere
  BY <1>6 DEF CallFails
<1> QED
  BY <1>1, <1>2, <1>3, <1>4, <1>5, <1>6 DEF CreateCall

LEMMA ElsewhereKeeps ==
  ASSUME SeedInv, PlanInv, StrayInv, Elsewhere
  PROVE  PlanInv' /\ StrayInv'
<1>1. UNCHANGED <<fk, phase, nth, fresh, crashes, shared>>
  BY DEF Elsewhere, scriptVars
<1>2. \A n \in DOMAIN Plan : Plan[n].id \in SeedId /\ Plan[n].id \in Id
                             /\ Plan[n].owner \in SeedUser
  BY PlanEntry
<1>3. phase = "move" => kids'[fresh] = kids[fresh]
  BY <1>2 DEF SeedInv, SeedTypeOK, MoveInv, Elsewhere, Item, Id
<1>4. \A n \in DOMAIN Plan : /\ owner'[Plan[n].id] = owner[Plan[n].id]
                             /\ status'[Plan[n].id] = status[Plan[n].id]
                             /\ kids'[Plan[n].id] = kids[Plan[n].id]
  BY <1>2 DEF Elsewhere
<1>5. SeedUser \subseteq users => SeedUser \subseteq users'
  BY DEF Elsewhere
<1>6. PlanInv'
  <2>1. \A n \in DOMAIN Plan : /\ Behind(n)' = Behind(n)
                               /\ Complete(n)' = Complete(n)
                               /\ Ahead(n)' = Ahead(n)
    BY <1>1, <1>4 DEF Behind, Complete, Ahead
  <2>2. nth \in DOMAIN Plan /\ Running' = Running /\ Item' = Item
    BY <1>1 DEF Running, SeedInv, SeedTypeOK, Item
  <2> QED
    BY <1>1, <1>3, <1>4, <1>5, <2>1, <2>2 DEF PlanInv, Item
<1>7. Stray' = Stray
  BY <1>1 DEF Stray, Elsewhere, Id
<1> QED
  BY <1>1, <1>6, <1>7 DEF StrayInv

\* The script keeps to its plan, whatever earlier runs have left.
LEMMA ScriptPlan == SeedInv /\ PlanInv /\ Script => PlanInv'
<1> SUFFICES ASSUME SeedInv, PlanInv, Script, ~fk' PROVE PlanInv'
  BY DEF PlanInv
<1> USE DEF SeedInv, SeedTypeOK, tables, callVars
<1>1. ~fk /\ ~Refused
  BY ScriptNotRefused DEF Script, StartSeed, Clear, InsertSeedUsers, CreateSeedProject,
                      Move, Fill, SetStatus, InsertShared, SeedFails, SeedDies
<1>2. \A n \in DOMAIN Plan : Plan[n].id \in Id /\ Plan[n].id \in SeedId
                             /\ Plan[n].id \notin Generated /\ n \in Nat /\ n >= 1
                             /\ Plan[n].owner \in SeedUser
  BY PlanEntry
<1>3. \A m, n \in DOMAIN Plan : m # n => Plan[m].id # Plan[n].id
  BY PlanAssumption
<1>4. nth \in DOMAIN Plan /\ nth \in Nat
  BY <1>2
<1>5. CASE StartSeed
  BY <1>5 DEF StartSeed, PlanInv, Running, Resting, Behind, Laid, Demo
<1>6. CASE SeedDies \/ SeedFails
  BY <1>1, <1>6 DEF SeedDies, SeedFails, PlanInv, Running, Resting, Behind, Laid, Demo
<1>7. CASE Clear
  BY <1>1, <1>2, <1>7 DEF Clear, PlanInv, Behind, Laid, Demo
<1>8. CASE InsertSeedUsers
  BY <1>1, <1>2, <1>8 DEF InsertSeedUsers, PlanInv, Running, Resting, Behind, Ahead, Laid, Demo
<1>9. CASE CreateSeedProject
  <2>1. NewId \in Generated /\ NewId \in Id
    BY <1>9, NewIdFree DEF CreateSeedProject, Create, Id
  <2>2. \A n \in DOMAIN Plan : /\ owner'[Plan[n].id] = owner[Plan[n].id]
                               /\ status'[Plan[n].id] = status[Plan[n].id]
                               /\ kids'[Plan[n].id] = kids[Plan[n].id]
    BY <1>2, <1>9, <2>1 DEF CreateSeedProject, Create
  <2>3. kids'[fresh'] = OneRow
    BY <1>9, <2>1 DEF CreateSeedProject, Create, OneRow
  <2>4. \A n \in DOMAIN Plan : /\ Behind(n)' => Behind(n)
                               /\ Complete(n)' = Complete(n)
                               /\ Ahead(n)' => Ahead(n)
    BY <1>9, <2>2 DEF CreateSeedProject, Behind, Complete, Ahead, Demo, Laid
  <2>5. phase = "create" /\ phase' = "move" /\ users' = users /\ shared' = shared
    BY <1>9 DEF CreateSeedProject
  <2> QED
    BY <1>1, <2>2, <2>3, <2>4, <2>5 DEF PlanInv, Running, Resting, Demo, Laid
<1>10. CASE Move
  <2>1. fresh \in Generated /\ fresh \in Id /\ owner[fresh] = Item.owner
        /\ kids[fresh] = OneRow /\ kids[Item.id] = NoRows
        /\ Item.id \in Id /\ Item.id # fresh
    BY <1>1, <1>2, <1>4, <1>10
       DEF Move, MoveInv, PlanInv, Item, Id, Running, Resting, Ahead
  <2>2. \A n \in DOMAIN Plan : n # nth =>
          /\ owner'[Plan[n].id] = owner[Plan[n].id]
          /\ status'[Plan[n].id] = status[Plan[n].id]
          /\ kids'[Plan[n].id] = kids[Plan[n].id]
    BY <1>2, <1>3, <1>4, <1>10, <2>1 DEF Move, Item
  <2>3. /\ owner'[Item.id] = Item.owner
        /\ kids'[Item.id] = Once({"conditions"})
    <3>1. kids'[Item.id] = [NoRows EXCEPT !["conditions"] = @ + OneRow["conditions"]]
      BY <1>10, <2>1 DEF Move
    <3>2. OneRow["conditions"] = 1 /\ Once({}) = NoRows
      BY OnceIsRows DEF OneRow, NoRows, Part
    <3>3. [Once({}) EXCEPT !["conditions"] = @ + 1] = Once({} \cup {"conditions"})
      BY OnceMore DEF Part
    <3> QED
      BY <1>10, <2>1, <3>1, <3>2, <3>3 DEF Move
  <2>4. phase = "move" /\ phase' = "routes" /\ nth' = nth /\ users' = users
    BY <1>10 DEF Move
  <2>5. \A n \in DOMAIN Plan :
          /\ Behind(n)' => Behind(n) /\ n # nth
          /\ Ahead(n)' => Ahead(n) /\ n # nth
    BY <1>2, <1>4, <2>4 DEF Behind, Ahead, Demo, Laid
  <2>6. \A n \in DOMAIN Plan : Behind(n)' => Complete(n)'
    BY <1>1, <2>2, <2>5 DEF PlanInv, Complete
  <2>7. \A n \in DOMAIN Plan : Ahead(n)' => kids'[Plan[n].id] = NoRows
    BY <1>1, <2>2, <2>4, <2>5 DEF PlanInv, Running, Resting
  <2> QED
    BY <1>1, <2>3, <2>4, <2>6, <2>7 DEF PlanInv, Laid, Demo, Item
<1>11. CASE Fill
  <2>1. /\ phase \in DOMAIN After /\ phase \in DOMAIN Laid
        /\ phase \in Part \ Laid[phase] /\ Laid[phase] \in SUBSET Part
        /\ phase' \in DOMAIN Laid /\ Laid[phase'] = Laid[phase] \cup {phase}
    <3>1. phase \in DOMAIN After /\ phase' = After[phase]
      BY <1>11 DEF Fill
    <3> QED
      BY <3>1, Laying, Zenon
  <2>2. nth' = nth /\ users' = users /\ owner' = owner /\ status' = status
    BY <1>11 DEF Fill
  <2>3. kids[Item.id] = Once(Laid[phase]) /\ owner[Item.id] = Item.owner
    BY <1>1, <2>1 DEF PlanInv
  <2>4. kids'[Item.id] = Once(Laid[phase'])
    <3>1. [Once(Laid[phase]) EXCEPT ![phase] = @ + 1] = Once(Laid[phase'])
      BY <2>1, OnceMore
    <3>2. Item.id \in Id /\ Item' = Item
      BY <1>2, <1>4, <2>2 DEF Item
    <3>3. kids'[Item.id] = [kids[Item.id] EXCEPT ![phase] = @ + 1]
      BY <1>11, <3>2 DEF Fill
    <3> QED
      BY <2>3, <3>1, <3>2, <3>3
  <2>5. \A n \in DOMAIN Plan : n # nth => kids'[Plan[n].id] = kids[Plan[n].id]
    BY <1>2, <1>3, <1>4, <1>11 DEF Fill, Item
  <2>6. phase' \notin Demo \cup {"done", "create", "move", "clear", "users"}
    BY <2>1 DEF Demo, Laid
  <2>7. \A n \in DOMAIN Plan :
          /\ Behind(n)' => Behind(n) /\ n # nth
          /\ Ahead(n)' => Ahead(n) /\ n # nth
    BY <1>2, <1>4, <2>1, <2>2, <2>6 DEF Behind, Ahead, Demo, Laid
  <2>8. Running
    BY <2>1 DEF Running, Resting, Laid
  <2>9. \A n \in DOMAIN Plan : /\ Behind(n)' => Complete(n)'
                               /\ Ahead(n)' => kids'[Plan[n].id] = NoRows
    BY <1>1, <2>2, <2>5, <2>7, <2>8 DEF PlanInv, Complete
  <2> QED
    BY <1>1, <2>1, <2>2, <2>3, <2>4, <2>6, <2>9 DEF PlanInv, Item
<1>12. CASE SetStatus
  <2>1. /\ phase = "status" /\ phase \in DOMAIN Laid /\ Laid[phase] = Part
        /\ status' = [status EXCEPT ![Item.id] = Item.status]
        /\ UNCHANGED <<users, owner, kids, shared>>
    BY <1>12 DEF SetStatus, Laid
  <2>2. \A n \in DOMAIN Plan : n # nth => status'[Plan[n].id] = status[Plan[n].id]
    BY <1>2, <1>3, <1>4, <2>1 DEF Item
  <2>3. ASSUME NEW n \in DOMAIN Plan, n = nth PROVE Complete(n)'
    <3>1. owner[Plan[n].id] = Plan[n].owner /\ kids[Plan[n].id] = Once(Part)
      BY <1>1, <2>1, <2>3 DEF PlanInv, Item
    <3>2. status'[Plan[n].id] = Plan[n].status
      BY <1>2, <2>1, <2>3 DEF Item
    <3> QED
      BY <2>1, <3>1, <3>2 DEF Complete
  <2>4. \A n \in DOMAIN Plan : n <= nth => Complete(n)'
    <3>1. ASSUME NEW n \in DOMAIN Plan, n <= nth, n # nth PROVE Behind(n)
      <4>1. n < nth
        <5>1. n \in Nat /\ nth \in Nat
          BY <1>2, <1>4
        <5> QED
          BY <3>1, <5>1, Below, Zenon
      <4>2. phase \in {"create", "move"} \cup DOMAIN Laid
        BY <2>1
      <4> QED
        BY <4>1, <4>2, Zenon DEF Behind
    <3> QED
      BY <1>1, <2>1, <2>2, <2>3, <3>1 DEF PlanInv, Complete
  <2>5. \/ phase' = "create" /\ nth' = nth + 1
        \/ phase' = "sources" /\ nth' = nth /\ nth = Len(Plan)
    BY <1>4, <1>12, PlanShape DEF SetStatus
  <2>6. \A n \in DOMAIN Plan : Behind(n)' => n <= nth
    BY <1>2, <1>4, <2>5, PlanShape DEF Behind, Demo, Laid
  <2>7. \A n \in DOMAIN Plan : Ahead(n)' => Ahead(n)
    BY <1>2, <1>4, <2>5 DEF Ahead
  <2>8. Running
    BY <2>1 DEF Running, Resting
  <2> QED
    BY <1>1, <2>1, <2>4, <2>5, <2>6, <2>7, <2>8 DEF PlanInv, Laid, Demo
<1>13. CASE InsertShared
  <2>1. UNCHANGED <<users, owner, status, kids, nth>> /\ phase \in Demo
        /\ phase' \in {"points", "done"}
    BY <1>13 DEF InsertShared
  <2>2. \A n \in DOMAIN Plan : Complete(n)'
    BY <1>1, <2>1 DEF PlanInv, Behind, Complete
  <2>3. \A n \in DOMAIN Plan : Ahead(n)' => Ahead(n)
    BY <2>1 DEF Ahead
  <2>4. phase' = "done" => shared' = Demo
    BY <1>1, <1>13 DEF InsertShared, ScriptInv, Running, Resting, Demo
  <2>5. Running
    BY <2>1 DEF Running, Resting, Demo
  <2> QED
    BY <1>1, <2>1, <2>2, <2>3, <2>4, <2>5 DEF PlanInv, Laid, Demo
<1> QED
  BY <1>5, <1>6, <1>7, <1>8, <1>9, <1>10, <1>11, <1>12, <1>13 DEF Script

\* Only a run that dies between the insert of a project and its move leaves one.
LEMMA ScriptStray == SeedInv /\ StrayInv /\ Script => StrayInv'
<1> SUFFICES ASSUME SeedInv, StrayInv, Script, ~fk'
             PROVE  (IsFiniteSet(Stray) /\ Cardinality(Stray) <= crashes)'
  BY DEF StrayInv
<1> USE DEF SeedInv, SeedTypeOK, tables, callVars
<1>1. ~fk /\ ~Refused
  BY ScriptNotRefused DEF Script, StartSeed, Clear, InsertSeedUsers, CreateSeedProject,
                      Move, Fill, SetStatus, InsertShared, SeedFails, SeedDies
<1>2. IsFiniteSet(Stray) /\ Cardinality(Stray) <= crashes /\ crashes \in Nat
  BY <1>1 DEF StrayInv
<1>3. Cardinality(Stray) \in Nat
  BY <1>2, FS_CardinalityType
<1>4. Item.id \in Id /\ Item.id \notin Generated /\ Item.owner \in SeedUser
  BY PlanEntry DEF Item
<1>5. \A p \in Generated : p \in Id /\ p \notin SeedId
  BY NameAssumption DEF Id
<1>6. CASE SeedDies
  <2>1. Stray' \subseteq Stray \cup {fresh} /\ crashes' = crashes + 1
    BY <1>6 DEF SeedDies, Stray
  <2>2. IsFiniteSet(Stray \cup {fresh})
    BY <1>2, FS_AddElement
  <2>3. Cardinality(Stray \cup {fresh}) \in {Cardinality(Stray), Cardinality(Stray) + 1}
    BY <1>2, FS_AddElement
  <2>4. /\ IsFiniteSet(Stray')
        /\ Cardinality(Stray') \in Nat
        /\ Cardinality(Stray') <= Cardinality(Stray \cup {fresh})
    BY <2>1, <2>2, FS_Subset, FS_CardinalityType
  <2> QED
    BY <1>2, <1>3, <2>1, <2>3, <2>4
<1>7. CASE ~SeedDies
  <2>1. crashes' = crashes
    BY <1>7 DEF Script, StartSeed, Clear, InsertSeedUsers, CreateSeedProject,
                Move, Fill, SetStatus, InsertShared, SeedFails
  <2>2. Stray' = Stray
    <3>1. CASE CreateSeedProject
      <4>1. NewId \in Generated /\ owner[NewId] = NoUser /\ NoUser \notin SeedUser
        BY <3>1, NewIdFree, NameAssumption DEF CreateSeedProject, Create, Free
      <4>2. \A p \in Generated \ {NewId} : owner'[p] = owner[p]
        BY <1>5, <3>1 DEF CreateSeedProject, Create
      <4>3. phase = "create" /\ phase' = "move" /\ fresh' = NewId
        BY <3>1 DEF CreateSeedProject
      <4> QED
        BY <4>1, <4>2, <4>3 DEF Stray
    <3>2. CASE Move
      <4>1. fresh \in Generated /\ NoUser \notin SeedUser
        BY <3>2, NameAssumption DEF Move, MoveInv
      <4>2. owner'[fresh] = NoUser /\ \A p \in Generated \ {fresh} : owner'[p] = owner[p]
        BY <1>4, <1>5, <3>2, <4>1 DEF Move
      <4>3. phase = "move" /\ phase' = "routes"
        BY <3>2 DEF Move
      <4> QED
        BY <4>1, <4>2, <4>3 DEF Stray
    <3>3. CASE Clear
      <4>1. \A p \in Generated : owner'[p] = owner[p]
        BY <1>5, <3>3 DEF Clear
      <4> QED
        BY <3>3, <4>1 DEF Stray, Clear
    <3>4. CASE StartSeed \/ InsertSeedUsers \/ Fill \/ SetStatus \/ InsertShared
      <4>1. owner' = owner /\ phase # "move" /\ phase' # "move"
        BY <3>4 DEF StartSeed, Resting, InsertSeedUsers, Fill, After, SetStatus,
                    InsertShared, Demo
      <4> QED
        BY <4>1 DEF Stray
    <3> QED
      BY <1>1, <1>7, <3>1, <3>2, <3>3, <3>4 DEF Script, SeedFails
  <2> QED
    BY <1>2, <2>1, <2>2
<1> QED
  BY <1>6, <1>7

\* Where foreign keys are not checked, a run that ends has stored its plan, once,
\* and as many of its projects are left over as runs have died, at most.
THEOREM SpecSeedLeavesItsRows == SeedSpec => []SeedLeavesItsRows
<1>1. ASSUME SeedInv, PlanInv, StrayInv, [SeedNext]_seedVars
      PROVE  PlanInv' /\ StrayInv'
  <2>1. CASE Script
    BY <1>1, <2>1, ScriptPlan, ScriptStray
  <2>2. CASE ServerDies \/ \E c \in Call : CreateCall(c)
    BY <1>1, <2>2, CallElsewhere, ElsewhereKeeps
  <2>3. CASE UNCHANGED seedVars
    BY <1>1, <2>3 DEF seedVars, tables, scriptVars, callVars, PlanInv, StrayInv, Stray,
                      Behind, Complete, Running, Ahead, Item
  <2> QED
    BY <1>1, <2>1, <2>2, <2>3 DEF SeedNext
<1>2. ASSUME PlanInv, StrayInv PROVE SeedLeavesItsRows
  <2> SUFFICES ASSUME ~fk
               PROVE  /\ phase = "done" =>
                           /\ SeedUser \subseteq users
                           /\ shared = Demo
                           /\ \A item \in Items :
                                /\ owner[item.id] = item.owner
                                /\ status[item.id] = item.status
                                /\ \A part \in Part : kids[item.id][part] = 1
                      /\ Cardinality(Stray) <= crashes
    BY DEF SeedLeavesItsRows, Stray
  <2>1. ASSUME phase = "done", NEW n \in DOMAIN Plan
        PROVE  /\ Complete(n)
               /\ \A part \in Part : kids[Plan[n].id][part] = 1
    BY <1>2, <2>1 DEF PlanInv, Behind, Complete, Once
  <2> QED
    BY <1>2, <2>1 DEF PlanInv, StrayInv, Items, Complete
<1> QED
  BY <1>1, <1>2, PlanInvInit, SpecSeedInv, PTL DEF SeedSpec
=============================================================================
