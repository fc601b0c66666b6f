-------------------------------- MODULE DemoSeed --------------------------------
(***************************************************************************)
(* The users and projects of the database while people create projects     *)
(* (api_create_project of src/app/main.py, ensure_user and create_project  *)
(* of src/app/repository.py) and src/scripts/seed_demo.py replaces its     *)
(* demonstration data.                                                     *)
(*                                                                         *)
(* A step is what one session does up to its next commit, or a read that   *)
(* a later step relies on.  The script may die before any of its commits   *)
(* and be started again; the server may die between two commits of a call. *)
(* One person runs the script, one run at a time, and nobody works on its  *)
(* projects meanwhile.                                                     *)
(***************************************************************************)
EXTENDS Naturals, Sequences, FiniteSets

CONSTANTS
  Call,       \* calls of POST /api/projects
  AppUser,    \* people who sign in
  SeedUser,   \* SEED_USERS
  Plan,       \* SEED_PROJECTS: a sequence of records with id, owner and status
  Generated,  \* identifiers a project can be given by the database layer
  NoUser,     \* owner of a project that is not there
  NoId,       \* project of a call that has not made one
  MaxCrashes  \* bound on the runs of the script that die

Items == {Plan[n] : n \in DOMAIN Plan}
SeedId == {item.id : item \in Items}
Id == SeedId \cup Generated

Status == {"none", "draft", "evaluating", "review_required", "change_requested",
           "reviewed", "archived"}

ASSUME PlanAssumption ==
  /\ Plan \in Seq([id : SeedId, owner : SeedUser, status : Status])
  /\ Len(Plan) > 0
  /\ \A m, n \in DOMAIN Plan : Plan[m].id = Plan[n].id => m = n

ASSUME NameAssumption ==
  /\ AppUser \cap SeedUser = {}
  /\ NoUser \notin AppUser \cup SeedUser
  /\ SeedId \cap Generated = {}
  /\ NoId \notin Generated

ASSUME CrashAssumption == MaxCrashes \in Nat

\* The rows that refer to a project: its two locations and its vehicle, one
\* generation of candidates, two reports, and the record of its creation.
Part == {"conditions", "routes", "markdown", "csv", "audit"}

Demo == {"sources", "points"}

VARIABLES
  fk,        \* whether the database checks foreign keys: PostgreSQL, not SQLite
  users,     \* rows of users
  owner,     \* owner_user_id of each project, NoUser when it is not there
  status,    \* status of each project that is there
  kids,      \* how often each part of a project is stored under its id
  shared,    \* the data sources and knowledge points of the script
  phase,     \* what the script does next
  nth,       \* the project of the plan it is at
  fresh,     \* the id its latest project was given
  crashes,   \* how many runs died
  callStep,  \* what a call does next
  caller,    \* who makes it
  knew,      \* whether it found its user
  made       \* the project it made

tables == <<users, owner, status, kids, shared>>
scriptVars == <<phase, nth, fresh, crashes>>
callVars == <<callStep, caller, knew, made>>
seedVars == <<fk, tables, scriptVars, callVars>>

Resting == {"off", "done", "refused"}
Phase == Resting \cup {"clear", "users", "create", "move", "status"}
                 \cup (Part \ {"conditions"}) \cup Demo

SeedTypeOK ==
  /\ fk \in BOOLEAN
  /\ users \subseteq AppUser \cup SeedUser
  /\ owner \in [Id -> AppUser \cup SeedUser \cup {NoUser}]
  /\ status \in [Id -> Status]
  /\ kids \in [Id -> [Part -> Nat]]
  /\ shared \subseteq Demo
  /\ phase \in Phase
  /\ nth \in DOMAIN Plan
  /\ fresh \in Generated \cup {NoId}
  /\ crashes \in Nat
  /\ callStep \in [Call -> {"idle", "user", "project", "audit", "done", "failed", "lost"}]
  /\ caller \in [Call -> AppUser \cup {NoUser}]
  /\ knew \in [Call -> BOOLEAN]
  /\ made \in [Call -> Generated \cup {NoId}]

NoRows == [part \in Part |-> 0]

SeedInit ==
  /\ fk \in BOOLEAN
  /\ users = {}
  /\ owner = [p \in Id |-> NoUser]
  /\ status = [p \in Id |-> "none"]
  /\ kids = [p \in Id |-> NoRows]
  /\ shared = {}
  /\ phase = "off" /\ nth = 1 /\ fresh = NoId /\ crashes = 0
  /\ callStep = [c \in Call |-> "idle"]
  /\ caller = [c \in Call |-> NoUser]
  /\ knew = [c \in Call |-> FALSE]
  /\ made = [c \in Call |-> NoId]

-----------------------------------------------------------------------------
(* Projects.                                                               *)

Free(p) == owner[p] = NoUser /\ kids[p] = NoRows

\* A project gets an id of its own; which one makes no difference.
NewId == CHOOSE p \in Generated : Free(p)

\* create_project: the row and its conditions, in one commit.
Create(user) ==
  /\ \E p \in Generated : Free(p)
  /\ owner' = [owner EXCEPT ![NewId] = user]
  /\ status' = [status EXCEPT ![NewId] = "draft"]
  /\ kids' = [kids EXCEPT ![NewId] = [NoRows EXCEPT !["conditions"] = 1]]

-----------------------------------------------------------------------------
(* The script.                                                             *)

Item == Plan[nth]

\* The statements the database refuses: those that leave a project without
\* its owner, or rows without their project, where it checks foreign keys; and
\* those that store a key that is taken.
Refused ==
  \/ phase = "clear" /\ fk /\ \E p \in Generated : owner[p] \in SeedUser
  \/ phase = "users" /\ users \cap SeedUser # {}
  \/ phase = "create" /\ fk /\ Item.owner \notin users
  \/ phase = "move" /\ fk /\ kids[fresh] # NoRows
  \/ phase = "move" /\ owner[Item.id] # NoUser
  \/ phase \in shared

\* A refused statement ends the script; what it had not committed is undone.
SeedFails ==
  /\ Refused
  /\ phase' = "refused"
  /\ UNCHANGED <<fk, tables, nth, fresh, crashes, callVars>>

\* The script is started, for the first time or after it ended or died.
StartSeed ==
  /\ phase \in Resting
  /\ phase' = "clear" /\ nth' = 1
  /\ UNCHANGED <<fk, tables, fresh, crashes, callVars>>

\* Fault: the users of the script are left.
ClearFault ==
  /\ phase = "clear" /\ ~Refused
  /\ owner' = [p \in Id |-> IF p \in SeedId THEN NoUser ELSE owner[p]]
  /\ status' = [p \in Id |-> IF p \in SeedId THEN "none" ELSE status[p]]
  /\ kids' = [p \in Id |-> IF p \in SeedId THEN NoRows ELSE kids[p]]
  /\ shared' = {}
  /\ phase' = "users"
  /\ UNCHANGED <<fk, users, nth, fresh, crashes, callVars>>

\* The rows of the projects with a seed id go, then those projects, then the
\* users with one, the data sources and the knowledge points: one commit.
Clear ==
  /\ phase = "clear" /\ ~Refused
  /\ owner' = [p \in Id |-> IF p \in SeedId THEN NoUser ELSE owner[p]]
  /\ status' = [p \in Id |-> IF p \in SeedId THEN "none" ELSE status[p]]
  /\ kids' = [p \in Id |-> IF p \in SeedId THEN NoRows ELSE kids[p]]
  /\ users' = users \ SeedUser
  /\ shared' = {}
  /\ phase' = "users"
  /\ UNCHANGED <<fk, nth, fresh, crashes, callVars>>

InsertSeedUsers ==
  /\ phase = "users" /\ ~Refused
  /\ users' = users \cup SeedUser
  /\ phase' = "create"
  /\ UNCHANGED <<fk, owner, status, kids, shared, nth, fresh, crashes, callVars>>

CreateSeedProject ==
  /\ phase = "create" /\ ~Refused
  /\ Create(Item.owner)
  /\ fresh' = NewId
  /\ phase' = "move"
  /\ UNCHANGED <<fk, users, shared, nth, crashes, callVars>>

\* Fault: the conditions stay with the old id.
MoveFault ==
  /\ phase = "move" /\ ~Refused
  /\ owner' = [owner EXCEPT ![Item.id] = owner[fresh], ![fresh] = NoUser]
  /\ status' = [status EXCEPT ![Item.id] = status[fresh], ![fresh] = "none"]
  /\ phase' = "routes"
  /\ UNCHANGED <<fk, users, kids, shared, nth, fresh, crashes, callVars>>

\* The project is given its seed id, and its conditions are moved after it.
Move ==
  /\ phase = "move" /\ ~Refused
  /\ owner' = [owner EXCEPT ![Item.id] = owner[fresh], ![fresh] = NoUser]
  /\ status' = [status EXCEPT ![Item.id] = status[fresh], ![fresh] = "none"]
  /\ kids' = [kids EXCEPT ![Item.id]["conditions"] = @ + kids[fresh]["conditions"],
                          ![fresh]["conditions"] = 0]
  /\ phase' = "routes"
  /\ UNCHANGED <<fk, users, shared, nth, fresh, crashes, callVars>>

\* The candidates, the two reports and the record follow, a commit for each.
\* No risk of a candidate just saved has to be confirmed, so none is.
After == [routes |-> "markdown", markdown |-> "csv", csv |-> "audit",
          audit |-> "status"]

Fill ==
  /\ phase \in DOMAIN After
  /\ kids' = [kids EXCEPT ![Item.id][phase] = @ + 1]
  /\ phase' = After[phase]
  /\ UNCHANGED <<fk, users, owner, status, shared, nth, fresh, crashes, callVars>>

SetStatus ==
  /\ phase = "status"
  /\ status' = [status EXCEPT ![Item.id] = Item.status]
  /\ IF nth < Len(Plan) THEN phase' = "create" /\ nth' = nth + 1
                        ELSE phase' = "sources" /\ nth' = nth
  /\ UNCHANGED <<fk, users, owner, kids, shared, fresh, crashes, callVars>>

InsertShared ==
  /\ phase \in Demo /\ ~Refused
  /\ shared' = shared \cup {phase}
  /\ phase' = IF phase = "sources" THEN "points" ELSE "done"
  /\ UNCHANGED <<fk, users, owner, status, kids, nth, fresh, crashes, callVars>>

SeedDies ==
  /\ phase \notin Resting
  /\ crashes < MaxCrashes
  /\ phase' = "off" /\ crashes' = crashes + 1
  /\ UNCHANGED <<fk, tables, nth, fresh, callVars>>

Script ==
  \/ StartSeed \/ Clear \/ InsertSeedUsers \/ CreateSeedProject \/ Move \/ Fill
  \/ SetStatus \/ InsertShared \/ SeedFails \/ SeedDies

-----------------------------------------------------------------------------
(* Calls of POST /api/projects.                                            *)

InFlight == {c \in Call : callStep[c] \in {"user", "project", "audit"}}

GoOn(c, next) == callStep' = [callStep EXCEPT ![c] = next]

\* Faults: the user is never stored, or stored without a look.
BeginCreateFault(c, u) ==
  /\ callStep[c] = "idle"
  /\ caller' = [caller EXCEPT ![c] = u]
  /\ knew' = [knew EXCEPT ![c] = u \in users]
  /\ GoOn(c, "project")
  /\ UNCHANGED <<fk, tables, scriptVars, made>>

BeginCreateBlind(c, u) ==
  /\ callStep[c] = "idle"
  /\ caller' = [caller EXCEPT ![c] = u]
  /\ knew' = [knew EXCEPT ![c] = u \in users]
  /\ GoOn(c, "user")
  /\ UNCHANGED <<fk, tables, scriptVars, made>>

\* ensure_user looks for the user; one that is there gets its name and role.
BeginCreate(c, u) ==
  /\ callStep[c] = "idle"
  /\ caller' = [caller EXCEPT ![c] = u]
  /\ knew' = [knew EXCEPT ![c] = u \in users]
  /\ GoOn(c, IF u \in users THEN "project" ELSE "user")
  /\ UNCHANGED <<fk, tables, scriptVars, made>>

\* The key of a user that was stored meanwhile is taken; a project cannot have
\* an owner that is not stored where foreign keys are checked.
CallRefused(c) ==
  \/ callStep[c] = "user" /\ caller[c] \in users
  \/ callStep[c] = "project" /\ fk /\ caller[c] \notin users

InsertUser(c) ==
  /\ callStep[c] = "user" /\ ~CallRefused(c)
  /\ users' = users \cup {caller[c]}
  /\ GoOn(c, "project")
  /\ UNCHANGED <<fk, owner, status, kids, shared, scriptVars, caller, knew, made>>

InsertProject(c) ==
  /\ callStep[c] = "project" /\ ~CallRefused(c)
  /\ Create(caller[c])
  /\ made' = [made EXCEPT ![c] = NewId]
  /\ GoOn(c, "audit")
  /\ UNCHANGED <<fk, users, shared, scriptVars, caller, knew>>

RecordCreate(c) ==
  /\ callStep[c] = "audit"
  /\ kids' = [kids EXCEPT ![made[c]]["audit"] = @ + 1]
  /\ GoOn(c, "done")
  /\ UNCHANGED <<fk, users, owner, status, shared, scriptVars, caller, knew, made>>

CallFails(c) ==
  /\ CallRefused(c)
  /\ GoOn(c, "failed")
  /\ UNCHANGED <<fk, tables, scriptVars, caller, knew, made>>

\* The server stops between two commits; what it has committed stays.
ServerDies ==
  /\ InFlight # {}
  /\ callStep' = [c \in Call |-> IF c \in InFlight THEN "lost" ELSE callStep[c]]
  /\ UNCHANGED <<fk, tables, scriptVars, caller, knew, made>>

CreateCall(c) ==
  \/ \E u \in AppUser : BeginCreate(c, u)
  \/ InsertUser(c) \/ InsertProject(c) \/ RecordCreate(c) \/ CallFails(c)

-----------------------------------------------------------------------------

SeedNext == Script \/ (\E c \in Call : CreateCall(c)) \/ ServerDies

SeedSpec == SeedInit /\ [][SeedNext]_seedVars

-----------------------------------------------------------------------------
(* Properties.                                                             *)

\* A project somebody created stays, with its conditions, the record of its
\* creation and the row of its owner, whatever the script replaces and wherever
\* it dies; and no two calls made the same one.  Only the users keep it so
\* where the database checks no foreign keys.
CreatedProjectsStay ==
  \A c \in Call : callStep[c] = "done" =>
    /\ owner[made[c]] = caller[c] /\ caller[c] \in users
    /\ status[made[c]] = "draft"
    /\ kids[made[c]] = [NoRows EXCEPT !["conditions"] = 1, !["audit"] = 1]
    /\ \A d \in Call \ {c} : made[d] # made[c]

\* A call fails only in a race of first calls: its user was not stored when it
\* looked and is stored now, by another call that had not found it either.  So
\* whoever tries again gets a project, and nobody known is ever turned away.
OnlyFirstCallsFail ==
  \A c \in Call : callStep[c] = "failed" =>
    /\ ~knew[c]
    /\ caller[c] \in users
    /\ \E d \in Call \ {c} :
         caller[d] = caller[c] /\ ~knew[d] /\ callStep[d] \notin {"idle", "user", "failed"}

\* A run that ends has stored what it is meant to, once, whatever earlier runs
\* left when they died; and a run leaves at most one project behind for good,
\* under an id no later run looks for, when it dies.
SeedLeavesItsRows ==
  ~fk =>
    /\ phase = "done" =>
         /\ SeedUser \subseteq users
         /\ shared = Demo
         /\ \A item \in Items :
              /\ owner[item.id] = item.owner /\ status[item.id] = item.status
              /\ \A part \in Part : kids[item.id][part] = 1
    /\ Cardinality({p \in Generated : owner[p] \in SeedUser} \
                     (IF phase = "move" THEN {fresh} ELSE {})) <= crashes

\* Where foreign keys are not checked, no statement of the script is ever
\* refused: it can be run again wherever it died.
RerunIsAccepted == ~fk => phase # "refused"

\* What the script says of itself (seed_demo.py:303-304, 437), of any database.
SeedIsAccepted == phase # "refused"
=============================================================================
