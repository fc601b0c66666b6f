----------------------------- MODULE KnowledgeGate -----------------------------
(***************************************************************************)
(* The limit of src/app/main.py on how often a client may use the public   *)
(* knowledge search.                                                       *)
(*                                                                         *)
(* It remembers the times of the allowed requests of each client, in a     *)
(* dictionary of limited size.  A request is decided without a wait, so it *)
(* is one step.  Times are kept as ages, in the order of the deque.        *)
(***************************************************************************)
EXTENDS Naturals, Sequences, FiniteSets

CONSTANTS
  Client,       \* client addresses
  MaxRequests,  \* _KNOWLEDGE_MAX_REQUESTS
  Window,       \* _KNOWLEDGE_WINDOW_SECONDS
  MaxClients    \* _KNOWLEDGE_MAX_CLIENTS

ASSUME LimitAssumption == /\ MaxRequests \in Nat \ {0}
                          /\ Window \in Nat
                          /\ MaxClients \in Nat \ {0}

ASSUME ClientAssumption == IsFiniteSet(Client)

\* A hit older than the window is as good as gone.
Age == 0 .. Window + 1

VARIABLES
  clients,  \* the keys of _knowledge_hits, in the order of the dictionary
  hits,     \* its values: the ages of a client's allowed requests, oldest first
  refused,  \* the clients whose latest request was refused
  crowd     \* history: the others that asked since a client was remembered

gateVars == <<clients, hits, refused, crowd>>

GateTypeOK ==
  /\ clients \in Seq(Client)
  /\ hits \in [Client -> Seq(Age)]
  /\ refused \subseteq Client
  /\ crowd \in [Client -> SUBSET Client]

GateInit ==
  /\ clients = <<>>
  /\ hits = [c \in Client |-> <<>>]
  /\ refused = {}
  /\ crowd = [c \in Client |-> {}]

-----------------------------------------------------------------------------
(* The limit.                                                              *)

Elements(seq) == {seq[i] : i \in DOMAIN seq}

\* The hits that are left when those at the front that are older than the
\* window are dropped.  A hit as old as the window still counts.
InWindow(ages) ==
  LET stale == {i \in DOMAIN ages : \A j \in 1 .. i : ages[j] > Window}
  IN  SubSeq(ages, Cardinality(stale) + 1, Len(ages))

Full(c) == Len(InWindow(hits[c])) >= MaxRequests

\* Faults: the newest client makes room; a refused request counts as well.
EnterFault(c) ==
  IF c \in Elements(clients) THEN clients
  ELSE IF Len(clients) >= MaxClients
       THEN Append(SubSeq(clients, 1, Len(clients) - 1), c)
       ELSE Append(clients, c)

NextHitsFault(c) ==
  LET ages == InWindow(hits[c])
  IN  IF Len(ages) >= MaxRequests THEN Append(Tail(ages), 0)
                                  ELSE Append(ages, 0)

\* A client that is not known is entered, and the one that was entered first
\* is forgotten when there are too many.
Enter(c) ==
  IF c \in Elements(clients) THEN clients
  ELSE IF Len(clients) >= MaxClients THEN Append(Tail(clients), c)
                                     ELSE Append(clients, c)

\* An allowed request is recorded, a refused one is not.
NextHits(c) == IF Full(c) THEN InWindow(hits[c]) ELSE Append(InWindow(hits[c]), 0)

-----------------------------------------------------------------------------
(* Steps.                                                                  *)

Ask(c) ==
  /\ clients' = Enter(c)
  /\ hits' = [d \in Client |-> IF d \notin Elements(clients') THEN <<>>
                               ELSE IF d = c THEN NextHits(c) ELSE hits[d]]
  /\ refused' = IF Full(c) THEN refused \cup {c} ELSE refused \ {c}
  /\ crowd' = [d \in Client |->
                IF d \in Elements(clients) THEN crowd[d] \cup ({c} \ {d}) ELSE {}]

GateTimePasses ==
  /\ \E c \in Client : \E i \in DOMAIN hits[c] : hits[c][i] <= Window
  /\ hits' = [c \in Client |->
                [i \in DOMAIN hits[c] |->
                   IF hits[c][i] <= Window THEN hits[c][i] + 1 ELSE hits[c][i]]]
  /\ UNCHANGED <<clients, refused, crowd>>

\* The process restarts without a record of anybody.
GateRestart ==
  /\ clients # <<>>
  /\ clients' = <<>>
  /\ hits' = [c \in Client |-> <<>>]
  /\ refused' = {}
  /\ crowd' = [c \in Client |-> {}]

GateNext == (\E c \in Client : Ask(c)) \/ GateTimePasses \/ GateRestart

GateSpec == GateInit /\ [][GateNext]_gateVars

GateFairness == WF_gateVars(GateTimePasses)

-----------------------------------------------------------------------------

\* The dictionary holds a client once and is never larger than its limit, and
\* no client has more than MaxRequests hits, the oldest one first.
GateInv ==
  /\ GateTypeOK
  /\ Len(clients) <= MaxClients
  /\ \A i, j \in DOMAIN clients : clients[i] = clients[j] => i = j
  /\ \A c \in Client :
       /\ Len(hits[c]) <= MaxRequests
       /\ \A i, j \in DOMAIN hits[c] : i < j => hits[c][i] >= hits[c][j]
       /\ hits[c] # <<>> => c \in Elements(clients)

\* A client's hits are forgotten, so that it may ask MaxRequests times more,
\* only when MaxClients others have asked since it was entered: nobody gets
\* round the limit in a smaller crowd, in whatever order clients come back.
ForgottenInACrowd ==
  [][\A c \in Elements(clients) \ Elements(clients') :
       clients' = <<>> \/ Cardinality(crowd'[c]) >= MaxClients]_gateVars

\* A refused client gets through again, however often it asks meanwhile.
RefusedClientRecovers == \A c \in Client : c \in refused ~> ~Full(c)
=============================================================================
