-------------------------- MODULE KnowledgeGateProofs --------------------------
(***************************************************************************)
(* Proofs about KnowledgeGate, for any clients, limit, window and size,    *)
(* and about the answers of KnowledgeSearch.                               *)
(***************************************************************************)
EXTENDS KnowledgeGate, KnowledgeSearch, SequenceTheorems, FiniteSetTheorems,
        WellFoundedInduction, TLAPS

\* A client is in the order once.
Once(seq) == \A i, j \in DOMAIN seq : seq[i] = seq[j] => i = j

\* The crowd of a client holds everybody who was entered after it.
CrowdHolds(seq, crowds) ==
  \A i, j \in DOMAIN seq : i < j => seq[j] \in crowds[seq[i]]

\* Beside it: the size of the record, and that nobody is in it twice.
CrowdInv ==
  /\ clients \in Seq(Client)
  /\ Len(clients) <= MaxClients
  /\ Once(clients)
  /\ crowd \in [Client -> SUBSET Client]
  /\ CrowdHolds(clients, crowd)

LEMMA CrowdInvInit == GateInit => CrowdInv
  BY LimitAssumption DEF GateInit, CrowdInv, Once, CrowdHolds

\* A new client is entered behind the others, all of which it joins.
LEMMA AppendCrowd ==
  ASSUME NEW seq \in Seq(Client), Once(seq), NEW c \in Client,
         c \notin Elements(seq), NEW crowds, CrowdHolds(seq, crowds),
         \A d \in Elements(seq) : c \in crowds[d]
  PROVE  /\ Append(seq, c) \in Seq(Client)
         /\ Len(Append(seq, c)) = Len(seq) + 1
         /\ Once(Append(seq, c))
         /\ CrowdHolds(Append(seq, c), crowds)
<1> DEFINE new == Append(seq, c)
<1>1. /\ new \in Seq(Client) /\ Len(new) = Len(seq) + 1 /\ Len(seq) \in Nat
      /\ DOMAIN new = 1 .. Len(seq) + 1 /\ DOMAIN seq = 1 .. Len(seq)
      /\ new[Len(seq) + 1] = c
      /\ \A i \in 1 .. Len(seq) : new[i] = seq[i]
  BY AppendProperties
<1>2. \A i \in 1 .. Len(seq) : seq[i] # c /\ seq[i] \in Elements(seq)
  BY <1>1 DEF Elements
<1>3. ASSUME NEW i \in DOMAIN new, NEW j \in DOMAIN new, new[i] = new[j]
      PROVE  i = j
  BY <1>1, <1>2, <1>3 DEF Once
<1>4. ASSUME NEW i \in DOMAIN new, NEW j \in DOMAIN new, i < j
      PROVE  new[j] \in crowds[new[i]]
  <2>1. i \in 1 .. Len(seq) /\ new[i] = seq[i]
    BY <1>1, <1>4
  <2>2. CASE j = Len(seq) + 1
    BY <1>1, <1>2, <2>1, <2>2
  <2>3. CASE j \in 1 .. Len(seq)
    BY <1>1, <1>4, <2>1, <2>3 DEF CrowdHolds
  <2>4. QED
    BY <1>1, <2>2, <2>3
<1>5. QED
  BY <1>1, <1>3, <1>4 DEF Once, CrowdHolds

\* When the first client is taken away the rest of the record stays right.
LEMMA TailCrowd ==
  ASSUME NEW seq \in Seq(Client), seq # <<>>, Once(seq),
         NEW crowds, CrowdHolds(seq, crowds)
  PROVE  /\ Tail(seq) \in Seq(Client)
         /\ Len(Tail(seq)) = Len(seq) - 1
         /\ Once(Tail(seq))
         /\ CrowdHolds(Tail(seq), crowds)
         /\ Elements(Tail(seq)) \subseteq Elements(seq)
         /\ Elements(Tail(seq)) \subseteq crowds[Head(seq)]
         /\ Elements(seq) = {Head(seq)} \cup Elements(Tail(seq))
<1> DEFINE new == Tail(seq)
<1>1. /\ new \in Seq(Client) /\ Len(new) = Len(seq) - 1 /\ Len(seq) \in Nat \ {0}
      /\ DOMAIN new = 1 .. Len(seq) - 1 /\ DOMAIN seq = 1 .. Len(seq)
      /\ \A i \in 1 .. Len(seq) - 1 : new[i] = seq[i + 1]
      /\ Head(seq) = seq[1]
  BY HeadTailProperties, EmptySeq
<1>2. ASSUME NEW i \in DOMAIN new, NEW j \in DOMAIN new
      PROVE  /\ new[i] = new[j] => i = j
             /\ i < j => new[j] \in crowds[new[i]]
  <2>1. i + 1 \in DOMAIN seq /\ j + 1 \in DOMAIN seq /\ i \in Nat /\ j \in Nat
    BY <1>1
  <2>2. new[i] = seq[i + 1] /\ new[j] = seq[j + 1]
    BY <1>1
  <2>3. new[i] = new[j] => i + 1 = j + 1
    BY <2>1, <2>2 DEF Once
  <2>4. i + 1 < j + 1 => new[j] \in crowds[new[i]]
    BY <2>1, <2>2 DEF CrowdHolds
  <2>5. QED
    BY <2>1, <2>3, <2>4
<1>3. ASSUME NEW d \in Elements(new)
      PROVE  d \in Elements(seq) /\ d \in crowds[Head(seq)]
  <2>1. PICK i \in DOMAIN new : d = new[i]
    BY DEF Elements
  <2>2. d = seq[i + 1] /\ i + 1 \in DOMAIN seq /\ 1 \in DOMAIN seq /\ 1 < i + 1
    BY <1>1, <2>1
  <2>3. QED
    BY <1>1, <2>2 DEF Elements, CrowdHolds
<1>4. ASSUME NEW d \in Elements(seq), d # Head(seq) PROVE d \in Elements(new)
  <2>1. PICK i \in DOMAIN seq : d = seq[i]
    BY DEF Elements
  <2>2. i # 1 /\ i - 1 \in DOMAIN new /\ new[i - 1] = d
    BY <1>1, <1>4, <2>1
  <2>3. QED
    BY <2>2 DEF Elements
<1>5. Head(seq) \in Elements(seq)
  BY <1>1 DEF Elements
<1>6. QED
  BY <1>1, <1>2, <1>3, <1>4, <1>5 DEF Once, CrowdHolds

\* What a request does to the record: it stays, or the client is entered
\* behind the others, the first of which is dropped when the record is full.
LEMMA AskCrowd ==
  ASSUME CrowdInv, NEW c \in Client, Ask(c)
  PROVE  /\ CrowdInv'
         /\ \A d \in Elements(clients) \ Elements(clients') :
              /\ Elements(clients') \subseteq crowd'[d]
              /\ Len(clients') = MaxClients
<1> USE LimitAssumption
<1>1. /\ clients' = Enter(c)
      /\ crowd' = [d \in Client |->
                IF d \in Elements(clients) THEN crowd[d] \cup ({c} \ {d}) ELSE {}]
  BY DEF Ask
<1>2. crowd' \in [Client -> SUBSET Client]
  BY <1>1 DEF CrowdInv
<1>3. Elements(clients) \subseteq Client
  BY DEF CrowdInv, Elements
<1>4. \A d \in Elements(clients) : crowd[d] \subseteq crowd'[d]
                                   /\ (c # d => c \in crowd'[d])
  BY <1>1, <1>3
<1>5. \A i \in DOMAIN clients : clients[i] \in Elements(clients)
  BY DEF Elements
<1>6. CrowdHolds(clients, crowd')
  BY <1>4, <1>5 DEF CrowdInv, CrowdHolds
<1>7. CASE c \in Elements(clients)
  BY <1>1, <1>2, <1>6, <1>7 DEF CrowdInv, Enter
<1>8. CASE c \notin Elements(clients) /\ Len(clients) < MaxClients
  <2>1. clients' = Append(clients, c)
    BY <1>1, <1>8 DEF Enter, CrowdInv
  <2>2. \A d \in Elements(clients) : c \in crowd'[d]
    BY <1>4, <1>8
  <2>3. /\ clients' \in Seq(Client) /\ Len(clients') = Len(clients) + 1
        /\ Once(clients') /\ CrowdHolds(clients', crowd')
    BY <1>6, <1>8, <2>1, <2>2, AppendCrowd DEF CrowdInv
  <2>4. Elements(clients) \subseteq Elements(clients')
    <3>1. \A i \in DOMAIN clients : i \in DOMAIN clients' /\ clients'[i] = clients[i]
      BY <2>1 DEF CrowdInv
    <3>2. QED
      BY <3>1 DEF Elements
  <2>5. QED
    BY <1>2, <1>8, <2>3, <2>4 DEF CrowdInv
<1>9. CASE c \notin Elements(clients) /\ ~(Len(clients) < MaxClients)
  <2>1. clients' = Append(Tail(clients), c)
    BY <1>1, <1>9 DEF Enter, CrowdInv
  <2>2. Len(clients) = MaxClients /\ clients # <<>>
    BY <1>9, EmptySeq DEF CrowdInv
  <2>3. /\ Tail(clients) \in Seq(Client) /\ Len(Tail(clients)) = Len(clients) - 1
        /\ Once(Tail(clients)) /\ CrowdHolds(Tail(clients), crowd')
        /\ Elements(Tail(clients)) \subseteq Elements(clients)
        /\ Elements(Tail(clients)) \subseteq crowd'[Head(clients)]
        /\ Elements(clients) = {Head(clients)} \cup Elements(Tail(clients))
    BY <1>6, <2>2, TailCrowd DEF CrowdInv
  <2>4. /\ c \notin Elements(Tail(clients))
        /\ \A d \in Elements(Tail(clients)) : c \in crowd'[d]
    BY <1>4, <1>9, <2>3
  <2>5. /\ clients' \in Seq(Client) /\ Len(clients') = Len(Tail(clients)) + 1
        /\ Once(clients') /\ CrowdHolds(clients', crowd')
    BY <2>1, <2>3, <2>4, AppendCrowd
  <2>6. Len(clients') = MaxClients
    BY <2>2, <2>3, <2>5
  <2>7. Elements(clients') = Elements(Tail(clients)) \cup {c}
    <3>1. /\ DOMAIN clients' = 1 .. Len(Tail(clients)) + 1
          /\ DOMAIN Tail(clients) = 1 .. Len(Tail(clients))
          /\ Len(Tail(clients)) \in Nat
          /\ clients'[Len(Tail(clients)) + 1] = c
          /\ \A i \in 1 .. Len(Tail(clients)) : clients'[i] = Tail(clients)[i]
      BY <2>1, <2>3, AppendProperties
    <3>2. ASSUME NEW i \in DOMAIN clients'
          PROVE  clients'[i] \in Elements(Tail(clients)) \cup {c}
      BY <3>1 DEF Elements
    <3>3. ASSUME NEW i \in DOMAIN Tail(clients)
          PROVE  i \in DOMAIN clients' /\ clients'[i] = Tail(clients)[i]
      BY <3>1
    <3>4. Len(Tail(clients)) + 1 \in DOMAIN clients'
      BY <3>1
    <3>5. QED
      BY <3>1, <3>2, <3>3, <3>4 DEF Elements
  <2>8. \A d \in Elements(clients) \ Elements(clients') : d = Head(clients)
    BY <2>3, <2>7
  <2>9. Head(clients) \in Elements(clients) /\ c \in crowd'[Head(clients)]
    BY <1>4, <1>9, <2>3
  <2>10. Elements(clients') \subseteq crowd'[Head(clients)]
    BY <2>3, <2>7, <2>9
  <2>11. Len(clients') <= MaxClients
    BY <2>6
  <2>12. CrowdInv'
    BY <1>2, <2>5, <2>11 DEF CrowdInv
  <2>13. QED
    BY <2>6, <2>8, <2>10, <2>12
<1>10. QED
  BY <1>7, <1>8, <1>9 DEF CrowdInv

\* A full record is of as many clients as it has places.
LEMMA OnceCardinality ==
  ASSUME NEW seq \in Seq(Client), Once(seq), NEW S \in SUBSET Client,
         Elements(seq) \subseteq S
  PROVE  Cardinality(S) >= Len(seq)
<1>1. Len(seq) \in Nat /\ DOMAIN seq = 1 .. Len(seq)
  OBVIOUS
<1>2. seq \in [1 .. Len(seq) -> S]
  BY <1>1 DEF Elements
<1>3. seq \in Injection(1 .. Len(seq), S)
  <2>1. \A i, j \in 1 .. Len(seq) : seq[i] = seq[j] => i = j
    BY <1>1 DEF Once
  <2>2. QED
    BY <1>1, <1>2, <2>1 DEF Injection, IsInjective
<1>4. IsFiniteSet(S) /\ Cardinality(S) \in Nat
  BY ClientAssumption, FS_Subset, FS_CardinalityType
<1>5. Cardinality(1 .. Len(seq)) <= Cardinality(S)
  BY <1>3, <1>4, FS_Injection
<1>6. Cardinality(1 .. Len(seq)) = Len(seq)
  BY <1>1, FS_Interval
<1>7. QED
  BY <1>1, <1>4, <1>5, <1>6

LEMMA CrowdInvNext == CrowdInv /\ [GateNext]_gateVars => CrowdInv'
<1> SUFFICES ASSUME CrowdInv, [GateNext]_gateVars PROVE CrowdInv'
  OBVIOUS
<1>1. ASSUME NEW c \in Client, Ask(c) PROVE CrowdInv'
  BY <1>1, AskCrowd
<1>2. CASE GateTimePasses
  BY <1>2 DEF GateTimePasses, CrowdInv
<1>3. CASE GateRestart
  BY <1>3, LimitAssumption DEF GateRestart, CrowdInv, Once, CrowdHolds
<1>4. CASE UNCHANGED gateVars
  BY <1>4 DEF gateVars, CrowdInv
<1>5. QED
  BY <1>1, <1>2, <1>3, <1>4 DEF GateNext

\* Whoever is forgotten was followed by at least MaxClients others.
THEOREM SpecForgottenInACrowd == GateSpec => ForgottenInACrowd
<1>1. CrowdInv /\ [GateNext]_gateVars =>
        [\A c \in Elements(clients) \ Elements(clients') :
           clients' = <<>> \/ Cardinality(crowd'[c]) >= MaxClients]_gateVars
  <2> SUFFICES ASSUME CrowdInv, GateNext,
                      NEW d \in Elements(clients) \ Elements(clients')
               PROVE  clients' = <<>> \/ Cardinality(crowd'[d]) >= MaxClients
    BY DEF gateVars
  <2>1. ASSUME NEW c \in Client, Ask(c)
        PROVE  Cardinality(crowd'[d]) >= MaxClients
    <3>1. /\ CrowdInv' /\ Elements(clients') \subseteq crowd'[d]
          /\ Len(clients') = MaxClients
      BY <2>1, AskCrowd
    <3>2. d \in Client
      BY DEF CrowdInv, Elements
    <3>3. crowd'[d] \in SUBSET Client /\ clients' \in Seq(Client) /\ Once(clients')
      BY <3>1, <3>2 DEF CrowdInv
    <3>4. QED
      BY <3>1, <3>3, OnceCardinality
  <2>2. CASE GateTimePasses
    BY <2>2 DEF GateTimePasses
  <2>3. CASE GateRestart
    BY <2>3 DEF GateRestart
  <2>4. QED
    BY <2>1, <2>2, <2>3 DEF GateNext
<1>2. QED
  BY <1>1, CrowdInvInit, CrowdInvNext, PTL DEF GateSpec, ForgottenInACrowd

-----------------------------------------------------------------------------
(* The hits.                                                               *)

\* A set of numbers that is not empty has a least one.
LEMMA LeastNumber ==
  ASSUME NEW T \in SUBSET Nat, T # {}
  PROVE  \E n \in T : \A m \in T : n <= m
<1>1. PICK n \in T : \A m \in T : ~(<<m, n>> \in OpToRel(<, Nat))
  BY NatLessThanWellFounded, WFMin
<1>2. ASSUME NEW m \in T
      PROVE  n <= m
  <2>1. <<m, n>> \notin {pair \in Nat \X Nat : pair[1] < pair[2]}
    BY <1>1 DEF OpToRel
  <2>2. <<m, n>> \in Nat \X Nat /\ <<m, n>>[1] = m /\ <<m, n>>[2] = n
    OBVIOUS
  <2>3. QED
    BY <2>1, <2>2
<1>3. QED
  BY <1>2

\* What InWindow drops is the longest front of hits older than the window.
LEMMA InWindowFacts ==
  ASSUME NEW ages \in Seq(Age)
  PROVE  \E k \in 0 .. Len(ages) :
           /\ \A j \in 1 .. k : ages[j] > Window
           /\ k < Len(ages) => ages[k + 1] <= Window
           /\ InWindow(ages) = SubSeq(ages, k + 1, Len(ages))
<1> DEFINE stale == {i \in DOMAIN ages : \A j \in 1 .. i : ages[j] > Window}
           stays == {i \in Nat : i # 0 /\ i \notin stale}
<1>1. /\ Len(ages) \in Nat /\ DOMAIN ages = 1 .. Len(ages) /\ Window \in Nat
      /\ \A i \in 1 .. Len(ages) : ages[i] \in Nat
  BY LimitAssumption DEF Age
<1>2. Len(ages) + 1 \in stays
  BY <1>1
<1>3. PICK m \in stays : \A i \in stays : m <= i
  BY <1>2, LeastNumber
<1>4. m \in 1 .. Len(ages) + 1
  BY <1>1, <1>2, <1>3
<1>5. \A i \in 1 .. m - 1 : i \in stale
  BY <1>3, <1>4
<1>6. \A i \in stale : i < m
  <2> SUFFICES ASSUME NEW i \in stale, ~(i < m) PROVE FALSE
    OBVIOUS
  <2>1. m \in DOMAIN ages /\ \A j \in 1 .. m : ages[j] > Window
    BY <1>1, <1>4
  <2>2. QED
    BY <1>3, <2>1
<1>7. stale = 1 .. m - 1
  BY <1>1, <1>4, <1>5, <1>6
<1>8. Cardinality(stale) = m - 1
  <2>1. Cardinality(1 .. m - 1) = m - 1
    BY <1>1, <1>4, FS_Interval
  <2>2. QED
    BY <1>7, <2>1
<1>9. \A j \in 1 .. m - 1 : ages[j] > Window
  BY <1>1, <1>4, <1>5
<1>10. m - 1 < Len(ages) => ages[m] <= Window
  <2> SUFFICES ASSUME m <= Len(ages) PROVE ages[m] <= Window
    BY <1>1, <1>4
  <2>1. PICK j \in 1 .. m : ~(ages[j] > Window)
    BY <1>1, <1>3, <1>4
  <2>2. j = m
    BY <1>4, <1>9, <2>1
  <2>3. QED
    BY <1>1, <1>4, <2>1, <2>2
<1>11. InWindow(ages) = SubSeq(ages, m, Len(ages))
  <2>1. InWindow(ages) = SubSeq(ages, Cardinality(stale) + 1, Len(ages))
    BY DEF InWindow
  <2>2. m - 1 + 1 = m
    BY <1>1, <1>4
  <2>3. QED
    BY <1>8, <2>1, <2>2
<1>12. m - 1 \in 0 .. Len(ages) /\ (m - 1) + 1 = m
  BY <1>1, <1>4
<1> HIDE DEF stale, stays
<1>13. QED
  BY <1>9, <1>10, <1>11, <1>12

\* The oldest hit comes first.
OldestFirst(ages) == \A i, j \in DOMAIN ages : i < j => ages[i] >= ages[j]

\* What is left in the window is in order still, and no longer; when nothing
\* is dropped it is what there was, and the first hit is in the window.
LEMMA InWindowKeeps ==
  ASSUME NEW ages \in Seq(Age), OldestFirst(ages)
  PROVE  /\ InWindow(ages) \in Seq(Age)
         /\ OldestFirst(InWindow(ages))
         /\ Len(InWindow(ages)) <= Len(ages)
         /\ Len(InWindow(ages)) = Len(ages) => InWindow(ages) = ages
         /\ InWindow(ages) = ages /\ ages # <<>> => ages[1] <= Window
<1>1. PICK k \in 0 .. Len(ages) :
           /\ \A j \in 1 .. k : ages[j] > Window
           /\ k < Len(ages) => ages[k + 1] <= Window
           /\ InWindow(ages) = SubSeq(ages, k + 1, Len(ages))
  BY InWindowFacts
<1> DEFINE left == InWindow(ages)
<1>2. /\ left \in Seq(Age) /\ Len(left) = Len(ages) - k
      /\ DOMAIN left = 1 .. Len(ages) - k /\ DOMAIN ages = 1 .. Len(ages)
      /\ Len(ages) \in Nat
      /\ \A i \in 1 .. Len(ages) - k : left[i] = ages[i + k]
  BY <1>1
<1>3. ASSUME NEW i \in DOMAIN left, NEW j \in DOMAIN left, i < j
      PROVE  left[i] >= left[j]
  <2>1. i + k \in DOMAIN ages /\ j + k \in DOMAIN ages /\ i + k < j + k
    BY <1>2, <1>3
  <2>2. QED
    BY <1>2, <2>1 DEF OldestFirst
<1>4. Len(left) = Len(ages) => k = 0
  BY <1>2
<1>5. k = 0 => left = ages
  BY <1>1, <1>2
<1>6. OldestFirst(left)
  BY <1>3 DEF OldestFirst
<1>7. ASSUME left = ages, ages # <<>> PROVE ages[1] <= Window
  <2>1. Len(ages) # 0
    BY <1>7, EmptySeq
  <2>2. k = 0
    BY <1>2, <1>7
  <2>3. QED
    BY <1>1, <1>2, <2>1, <2>2
<1> HIDE DEF left
<1>8. left \in Seq(Age) /\ Len(left) <= Len(ages)
  BY <1>2
<1>9. QED
  BY <1>4, <1>5, <1>6, <1>7, <1>8 DEF left

\* The hits of one client.
HitsFit(c) ==
  /\ Len(hits[c]) <= MaxRequests
  /\ OldestFirst(hits[c])
  /\ hits[c] # <<>> => c \in Elements(clients)

HitsInv ==
  /\ hits \in [Client -> Seq(Age)]
  /\ refused \subseteq Client
  /\ \A c \in Client : HitsFit(c)

\* A recorded request is the youngest, and there is room for it.
LEMMA NextHitsFit ==
  ASSUME NEW c \in Client, hits[c] \in Seq(Age), HitsFit(c)
  PROVE  /\ NextHits(c) \in Seq(Age)
         /\ Len(NextHits(c)) <= MaxRequests
         /\ OldestFirst(NextHits(c))
<1> DEFINE left == InWindow(hits[c])
<1>1. left \in Seq(Age) /\ OldestFirst(left) /\ Len(left) <= Len(hits[c])
  BY InWindowKeeps DEF HitsFit
<1>2. /\ Len(hits[c]) <= MaxRequests /\ Len(hits[c]) \in Nat
      /\ MaxRequests \in Nat /\ Window \in Nat
  BY LimitAssumption DEF HitsFit
<1> HIDE DEF left
<1>3. CASE Full(c)
  <2>1. NextHits(c) = left
    BY <1>3 DEF NextHits, left
  <2>2. QED
    BY <1>1, <1>2, <2>1
<1>4. CASE ~Full(c)
  <2>1. NextHits(c) = Append(left, 0) /\ Len(left) < MaxRequests
    BY <1>1, <1>2, <1>4 DEF NextHits, Full, left
  <2>2. 0 \in Age
    BY <1>2 DEF Age
  <2>3. /\ Append(left, 0) \in Seq(Age) /\ Len(Append(left, 0)) = Len(left) + 1
        /\ DOMAIN Append(left, 0) = 1 .. Len(left) + 1
        /\ DOMAIN left = 1 .. Len(left) /\ Len(left) \in Nat
        /\ Append(left, 0)[Len(left) + 1] = 0
        /\ \A i \in 1 .. Len(left) : Append(left, 0)[i] = left[i]
    BY <1>1, <2>2, AppendProperties
  <2>4. \A i \in 1 .. Len(left) : left[i] \in Nat
    BY <1>1, <1>2, <2>3 DEF Age
  <2>5. ASSUME NEW i \in 1 .. Len(left) + 1, NEW j \in 1 .. Len(left) + 1, i < j
        PROVE  Append(left, 0)[i] >= Append(left, 0)[j]
    <3>1. i \in 1 .. Len(left) /\ Append(left, 0)[i] = left[i]
      BY <2>3, <2>5
    <3>2. CASE j = Len(left) + 1
      BY <2>3, <2>4, <3>1, <3>2
    <3>3. CASE j \in 1 .. Len(left)
      BY <1>1, <2>3, <2>5, <3>1, <3>3 DEF OldestFirst
    <3>4. QED
      BY <2>3, <3>2, <3>3
  <2>6. OldestFirst(Append(left, 0))
    BY <2>3, <2>5 DEF OldestFirst
  <2>7. QED
    BY <1>1, <1>2, <2>1, <2>3, <2>6
<1>5. QED
  BY <1>3, <1>4

\* Hits all grow older together.
LEMMA AgedFit ==
  ASSUME NEW ages \in Seq(Age), OldestFirst(ages)
  PROVE  LET aged == [i \in DOMAIN ages |->
                        IF ages[i] <= Window THEN ages[i] + 1 ELSE ages[i]]
         IN  aged \in Seq(Age) /\ Len(aged) = Len(ages) /\ OldestFirst(aged)
<1> DEFINE aged == [i \in DOMAIN ages |->
                      IF ages[i] <= Window THEN ages[i] + 1 ELSE ages[i]]
<1>1. /\ DOMAIN ages = 1 .. Len(ages) /\ Len(ages) \in Nat /\ Window \in Nat
      /\ \A i \in 1 .. Len(ages) : ages[i] \in Age
  BY LimitAssumption
<1>2. \A a \in Age : (IF a <= Window THEN a + 1 ELSE a) \in Age
  BY <1>1 DEF Age
<1>3. aged \in [1 .. Len(ages) -> Age]
  BY <1>1, <1>2
<1>4. aged \in Seq(Age) /\ Len(aged) = Len(ages)
  BY <1>1, <1>3
<1>5. \A a, b \in Age : a >= b => (IF a <= Window THEN a + 1 ELSE a)
                                    >= (IF b <= Window THEN b + 1 ELSE b)
  BY <1>1 DEF Age
<1>6. OldestFirst(aged)
  BY <1>1, <1>5 DEF OldestFirst
<1>7. QED
  BY <1>4, <1>6

LEMMA HitsInvInit == GateInit => HitsInv
<1> SUFFICES ASSUME GateInit PROVE HitsInv
  OBVIOUS
<1>1. /\ <<>> \in Seq(Age) /\ Len(<<>>) = 0 /\ DOMAIN <<>> = {}
  OBVIOUS
<1>2. QED
  BY <1>1, LimitAssumption DEF GateInit, HitsInv, HitsFit, OldestFirst

LEMMA HitsInvNext == HitsInv /\ [GateNext]_gateVars => HitsInv'
<1> SUFFICES ASSUME HitsInv, [GateNext]_gateVars PROVE HitsInv'
  OBVIOUS
<1>0. /\ <<>> \in Seq(Age) /\ Len(<<>>) = 0 /\ OldestFirst(<<>>)
      /\ 0 <= MaxRequests
  BY LimitAssumption DEF OldestFirst
<1>1. ASSUME NEW c \in Client, Ask(c) PROVE HitsInv'
  <2> SUFFICES ASSUME NEW d \in Client
               PROVE  hits' \in [Client -> Seq(Age)] /\ HitsFit(d)'
    BY <1>1 DEF HitsInv, Ask
  <2>1. hits' = [e \in Client |-> IF e \notin Elements(clients') THEN <<>>
                                  ELSE IF e = c THEN NextHits(c) ELSE hits[e]]
    BY <1>1 DEF Ask
  <2>2. /\ NextHits(c) \in Seq(Age) /\ Len(NextHits(c)) <= MaxRequests
        /\ OldestFirst(NextHits(c))
    BY NextHitsFit DEF HitsInv
  <2>3. hits' \in [Client -> Seq(Age)]
    BY <1>0, <2>1, <2>2 DEF HitsInv
  <2>4. CASE d \notin Elements(clients')
    BY <1>0, <2>1, <2>3, <2>4 DEF HitsFit
  <2>5. CASE d \in Elements(clients') /\ d = c
    BY <2>1, <2>2, <2>3, <2>5 DEF HitsFit
  <2>6. CASE d \in Elements(clients') /\ d # c
    BY <2>1, <2>3, <2>6 DEF HitsInv, HitsFit
  <2>7. QED
    BY <2>3, <2>4, <2>5, <2>6
<1>2. CASE GateTimePasses
  <2>1. \A c \in Client :
          hits'[c] = [i \in DOMAIN hits[c] |-> IF hits[c][i] <= Window
                                               THEN hits[c][i] + 1 ELSE hits[c][i]]
    BY <1>2 DEF GateTimePasses
  <2>2. ASSUME NEW c \in Client
        PROVE  hits'[c] \in Seq(Age) /\ HitsFit(c)'
    <3>1. hits[c] \in Seq(Age) /\ OldestFirst(hits[c])
      BY DEF HitsInv, HitsFit
    <3>2. /\ hits'[c] \in Seq(Age) /\ Len(hits'[c]) = Len(hits[c])
          /\ OldestFirst(hits'[c])
      BY <2>1, <3>1, AgedFit
    <3>3. hits'[c] # <<>> => hits[c] # <<>>
      BY <3>1, <3>2, EmptySeq
    <3>4. clients' = clients
      BY <1>2 DEF GateTimePasses
    <3>5. QED
      BY <3>2, <3>3, <3>4 DEF HitsInv, HitsFit
  <2>3. hits' \in [Client -> Seq(Age)] /\ refused' = refused
    <3>1. hits' = [c \in Client |-> hits'[c]]
      BY <1>2 DEF GateTimePasses
    <3>2. QED
      BY <1>2, <2>2, <3>1 DEF GateTimePasses
  <2>4. QED
    BY <2>2, <2>3 DEF HitsInv
<1>3. CASE GateRestart
  BY <1>0, <1>3 DEF GateRestart, HitsInv, HitsFit
<1>4. CASE UNCHANGED gateVars
  BY <1>4 DEF gateVars, HitsInv, HitsFit
<1>5. QED
  BY <1>1, <1>2, <1>3, <1>4 DEF GateNext

\* The record has the size, the order and the types it should: in particular
\* no client ever has more than MaxRequests hits.
THEOREM SpecGateInv == GateSpec => []GateInv
<1>1. CrowdInv /\ HitsInv => GateInv
  BY DEF CrowdInv, Once, HitsInv, HitsFit, OldestFirst, GateInv, GateTypeOK
<1>2. QED
  BY <1>1, CrowdInvInit, CrowdInvNext, HitsInvInit, HitsInvNext, PTL DEF GateSpec

-----------------------------------------------------------------------------
(* A client at the limit.                                                  *)

\* How long a client has to wait: until its oldest hit leaves the window.
Wait(c) == IF Full(c) THEN Window + 1 - hits[c][1] ELSE 0

\* What a step may do to a client that has to wait.  Nothing makes it wait
\* longer - its own requests, all refused, do not count - and time brings it
\* nearer to the next allowed request.
WaitShrinks ==
  \A c \in Client : Full(c) =>
    /\ Wait(c) \in 1 .. Window + 1
    /\ Wait(c)' <= Wait(c)
    /\ GateTimePasses => Wait(c)' < Wait(c)

\* All hits of a full client are in the window.
LEMMA FullFacts ==
  ASSUME NEW c \in Client, hits[c] \in Seq(Age), HitsFit(c), Full(c)
  PROVE  /\ InWindow(hits[c]) = hits[c]
         /\ 1 \in DOMAIN hits[c]
         /\ hits[c][1] \in 0 .. Window
<1>1. /\ InWindow(hits[c]) \in Seq(Age)
      /\ Len(InWindow(hits[c])) <= Len(hits[c])
      /\ Len(InWindow(hits[c])) = Len(hits[c]) => InWindow(hits[c]) = hits[c]
      /\ InWindow(hits[c]) = hits[c] /\ hits[c] # <<>> => hits[c][1] <= Window
  BY InWindowKeeps DEF HitsFit
<1>2. /\ Len(hits[c]) <= MaxRequests /\ MaxRequests \in Nat \ {0}
      /\ Len(InWindow(hits[c])) >= MaxRequests
  BY LimitAssumption DEF HitsFit, Full
<1>3. Len(InWindow(hits[c])) = Len(hits[c]) /\ Len(hits[c]) \in Nat \ {0}
  BY <1>1, <1>2
<1>4. hits[c] # <<>> /\ 1 \in DOMAIN hits[c]
  BY <1>3
<1>5. QED
  BY <1>1, <1>3, <1>4, LimitAssumption DEF Age

LEMMA WaitShrinksStep == HitsInv /\ [GateNext]_gateVars => WaitShrinks
<1> SUFFICES ASSUME HitsInv, [GateNext]_gateVars, NEW c \in Client, Full(c)
             PROVE  /\ Wait(c) \in 1 .. Window + 1
                    /\ Wait(c)' <= Wait(c)
                    /\ GateTimePasses => Wait(c)' < Wait(c)
  BY DEF WaitShrinks
<1>1. /\ InWindow(hits[c]) = hits[c] /\ 1 \in DOMAIN hits[c]
      /\ hits[c][1] \in 0 .. Window /\ Window \in Nat
      /\ Wait(c) = Window + 1 - hits[c][1]
  BY FullFacts, LimitAssumption DEF HitsInv, Wait
<1>2. Wait(c)' = IF Full(c)' THEN Window + 1 - hits'[c][1] ELSE 0
  BY DEF Wait
<1>3. hits'[c] = hits[c] => Wait(c)' = Wait(c)
  <2>1. hits'[c] = hits[c] => (Full(c)' <=> Full(c))
    BY DEF Full
  <2>2. QED
    BY <1>1, <1>2, <2>1
<1>4. hits'[c] = <<>> => Wait(c)' = 0
  <2> SUFFICES ASSUME hits'[c] = <<>>, Full(c)' PROVE FALSE
    BY <1>2
  <2>1. <<>> \in Seq(Age) /\ OldestFirst(<<>>) /\ Len(<<>>) = 0
    BY DEF OldestFirst
  <2>2. Len(InWindow(<<>>)) <= 0 /\ InWindow(<<>>) \in Seq(Age)
    BY <2>1, InWindowKeeps
  <2>3. Len(InWindow(<<>>)) >= MaxRequests
    BY DEF Full
  <2>4. QED
    BY <2>2, <2>3, LimitAssumption
<1>5. ASSUME GateTimePasses PROVE Wait(c)' < Wait(c)
  <2>1. hits'[c][1] = hits[c][1] + 1
    BY <1>1, <1>5 DEF GateTimePasses
  <2>2. QED
    BY <1>1, <1>2, <2>1
<1>6. ASSUME NEW d \in Client, Ask(d)
      PROVE  hits'[c] = hits[c] \/ hits'[c] = <<>>
  BY <1>1, <1>6 DEF Ask, NextHits
<1>7. Wait(c) \in 1 .. Window + 1
  BY <1>1
<1>8. Wait(c)' <= Wait(c)
  <2>1. CASE hits'[c] = hits[c]
    BY <1>3, <1>7, <2>1
  <2>2. CASE hits'[c] = <<>>
    BY <1>4, <1>7, <2>2
  <2>3. CASE GateRestart
    <3>1. hits'[c] = <<>>
      BY <2>3 DEF GateRestart
    <3>2. QED
      BY <2>2, <3>1
  <2>4. CASE UNCHANGED gateVars
    BY <2>1, <2>4 DEF gateVars
  <2>5. CASE GateTimePasses
    <3>1. Wait(c)' \in Int
      BY <1>1, <1>2, <2>5 DEF GateTimePasses
    <3>2. QED
      BY <1>5, <1>7, <2>5, <3>1
  <2>6. QED
    BY <1>6, <2>1, <2>2, <2>3, <2>4, <2>5 DEF GateNext
<1>9. QED
  BY <1>5, <1>7, <1>8

\* A refused client gets nearer to its next allowed request with every second
\* that passes, however often it and others ask meanwhile: all of the argument
\* for RefusedClientRecovers but the fairness that makes time pass.
THEOREM SpecWaitShrinks == GateSpec => [][WaitShrinks]_gateVars
  BY HitsInvInit, HitsInvNext, WaitShrinksStep, PTL DEF GateSpec

-----------------------------------------------------------------------------
(* The targets an answer of the search names.                              *)

Before(mentions, i) == {k \in mentions : k < i}

\* Where a topic begins in the table.
Begins(topic) == IF topic <= 3 THEN topic ELSE topic + 1

\* Every place of the table, and that no target is in it twice.
LEMMA TableFacts ==
  /\ DOMAIN Targets = 1 .. 15
  /\ \A i \in 1 .. 15 :
       Targets[i].topic = IF i <= 3 THEN i ELSE IF i <= 11 THEN i - 1
                          ELSE IF i = 12 THEN 10 ELSE Always
  /\ \A i, k \in 1 .. 15 : Targets[i].target = Targets[k].target => i = k
<1>1. DOMAIN Targets = 1 .. 15
  BY DEF Targets
<1>2. /\ Targets[1] = Asks(1, "bridge_ledger")
      /\ Targets[2] = Asks(2, "height_signs")
      /\ Targets[3] = Asks(3, "width_survey")
      /\ Targets[4] = Asks(3, "guides")
      /\ Targets[5] = Asks(4, "school")
      /\ Targets[6] = Asks(5, "hospital")
      /\ Targets[7] = Asks(6, "railway")
      /\ Targets[8] = Asks(7, "weather")
      /\ Targets[9] = Asks(8, "traffic_police")
      /\ Targets[10] = Asks(9, "neighbours")
      /\ Targets[11] = Asks(10, "special_vehicle_permit")
      /\ Targets[12] = Asks(10, "road_use_permit")
      /\ Targets[13] = Asks(Always, "road_administrator")
      /\ Targets[14] = Asks(Always, "police_station")
      /\ Targets[15] = Asks(Always, "carriers")
  BY DEF Targets
<1>3. ASSUME NEW i \in 1 .. 15
      PROVE  Targets[i].topic = IF i <= 3 THEN i ELSE IF i <= 11 THEN i - 1
                                ELSE IF i = 12 THEN 10 ELSE Always
  BY <1>2 DEF Asks, Always
<1>4. ASSUME NEW i \in 1 .. 15, NEW k \in 1 .. 15,
             Targets[i].target = Targets[k].target
      PROVE  i = k
  BY <1>2, <1>4 DEF Asks
<1>5. QED
  BY <1>1, <1>3, <1>4

\* So that nothing of an answer is dropped as mentioned before.
LEMMA NothingTwice ==
  ASSUME NEW topics \in SUBSET Topic
  PROVE  /\ Mentioned(topics) \subseteq 1 .. 15
         /\ Distinct(Mentioned(topics)) = Mentioned(topics)
<1>1. Mentioned(topics) \subseteq 1 .. 15
  BY TableFacts DEF Mentioned
<1>2. \A i, k \in Mentioned(topics) :
        Targets[k].target = Targets[i].target => i <= k
  BY <1>1, TableFacts
<1>3. QED
  BY <1>1, <1>2 DEF Distinct

LEMMA FiniteNumbers ==
  ASSUME NEW S \in SUBSET (1 .. 15)
  PROVE  /\ IsFiniteSet(S) /\ Cardinality(S) \in Nat
         /\ \A i : /\ IsFiniteSet(Before(S, i))
                  /\ Cardinality(Before(S, i)) \in Nat
<1>1. IsFiniteSet(S)
  <2>1. S \in SUBSET Nat /\ \A s \in S : s <= 15
    OBVIOUS
  <2>2. QED
    BY <2>1, FS_BoundedSetOfNaturals
<1>2. ASSUME NEW i
      PROVE  IsFiniteSet(Before(S, i))
  <2>1. Before(S, i) \in SUBSET S
    BY DEF Before
  <2>2. QED
    BY <1>1, <2>1, FS_Subset
<1>3. QED
  BY <1>1, <1>2, FS_CardinalityType

\* The cut leaves no more than six, all when there are no more, else six.
LEMMA CutSize ==
  ASSUME NEW S \in SUBSET (1 .. 15)
  PROVE  /\ Cardinality(Cut(S)) <= MaxTargets
         /\ Cut(S) = S \/ Cardinality(Cut(S)) >= MaxTargets
<1> DEFINE rank == [i \in Cut(S) |-> Cardinality(Before(S, i))]
<1>1. Cut(S) = {i \in S : Cardinality(Before(S, i)) < MaxTargets}
  BY DEF Cut, Before
<1>2. Cut(S) \in SUBSET (1 .. 15)
  BY <1>1
<1>3. ASSUME NEW i \in S, NEW k \in S, i < k
      PROVE  Cardinality(Before(S, i)) < Cardinality(Before(S, k))
  <2>1. Before(S, i) \in SUBSET Before(S, k)
    <3>1. \A n \in S : n < i => n < k
      BY <1>3
    <3>2. QED
      BY <3>1 DEF Before
  <2>2. i \in Before(S, k) /\ i \notin Before(S, i)
    BY <1>3 DEF Before
  <2>3. /\ Cardinality(Before(S, i)) <= Cardinality(Before(S, k))
        /\ Cardinality(Before(S, k)) # Cardinality(Before(S, i))
    BY <2>1, <2>2, FiniteNumbers, FS_Subset
  <2>4. QED
    BY <2>3, FiniteNumbers
<1>4. Cardinality(Cut(S)) <= MaxTargets
  <2>1. rank \in [Cut(S) -> 0 .. MaxTargets - 1]
    BY <1>1, FiniteNumbers DEF MaxTargets
  <2>2. \A i, k \in Cut(S) : rank[i] = rank[k] => i = k
    <3> SUFFICES ASSUME NEW i \in Cut(S), NEW k \in Cut(S), rank[i] = rank[k]
                 PROVE  i = k
      OBVIOUS
    <3>1. i \in S /\ k \in S /\ i \in 1 .. 15 /\ k \in 1 .. 15
      BY <1>1
    <3>2. Cardinality(Before(S, i)) = Cardinality(Before(S, k))
      OBVIOUS
    <3>3. ~(i < k) /\ ~(k < i)
      BY <3>1, <3>2, <1>3, FiniteNumbers
    <3>4. QED
      BY <3>1, <3>3
  <2>3. rank \in Injection(Cut(S), 0 .. MaxTargets - 1)
    BY <2>1, <2>2 DEF Injection, IsInjective
  <2>4. /\ IsFiniteSet(0 .. MaxTargets - 1)
        /\ Cardinality(0 .. MaxTargets - 1) = MaxTargets
    <3>1. MaxTargets \in Nat \ {0}
      BY DEF MaxTargets
    <3>2. QED
      BY <3>1, FS_Interval
  <2>5. QED
    BY <2>3, <2>4, FS_Injection
<1>5. ASSUME Cut(S) # S
      PROVE  Cardinality(Cut(S)) >= MaxTargets
  <2>1. S \ Cut(S) # {} /\ S \ Cut(S) \in SUBSET Nat
    <3>1. \A i \in Cut(S) : i \in S
      BY <1>1
    <3> DEFINE kept == Cut(S)
    <3>2. kept # S /\ \A i \in kept : i \in S
      BY <1>5, <3>1
    <3> HIDE DEF kept
    <3>3. S \ kept # {} /\ S \ kept \in SUBSET (1 .. 15)
      BY <3>2
    <3>4. \A T \in SUBSET (1 .. 15) : T \in SUBSET Nat
      OBVIOUS
    <3>5. QED
      BY <3>3, <3>4 DEF kept
  <2>2. PICK m \in S \ Cut(S) : \A i \in S \ Cut(S) : m <= i
    BY <2>1, LeastNumber
  <2>3. Cardinality(Before(S, m)) >= MaxTargets
    BY <1>1, FiniteNumbers DEF MaxTargets
  <2>4. Before(S, m) \in SUBSET Cut(S)
    <3> SUFFICES ASSUME NEW k \in S, k < m
                 PROVE  k \in Cut(S)
      BY DEF Before
    <3>1. k \in 1 .. 15 /\ m \in 1 .. 15
      OBVIOUS
    <3>2. QED
      BY <2>2, <3>1
  <2>5. Cardinality(Before(S, m)) <= Cardinality(Cut(S))
    BY <1>2, <2>4, FiniteNumbers, FS_Subset
  <2>6. QED
    BY <1>2, <2>3, <2>5, FiniteNumbers DEF MaxTargets
<1>6. QED
  BY <1>4, <1>5

\* Where some topics begin, and some places more: no more than these together.
LEMMA FewPlaces ==
  ASSUME NEW S, NEW F \in SUBSET Topic, NEW G \in SUBSET (1 .. 15),
         \A k \in S : k \in G \/ \E u \in F : k = Begins(u)
  PROVE  IsFiniteSet(S) /\ Cardinality(S) <= Cardinality(F) + Cardinality(G)
<1> DEFINE begin  == [u \in F |-> Begins(u)]
           begins == {begin[u] : u \in F}
<1>1. F \in SUBSET (1 .. 15)
  BY DEF Topic
<1>2. /\ IsFiniteSet(F) /\ Cardinality(F) \in Nat
      /\ IsFiniteSet(G) /\ Cardinality(G) \in Nat
  BY <1>1, FiniteNumbers
<1>3. begin \in Surjection(F, begins)
  BY DEF Surjection
<1>4. IsFiniteSet(begins) /\ Cardinality(begins) <= Cardinality(F)
  BY <1>2, <1>3, FS_Surjection
<1>5. S \in SUBSET (begins \cup G)
  OBVIOUS
<1> HIDE DEF begins
<1>6. IsFiniteSet(begins \cup G) /\ IsFiniteSet(begins \cap G)
  BY <1>2, <1>4, FS_Union, FS_Intersection
<1>7. /\ Cardinality(begins) \in Nat
      /\ Cardinality(begins \cap G) \in Nat
      /\ Cardinality(begins \cup G) \in Nat
  BY <1>4, <1>6, FS_CardinalityType
<1>8. Cardinality(begins \cup G)
        = Cardinality(begins) + Cardinality(G) - Cardinality(begins \cap G)
  BY <1>2, <1>4, FS_Union
<1>9. /\ IsFiniteSet(S) /\ Cardinality(S) \in Nat
      /\ Cardinality(S) <= Cardinality(begins \cup G)
  BY <1>5, <1>6, FS_Subset, FS_CardinalityType
<1>10. QED
  BY <1>2, <1>4, <1>7, <1>8, <1>9

LEMMA PairSize ==
  ASSUME NEW a, NEW b
  PROVE  Cardinality({a, b}) <= 2
<1>1. /\ IsFiniteSet({a}) /\ Cardinality({a}) = 1
      /\ IsFiniteSet({b}) /\ Cardinality({b}) = 1
  BY FS_Singleton
<1>2. {a} \cup {b} = {a, b}
  OBVIOUS
<1>3. Cardinality({a} \cap {b}) \in Nat
  BY <1>1, FS_Intersection, FS_CardinalityType
<1>4. Cardinality({a} \cup {b})
        = Cardinality({a}) + Cardinality({b}) - Cardinality({a} \cap {b})
  BY <1>1, FS_Union
<1>5. QED
  BY <1>1, <1>2, <1>3, <1>4

\* With fewer than four matched topics before it, a topic keeps its targets.
LEMMA TopicKept ==
  ASSUME NEW topics \in SUBSET Topic, NEW t \in topics,
         Cardinality({u \in topics : u < t}) < 4,
         NEW i \in 1 .. 15, Targets[i].topic = t
  PROVE  i \in Cut(Mentioned(topics))
<1> DEFINE F == {u \in topics : u < t}
           S == Before(Mentioned(topics), i)
<1>1. t \in 1 .. 10 /\ F \in SUBSET Topic
  BY DEF Topic
<1>2. i \in Mentioned(topics) /\ i <= 12
  BY <1>1, TableFacts DEF Mentioned, Always
<1>3. Begins(t) \in 1 .. 15
  BY <1>1 DEF Begins
<1>4. ASSUME NEW k \in S
      PROVE  k \in {4, Begins(t)} \/ \E u \in F : k = Begins(u)
  <2>1. k \in 1 .. 15 /\ k < i /\ k \in Mentioned(topics)
    BY NothingTwice DEF Before
  <2>2. Targets[k].topic \in topics /\ Targets[k].topic <= t
    BY <1>1, <1>2, <2>1, TableFacts DEF Mentioned, Always
  <2>3. k = 4 \/ k = Begins(Targets[k].topic)
    BY <1>2, <2>1, TableFacts DEF Begins
  <2>4. Targets[k].topic = t \/ Targets[k].topic \in F
    <3>1. Targets[k].topic \in 1 .. 10
      BY <2>2 DEF Topic
    <3>2. Targets[k].topic < t \/ Targets[k].topic = t
      BY <1>1, <2>2, <3>1
    <3>3. QED
      BY <2>2, <3>2
  <2>5. QED
    BY <2>3, <2>4
<1>5. IsFiniteSet(S) /\ Cardinality(S) <= Cardinality(F) + Cardinality({4, Begins(t)})
  <2> HIDE DEF F, S
  <2>1. {4, Begins(t)} \in SUBSET (1 .. 15)
    BY <1>3
  <2>2. QED
    BY <1>1, <1>4, <2>1, FewPlaces
<1>6. Cardinality(S) < MaxTargets
  <2> HIDE DEF S
  <2>1. Cardinality({4, Begins(t)}) <= 2
    BY PairSize
  <2>2. Cardinality(F) \in Nat /\ Cardinality({4, Begins(t)}) \in Nat
    <3>1. F \in SUBSET (1 .. 15) /\ {4, Begins(t)} \in SUBSET (1 .. 15)
      <4>1. Topic \in SUBSET (1 .. 15)
        BY DEF Topic
      <4> HIDE DEF F
      <4>2. QED
        BY <1>1, <1>3, <4>1
    <3> HIDE DEF F
    <3>2. QED
      BY <3>1, FiniteNumbers
  <2>3. Cardinality(S) \in Nat
    BY <1>5, FS_CardinalityType
  <2>4. QED
    BY <1>5, <2>1, <2>2, <2>3 DEF MaxTargets
<1>7. QED
  BY <1>2, <1>6 DEF Cut, Before

\* With two topics at most the first base target is left in.
LEMMA BaseKept ==
  ASSUME NEW topics \in SUBSET Topic, Cardinality(topics) <= 2
  PROVE  13 \in Cut(Mentioned(topics))
<1> DEFINE S == Before(Mentioned(topics), 13)
<1>1. 13 \in Mentioned(topics) /\ Targets[13].topic = Always
  BY TableFacts DEF Mentioned
<1>2. ASSUME NEW k \in S
      PROVE  k \in {4, 12} \/ \E u \in topics : k = Begins(u)
  <2>1. k \in 1 .. 15 /\ k < 13 /\ k \in Mentioned(topics)
    BY NothingTwice DEF Before
  <2>2. Targets[k].topic \in topics
    BY <2>1, TableFacts DEF Mentioned, Always
  <2>3. k \in {4, 12} \/ k = Begins(Targets[k].topic)
    BY <2>1, TableFacts DEF Begins
  <2>4. QED
    BY <2>2, <2>3
<1>3. Cardinality(S) < MaxTargets
  <2> HIDE DEF S
  <2>1. {4, 12} \in SUBSET (1 .. 15)
    OBVIOUS
  <2>2. topics \in SUBSET (1 .. 15)
    BY DEF Topic
  <2>3. /\ IsFiniteSet(S)
        /\ Cardinality(S) <= Cardinality(topics) + Cardinality({4, 12})
    BY <1>2, <2>1, FewPlaces
  <2>4. Cardinality({4, 12}) <= 2
    BY PairSize
  <2>5. /\ Cardinality({4, 12}) \in Nat /\ Cardinality(topics) \in Nat
        /\ Cardinality(S) \in Nat
    BY <2>1, <2>2, <2>3, FiniteNumbers, FS_CardinalityType
  <2>6. QED
    BY <2>3, <2>4, <2>5 DEF MaxTargets
<1>4. QED
  BY <1>1, <1>3 DEF Cut, Before

\* An answer has as many targets as places of the table are left by the cut.
LEMMA AnswerSize ==
  ASSUME NEW topics \in SUBSET Topic
  PROVE  Cardinality(SearchKnowledge(topics)) \in 3 .. MaxTargets
<1> DEFINE mentions == Mentioned(topics)
           kept     == Cut(mentions)
           target   == [i \in kept |-> Targets[i].target]
<1>1. mentions \in SUBSET (1 .. 15) /\ kept \in SUBSET (1 .. 15)
  BY NothingTwice DEF Cut
<1>2. Cardinality(kept) \in 3 .. MaxTargets
  <2>1. Cardinality(mentions) >= 3
    <3>1. 13 .. 15 \in SUBSET mentions
      BY TableFacts DEF Mentioned
    <3> HIDE DEF mentions
    <3>2. Cardinality(13 .. 15) = 3
      <4>1. \A a, b \in Int : Cardinality(a .. b) = IF a > b THEN 0 ELSE b - a + 1
        BY FS_Interval
      <4> DEFINE low == 13
                 high == 15
      <4>2. low \in Int /\ high \in Int /\ ~(low > high) /\ high - low + 1 = 3
        OBVIOUS
      <4> HIDE DEF low, high
      <4>3. Cardinality(low .. high) = 3
        BY <4>1, <4>2
      <4>4. QED
        BY <4>3 DEF low, high
    <3>3. Cardinality(13 .. 15) <= Cardinality(mentions)
      BY <1>1, <3>1, FiniteNumbers, FS_Subset
    <3>4. QED
      BY <3>2, <3>3
  <2>2. /\ Cardinality(kept) <= MaxTargets
        /\ kept = mentions \/ Cardinality(kept) >= MaxTargets
    <3> HIDE DEF mentions
    <3>1. QED
      BY <1>1, CutSize
  <2>3. Cardinality(kept) \in Nat /\ Cardinality(mentions) \in Nat
    <3> HIDE DEF mentions, kept
    <3>1. QED
      BY <1>1, FiniteNumbers
  <2>4. QED
    BY <2>1, <2>2, <2>3 DEF MaxTargets
<1>3. SearchKnowledge(topics) = {Targets[i].target : i \in kept}
  BY NothingTwice DEF SearchKnowledge
<1> HIDE DEF mentions, kept
<1>4. target \in Bijection(kept, SearchKnowledge(topics))
  <2>1. \A i, k \in kept : target[i] = target[k] => i = k
    BY <1>1, TableFacts
  <2>2. target \in [kept -> SearchKnowledge(topics)]
    BY <1>3
  <2>3. \A t \in SearchKnowledge(topics) : \E i \in kept : target[i] = t
    BY <1>3
  <2>4. QED
    BY <2>1, <2>2, <2>3 DEF Bijection, Injection, Surjection, IsInjective
<1>5. IsFiniteSet(kept)
  BY <1>1, FiniteNumbers
<1>6. Cardinality(SearchKnowledge(topics)) = Cardinality(kept)
  BY <1>4, <1>5, FS_Bijection DEF ExistsBijection
<1>7. QED
  BY <1>2, <1>6

\* The answer is the one to the topics matched.
SearchInv ==
  targets # {} => matched \in SUBSET Topic /\ targets = SearchKnowledge(matched)

LEMMA AnswerKeeps == SearchInv => TopicsSurviveTheCut
<1> SUFFICES ASSUME SearchInv, targets # {}
             PROVE  TopicsSurviveTheCut
  BY DEF TopicsSurviveTheCut
<1>1. matched \in SUBSET Topic /\ targets = SearchKnowledge(matched)
  BY DEF SearchInv
<1>2. targets = {Targets[i].target : i \in Cut(Mentioned(matched))}
  BY <1>1, NothingTwice DEF SearchKnowledge
<1>3. Cardinality(targets) \in 3 .. MaxTargets
  BY <1>1, AnswerSize
<1>4. ASSUME NEW t \in matched, Cardinality({u \in matched : u < t}) < 4
      PROVE  TargetsOf(t) \subseteq targets
  <2>1. ASSUME NEW i \in DOMAIN Targets, Targets[i].topic = t
        PROVE  Targets[i].target \in targets
    <3>1. i \in Cut(Mentioned(matched))
      BY <1>1, <1>4, <2>1, TableFacts, TopicKept
    <3>2. QED
      BY <1>2, <3>1
  <2>2. QED
    BY <2>1 DEF TargetsOf
<1>5. ASSUME Cardinality(matched) <= 2
      PROVE  TargetsOf(Always) \cap targets # {}
  <2>1. Targets[13].target \in targets
    BY <1>1, <1>2, <1>5, BaseKept
  <2>2. Targets[13].target \in TargetsOf(Always)
    BY TableFacts DEF TargetsOf
  <2>3. QED
    BY <2>1, <2>2
<1>6. QED
  BY <1>3, <1>4, <1>5 DEF TopicsSurviveTheCut

LEMMA SearchInvNext ==
  ASSUME SearchInv, [SearchNext]_searchVars
  PROVE  SearchInv'
<1>1. CASE UNCHANGED searchVars
  BY <1>1 DEF SearchInv, searchVars
<1>2. ASSUME NEW topics \in SUBSET Topic, Search(topics)
      PROVE  SearchInv'
  BY <1>2 DEF Search, SearchInv
<1>3. CASE NextQuery
  BY <1>3 DEF NextQuery, SearchInv
<1>4. QED
  BY <1>1, <1>2, <1>3 DEF SearchNext

\* Whatever topics a query matches, the first four keep all their targets, one
\* or two leave room for a base target, and there are three to six targets in
\* the answer (search_knowledge).
THEOREM SpecTopicsSurviveTheCut == SearchSpec => []TopicsSurviveTheCut
<1>1. SearchInit => SearchInv
  BY DEF SearchInit, SearchInv
<1>2. QED
  BY <1>1, SearchInvNext, AnswerKeeps, PTL DEF SearchSpec
=============================================================================
