-------------------------- MODULE FeatureCacheProofs --------------------------
(***************************************************************************)
(* Proofs about FeatureCache, for any points, calls, lifetime and size.    *)
(***************************************************************************)
EXTENDS FeatureCache, SequenceTheorems, TLAPS

\* A key is in the order once.
Once(seq) == \A i, j \in DOMAIN seq : seq[i] = seq[j] => i = j

\* A call waits for at most two points, and has asked for one when it waits
\* for the last.
AskedFit ==
  \A c \in FetchCall :
    /\ Len(pending[c]) <= 2
    /\ Len(pending[c]) = 2 \/ ~Waiting(c) => asked[c] = {}

FeatureInv ==
  /\ FeatureTypeOK
  /\ CacheBounded
  /\ AskedFit
  /\ OneRequestPerPoint

-----------------------------------------------------------------------------
(* The dictionary.                                                         *)

\* Appending a key that is not there keeps every key once.
LEMMA AppendOnce ==
  ASSUME NEW seq \in Seq(Point), NEW p \in Point, Once(seq), p \notin Keys(seq)
  PROVE  /\ Append(seq, p) \in Seq(Point)
         /\ Len(Append(seq, p)) = Len(seq) + 1
         /\ Once(Append(seq, p))
         /\ p \in Keys(Append(seq, p))
<1> DEFINE new == Append(seq, p)
<1>1. /\ new \in Seq(Point) /\ Len(new) = Len(seq) + 1
      /\ new[Len(seq) + 1] = p
      /\ \A i \in 1 .. Len(seq) : new[i] = seq[i]
  OBVIOUS
<1>2. DOMAIN new = 1 .. Len(seq) + 1 /\ DOMAIN seq = 1 .. Len(seq) /\ Len(seq) \in Nat
  BY <1>1
<1>3. p \in Keys(new)
  BY <1>1, <1>2 DEF Keys
<1>4. \A i \in 1 .. Len(seq) : seq[i] # p
  BY <1>2 DEF Keys
<1>5. ASSUME NEW i \in DOMAIN new, NEW j \in DOMAIN new, new[i] = new[j]
      PROVE  i = j
  BY <1>1, <1>2, <1>4, <1>5 DEF Once
<1>6. QED
  BY <1>1, <1>3, <1>5 DEF Once

\* Taking the first key away keeps the others once.
LEMMA TailOnce ==
  ASSUME NEW seq \in Seq(Point), seq # <<>>, Once(seq)
  PROVE  /\ Tail(seq) \in Seq(Point)
         /\ Len(Tail(seq)) = Len(seq) - 1
         /\ Once(Tail(seq))
         /\ Keys(Tail(seq)) \subseteq Keys(seq)
<1>1. /\ Tail(seq) \in Seq(Point) /\ Len(Tail(seq)) = Len(seq) - 1
      /\ \A i \in 1 .. Len(seq) - 1 : Tail(seq)[i] = seq[i + 1]
  OBVIOUS
<1>2. /\ DOMAIN Tail(seq) = 1 .. Len(seq) - 1
      /\ DOMAIN seq = 1 .. Len(seq) /\ Len(seq) \in Nat
  BY <1>1
<1>3. ASSUME NEW i \in DOMAIN Tail(seq), NEW j \in DOMAIN Tail(seq),
             Tail(seq)[i] = Tail(seq)[j]
      PROVE  i = j
  <2>1. i + 1 \in DOMAIN seq /\ j + 1 \in DOMAIN seq
    BY <1>2
  <2>2. seq[i + 1] = seq[j + 1]
    BY <1>1, <1>2, <1>3
  <2>3. i + 1 = j + 1
    BY <2>1, <2>2 DEF Once
  <2>4. QED
    BY <1>2, <2>3
<1>4. ASSUME NEW q \in Keys(Tail(seq)) PROVE q \in Keys(seq)
  <2>1. PICK i \in DOMAIN Tail(seq) : q = Tail(seq)[i]
    BY DEF Keys
  <2>2. q = seq[i + 1] /\ i + 1 \in DOMAIN seq
    BY <1>1, <1>2, <2>1
  <2>3. QED
    BY <2>2 DEF Keys
<1>5. QED
  BY <1>1, <1>3, <1>4 DEF Once

\* Storing makes room for the new key and never drops it.
LEMMA PutBounded ==
  ASSUME order \in Seq(Point), Len(order) <= MaxEntries, Once(order),
         NEW p \in Point
  PROVE  /\ Put(p) \in Seq(Point)
         /\ Len(Put(p)) <= MaxEntries
         /\ Once(Put(p))
         /\ p \in Keys(Put(p))
<1> USE MaxEntriesAssumption
<1>1. CASE p \in Keys(order)
  BY <1>1 DEF Put
<1>2. CASE p \notin Keys(order) /\ Len(order) < MaxEntries
  <2>1. Put(p) = Append(order, p)
    BY <1>2 DEF Put
  <2>2. QED
    BY <1>2, <2>1, AppendOnce
<1>3. CASE p \notin Keys(order) /\ ~(Len(order) < MaxEntries)
  <2>1. Put(p) = Append(Tail(order), p)
    BY <1>3 DEF Put
  <2>2. Len(order) = MaxEntries /\ order # <<>>
    BY <1>3
  <2>3. /\ Tail(order) \in Seq(Point) /\ Len(Tail(order)) = Len(order) - 1
        /\ Once(Tail(order)) /\ p \notin Keys(Tail(order))
    BY <1>3, <2>2, TailOnce
  <2>4. /\ Put(p) \in Seq(Point) /\ Once(Put(p)) /\ p \in Keys(Put(p))
        /\ Len(Put(p)) = Len(Tail(order)) + 1
    BY <2>1, <2>3, AppendOnce
  <2>5. Len(Put(p)) = MaxEntries
    BY <2>2, <2>3, <2>4
  <2>6. QED
    BY <2>4, <2>5
<1>4. QED
  BY <1>1, <1>2, <1>3

-----------------------------------------------------------------------------
(* The inductive invariant.                                                *)

LEMMA FeatureInvInit == FeatureInit => FeatureInv
<1> SUFFICES ASSUME FeatureInit PROVE FeatureInv
  OBVIOUS
<1> USE FeatureTtlAssumption, MaxEntriesAssumption DEF FeatureInit
<1>1. NoEntry \in Entry
  BY DEF NoEntry, Entry, Kind
<1>2. FeatureTypeOK
  BY <1>1 DEF FeatureTypeOK
<1>3. CacheBounded
  BY DEF CacheBounded, Fresh, NoEntry
<1>4. AskedFit /\ OneRequestPerPoint
  BY DEF AskedFit, OneRequestPerPoint, Waiting
<1>5. QED
  BY <1>2, <1>3, <1>4 DEF FeatureInv

\* What Resume leaves a call waiting for: the rest of the points, of which
\* the first is not fresh.
LEMMA ResumeRest ==
  ASSUME FeatureTypeOK, NEW c \in FetchCall, NEW points \in Seq(Point),
         NEW kinds \in SUBSET Kind, NEW entries \in [Point -> Entry],
         Resume(c, entries, points, kinds)
  PROVE  /\ pending' \in [FetchCall -> Seq(Point)]
         /\ found' \in [FetchCall -> SUBSET Kind]
         /\ outage' \subseteq FetchCall
         /\ \A d \in FetchCall \ {c} : pending'[d] = pending[d]
         /\ Len(pending'[c]) <= Len(points)
         /\ pending'[c] # <<>> => /\ \E i \in DOMAIN points :
                                       pending'[c] = SubSeq(points, i, Len(points))
                                  /\ ~Fresh(entries[Head(pending'[c])])
<1> USE DEF FeatureTypeOK
<1>1. PICK n \in 0 .. Len(points) :
        /\ \A i \in 1 .. n : Fresh(entries[points[i]])
        /\ n < Len(points) => ~Fresh(entries[points[n + 1]])
        /\ pending' = [pending EXCEPT ![c] = SubSeq(points, n + 1, Len(points))]
        /\ found' = [found EXCEPT
                       ![c] = kinds \cup {entries[points[i]].kind : i \in 1 .. n}]
        /\ outage' = IF n < Len(points) /\ ~overpassUp THEN outage \cup {c}
                                                       ELSE outage \ {c}
  BY DEF Resume
<1> DEFINE rest == SubSeq(points, n + 1, Len(points))
<1>2. /\ rest \in Seq(Point) /\ Len(rest) = Len(points) - n
      /\ n < Len(points) => Head(rest) = points[n + 1]
      /\ n = Len(points) => rest = <<>>
  BY <1>1
<1>3. \A i \in 1 .. n : entries[points[i]].kind \in Kind
  BY DEF Entry
<1>4. found' \in [FetchCall -> SUBSET Kind]
  BY <1>1, <1>3
<1>5. pending'[c] = rest
  BY <1>1
<1>6. pending'[c] # <<>> => n < Len(points) /\ n + 1 \in DOMAIN points
  BY <1>1, <1>2, <1>5
<1>7. Len(pending'[c]) <= Len(points)
  BY <1>1, <1>2, <1>5
<1>8. pending' \in [FetchCall -> Seq(Point)] /\ outage' \subseteq FetchCall
  BY <1>1, <1>2
<1>9. QED
  BY <1>1, <1>2, <1>4, <1>5, <1>6, <1>7, <1>8

LEMMA FeatureInvNext == FeatureInv /\ [FeatureNext]_featureVars => FeatureInv'
<1> SUFFICES ASSUME FeatureInv, [FeatureNext]_featureVars PROVE FeatureInv'
  OBVIOUS
<1> USE FeatureTtlAssumption, MaxEntriesAssumption DEF FeatureInv
<1>0. NoEntry \in Entry
  BY DEF NoEntry, Entry, Kind
<1>1. ASSUME NEW c \in FetchCall, NEW start \in Point, NEW destination \in Point,
             BeginFetch(c, start, destination)
      PROVE  FeatureInv'
  <2> DEFINE points == <<start, destination>>
  <2>1. points \in Seq(Point) /\ Len(points) = 2
    OBVIOUS
  <2>2. Resume(c, entry, points, {}) /\ UNCHANGED <<overpassUp, order, entry, asked>>
        /\ ~Waiting(c)
    BY <1>1 DEF BeginFetch
  <2>3. /\ pending' \in [FetchCall -> Seq(Point)]
        /\ found' \in [FetchCall -> SUBSET Kind]
        /\ outage' \subseteq FetchCall
        /\ \A d \in FetchCall \ {c} : pending'[d] = pending[d]
        /\ Len(pending'[c]) <= 2
    BY <2>1, <2>2, ResumeRest DEF FeatureTypeOK
  <2>4. asked[c] = {}
    BY <2>2 DEF AskedFit
  <2>5. FeatureTypeOK' /\ CacheBounded'
    BY <2>2, <2>3 DEF FeatureTypeOK, CacheBounded
  <2>6. AskedFit' /\ OneRequestPerPoint'
    BY <2>2, <2>3, <2>4 DEF AskedFit, OneRequestPerPoint, Waiting
  <2>7. QED
    BY <2>5, <2>6
<1>2. ASSUME NEW c \in FetchCall, NEW kind \in Kind, Answer(c, kind)
      PROVE  FeatureInv'
  <2> DEFINE p == Head(pending[c])
             points == Tail(pending[c])
             kinds == found[c] \cup {kind}
  <2>1. /\ p \in Point /\ points \in Seq(Point) /\ kinds \in SUBSET Kind
        /\ Len(points) = Len(pending[c]) - 1 /\ Len(pending[c]) \in 1 .. 2
    <3>1. pending[c] \in Seq(Point) /\ pending[c] # <<>> /\ Len(pending[c]) <= 2
      BY <1>2 DEF Answer, Waiting, FeatureTypeOK, AskedFit
    <3>2. kinds \in SUBSET Kind
      BY DEF FeatureTypeOK
    <3>3. Len(pending[c]) \in 1 .. 2
      <4>1. Len(pending[c]) \in Nat /\ Len(pending[c]) # 0
        BY <3>1, EmptySeq
      <4>2. \A n \in Nat : n # 0 /\ n <= 2 => n \in 1 .. 2
        OBVIOUS
      <4>3. QED
        BY <3>1, <4>1, <4>2
    <3>4. p \in Point /\ points \in Seq(Point)
      BY <3>1
    <3>5. Len(points) = Len(pending[c]) - 1
      BY <3>1
    <3>6. QED
      BY <3>2, <3>3, <3>4, <3>5
  <2>2. /\ order' = Put(p)
        /\ entry' = [q \in Point |->
                IF q \notin Keys(order') THEN NoEntry
                ELSE IF q = p THEN [kind |-> kind, age |-> 0] ELSE entry[q]]
        /\ Resume(c, entry', points, kinds)
        /\ overpassUp' = overpassUp
        /\ asked' = [asked EXCEPT ![c] = IF pending'[c] = <<>> THEN {}
                                         ELSE @ \cup {p}]
    BY <1>2 DEF Answer, Store
  <2>3. /\ order' \in Seq(Point) /\ Len(order') <= MaxEntries
        /\ Once(order') /\ p \in Keys(order')
    BY <2>1, <2>2, PutBounded DEF FeatureTypeOK, CacheBounded, Once
  <2>4. entry' \in [Point -> Entry]
    BY <1>0, <2>2 DEF FeatureTypeOK, Entry
  <2>5. /\ pending' \in [FetchCall -> Seq(Point)]
        /\ found' \in [FetchCall -> SUBSET Kind]
        /\ outage' \subseteq FetchCall
        /\ \A d \in FetchCall \ {c} : pending'[d] = pending[d]
        /\ Len(pending'[c]) <= Len(points)
        /\ pending'[c] # <<>> => ~Fresh(entry'[Head(pending'[c])])
    BY <2>1, <2>2, <2>4, ResumeRest
  <2>6. Fresh(entry'[p])
    BY <2>1, <2>2, <2>3 DEF Fresh
  <2>7. FeatureTypeOK'
    BY <2>1, <2>2, <2>3, <2>4, <2>5 DEF FeatureTypeOK
  <2>8. CacheBounded'
    BY <2>2, <2>3 DEF CacheBounded, Once, Fresh, NoEntry
  <2>9. pending'[c] # <<>> => /\ asked[c] = {} /\ Len(pending'[c]) = 1
                              /\ Head(pending'[c]) # p
    <3>1. SUFFICES ASSUME pending'[c] # <<>>
                   PROVE  /\ asked[c] = {} /\ Len(pending'[c]) = 1
                          /\ Head(pending'[c]) # p
      OBVIOUS
    <3>2. Len(pending'[c]) \in Nat /\ Len(pending'[c]) # 0
      BY <2>5, <3>1
    <3>3. Len(pending[c]) = 2 /\ Len(pending'[c]) = 1
      <4>1. \A m, n, k \in Nat : m <= n /\ m # 0 /\ n = k - 1 /\ k \in 1 .. 2
                                 => k = 2 /\ m = 1
        OBVIOUS
      <4>2. Len(points) \in Nat /\ Len(pending[c]) \in Nat
        BY <2>1
      <4>3. QED
        BY <2>1, <2>5, <3>2, <4>1, <4>2
    <3>4. QED
      BY <2>5, <2>6, <3>1, <3>3 DEF AskedFit
  <2>10. \A d \in FetchCall \ {c} : asked'[d] = asked[d]
    BY <2>2 DEF FeatureTypeOK
  <2>11. asked'[c] = IF pending'[c] = <<>> THEN {} ELSE {p}
    BY <2>2, <2>9 DEF FeatureTypeOK
  <2>12. pending'[c] = <<>> \/ Len(pending'[c]) = 1
    BY <2>9
  <2>13. AskedFit'
    <3>1. ASSUME NEW d \in FetchCall \ {c}
          PROVE  /\ Len(pending'[d]) <= 2
                 /\ Len(pending'[d]) = 2 \/ pending'[d] = <<>> => asked'[d] = {}
      BY <2>5, <2>10 DEF AskedFit, Waiting
    <3>2. /\ Len(pending'[c]) <= 2
          /\ Len(pending'[c]) = 2 \/ pending'[c] = <<>> => asked'[c] = {}
      <4>1. Len(<<>>) = 0
        OBVIOUS
      <4>2. CASE pending'[c] = <<>>
        BY <2>11, <4>1, <4>2
      <4>3. CASE Len(pending'[c]) = 1
        BY <2>11, <4>3
      <4>4. QED
        BY <2>12, <4>2, <4>3
    <3>3. QED
      BY <3>1, <3>2 DEF AskedFit, Waiting
  <2>14. OneRequestPerPoint'
    BY <2>5, <2>9, <2>10, <2>11 DEF OneRequestPerPoint, Waiting
  <2>15. QED
    BY <2>7, <2>8, <2>13, <2>14
<1>3. ASSUME NEW c \in FetchCall, UseFeatures(c) PROVE FeatureInv'
  BY <1>3 DEF UseFeatures, FeatureTypeOK, CacheBounded, AskedFit,
     OneRequestPerPoint, Waiting
<1>4. CASE OutageBegins
  BY <1>4 DEF OutageBegins, FeatureTypeOK, CacheBounded, AskedFit,
     OneRequestPerPoint, Waiting
<1>5. CASE OutageEnds
  BY <1>5 DEF OutageEnds, FeatureTypeOK, CacheBounded, AskedFit,
     OneRequestPerPoint, Waiting
<1>6. CASE FeatureTimePasses
  <2>1. entry' \in [Point -> Entry]
    <3>1. ASSUME NEW e \in Entry, e.age + 1 < FeatureTtl
          PROVE  [e EXCEPT !.age = @ + 1] \in Entry
      BY <3>1 DEF Entry
    <3>2. \A p \in Point : entry[p] \in Entry
      BY DEF FeatureTypeOK
    <3>3. QED
      BY <1>0, <1>6, <3>1, <3>2 DEF FeatureTimePasses
  <2>2. \A p \in Point : Fresh(entry'[p]) => Fresh(entry[p])
    BY <1>6 DEF FeatureTimePasses, FeatureTypeOK, Entry, Fresh, NoEntry
  <2>3. QED
    BY <1>6, <2>1, <2>2 DEF FeatureTimePasses, FeatureTypeOK, CacheBounded,
       AskedFit, OneRequestPerPoint, Waiting
<1>7. CASE FeatureRestart
  <2>1. FeatureTypeOK'
    BY <1>0, <1>7 DEF FeatureRestart, FeatureTypeOK
  <2>2. CacheBounded'
    BY <1>7 DEF FeatureRestart, CacheBounded, Fresh, NoEntry
  <2>3. AskedFit' /\ OneRequestPerPoint'
    BY <1>7 DEF FeatureRestart, AskedFit, OneRequestPerPoint, Waiting
  <2>4. QED
    BY <2>1, <2>2, <2>3
<1>8. CASE UNCHANGED featureVars
  BY <1>8 DEF featureVars, FeatureTypeOK, CacheBounded, AskedFit,
     OneRequestPerPoint, Waiting
<1>9. QED
  BY <1>1, <1>2, <1>3, <1>4, <1>5, <1>6, <1>7, <1>8 DEF FeatureNext

THEOREM SpecFeatureInv == FeatureSpec => []FeatureInv
  BY FeatureInvInit, FeatureInvNext, PTL DEF FeatureSpec

\* No generate call asks twice for a point that is both of its ends.
THEOREM SpecOneRequestPerPoint == FeatureSpec => []OneRequestPerPoint
<1>1. FeatureInv => OneRequestPerPoint
  BY DEF FeatureInv
<1>2. QED
  BY <1>1, SpecFeatureInv, PTL

\* The dictionary stays within its limit, each key once.
THEOREM SpecCacheBounded == FeatureSpec => []CacheBounded
<1>1. FeatureInv => CacheBounded
  BY DEF FeatureInv
<1>2. QED
  BY <1>1, SpecFeatureInv, PTL

-----------------------------------------------------------------------------
(* After an outage.                                                        *)

\* The sample features are served at p.
SampledAt(p) == entry[p].kind = "samples" /\ Fresh(entry[p])

\* What a step may do while Overpass answers.  No call falls into the outage
\* that is over, and one that had its request on the way is out of it with the
\* answer.  Once all are, the samples in the cache grow older with the time,
\* are never renewed and never put anywhere else, and calls get samples only
\* from there.
SamplesFade ==
  overpassUp /\ overpassUp' =>
    /\ outage' \subseteq outage
    /\ \A c \in FetchCall, kind \in Kind : Answer(c, kind) => c \notin outage'
    /\ outage = {} =>
         /\ \A p \in Point : SampledAt(p)' =>
              /\ SampledAt(p)
              /\ entry'[p].age >= entry[p].age
              /\ FeatureTimePasses => entry'[p].age > entry[p].age
         /\ \A c \in FetchCall : "samples" \in found'[c] =>
              "samples" \in found[c] \/ \E p \in Point : SampledAt(p)

\* A call that goes on takes samples only from the cache.
LEMMA ResumeSamples ==
  ASSUME FeatureTypeOK, NEW c \in FetchCall, NEW points \in Seq(Point),
         NEW kinds, NEW entries, overpassUp, Resume(c, entries, points, kinds)
  PROVE  /\ outage' = outage \ {c}
         /\ \A d \in FetchCall : "samples" \in found'[d] =>
              \/ "samples" \in IF d = c THEN kinds ELSE found[d]
              \/ \E p \in Point : entries[p].kind = "samples" /\ Fresh(entries[p])
<1>1. PICK n \in 0 .. Len(points) :
        /\ \A i \in 1 .. n : Fresh(entries[points[i]])
        /\ found' = [found EXCEPT
                       ![c] = kinds \cup {entries[points[i]].kind : i \in 1 .. n}]
        /\ outage' = IF n < Len(points) /\ ~overpassUp THEN outage \cup {c}
                                                       ELSE outage \ {c}
  BY DEF Resume
<1>2. \A i \in 1 .. n : points[i] \in Point
  BY <1>1
<1>3. QED
  BY <1>1, <1>2 DEF FeatureTypeOK

LEMMA SamplesFadeStep == FeatureTypeOK /\ [FeatureNext]_featureVars => SamplesFade
<1> SUFFICES ASSUME FeatureTypeOK, [FeatureNext]_featureVars, overpassUp, overpassUp'
             PROVE  SamplesFade
  BY DEF SamplesFade
<1> DEFINE Shrinks == outage' \subseteq outage
           Fades == \A p \in Point : SampledAt(p)' =>
                      SampledAt(p) /\ entry'[p].age >= entry[p].age
           FromCache == \A c \in FetchCall : "samples" \in found'[c] =>
                          "samples" \in found[c] \/ \E p \in Point : SampledAt(p)
<1>1. \A p \in Point : entry[p] \in Entry /\ entry[p].age \in Nat
  BY FeatureTtlAssumption DEF FeatureTypeOK, Entry
<1>2. ASSUME NEW c \in FetchCall, NEW kind \in Kind, Answer(c, kind)
      PROVE  /\ outage' = outage \ {c}
             /\ \A d \in FetchCall : "samples" \in found'[d] =>
                  \/ "samples" \in found[d] \cup {kind}
                  \/ \E p \in Point : SampledAt(p)'
  <2>1. pending[c] \in Seq(Point) /\ pending[c] # <<>>
    BY <1>2 DEF Answer, Waiting, FeatureTypeOK
  <2>2. Tail(pending[c]) \in Seq(Point)
    BY <2>1
  <2>3. Resume(c, entry', Tail(pending[c]), found[c] \cup {kind})
    BY <1>2 DEF Answer
  <2>4. /\ outage' = outage \ {c}
        /\ \A d \in FetchCall : "samples" \in found'[d] =>
             \/ "samples" \in IF d = c THEN found[c] \cup {kind} ELSE found[d]
             \/ \E p \in Point : entry'[p].kind = "samples" /\ Fresh(entry'[p])
    BY <2>2, <2>3, ResumeSamples
  <2>5. QED
    BY <2>4 DEF SampledAt, Fresh
<1>3. ASSUME FeatureTimePasses
      PROVE  \A p \in Point : SampledAt(p)' =>
               SampledAt(p) /\ entry'[p].age = entry[p].age + 1
  <2> SUFFICES ASSUME NEW p \in Point, SampledAt(p)'
               PROVE  SampledAt(p) /\ entry'[p].age = entry[p].age + 1
    OBVIOUS
  <2>1. entry'[p] = IF entry[p].age + 1 < FeatureTtl
                    THEN [entry[p] EXCEPT !.age = @ + 1] ELSE NoEntry
    BY <1>3 DEF FeatureTimePasses
  <2>2. entry'[p].age < FeatureTtl /\ entry'[p].kind = "samples"
    BY DEF SampledAt, Fresh
  <2>3. entry'[p] # NoEntry
    BY <2>2, FeatureTtlAssumption DEF NoEntry
  <2>4. QED
    BY <1>1, <2>1, <2>2, <2>3, FeatureTtlAssumption DEF SampledAt, Fresh, Entry
<1>4. Shrinks /\ (outage = {} => Fades /\ FromCache)
  <2>1. ASSUME NEW c \in FetchCall, NEW start \in Point, NEW destination \in Point,
               BeginFetch(c, start, destination)
        PROVE  Shrinks /\ Fades /\ FromCache
    <3>1. <<start, destination>> \in Seq(Point)
      OBVIOUS
    <3>2. /\ entry' = entry /\ outage' = outage \ {c}
          /\ \A d \in FetchCall : "samples" \in found'[d] =>
               "samples" \in found[d] \/ \E p \in Point : SampledAt(p)
      <4>1. Resume(c, entry, <<start, destination>>, {}) /\ entry' = entry
        BY <2>1 DEF BeginFetch
      <4>2. /\ outage' = outage \ {c}
            /\ \A d \in FetchCall : "samples" \in found'[d] =>
                 \/ "samples" \in IF d = c THEN {} ELSE found[d]
                 \/ \E p \in Point : entry[p].kind = "samples" /\ Fresh(entry[p])
        BY <3>1, <4>1, ResumeSamples
      <4>3. QED
        BY <4>1, <4>2 DEF SampledAt
    <3>3. QED
      BY <1>1, <3>2 DEF SampledAt
  <2>2. ASSUME NEW c \in FetchCall, NEW kind \in Kind, Answer(c, kind)
        PROVE  Shrinks /\ (outage = {} => Fades /\ FromCache)
    <3>1. ASSUME outage = {} PROVE kind = "osm"
      BY <2>2, <3>1 DEF Answer, Kind
    <3>2. ASSUME kind = "osm" PROVE Fades
      <4> SUFFICES ASSUME NEW p \in Point, SampledAt(p)'
                   PROVE  entry'[p] = entry[p]
        BY <1>1 DEF SampledAt
      <4>1. entry'[p] = IF p \notin Keys(order') THEN NoEntry
                        ELSE IF p = Head(pending[c]) THEN [kind |-> kind, age |-> 0]
                                                     ELSE entry[p]
        BY <2>2 DEF Answer, Store
      <4>2. entry'[p] # NoEntry /\ entry'[p].kind = "samples"
        BY FeatureTtlAssumption DEF SampledAt, Fresh, NoEntry
      <4>3. QED
        BY <3>2, <4>1, <4>2
    <3>3. QED
      BY <1>2, <2>2, <3>1, <3>2
  <2>3. ASSUME NEW c \in FetchCall, UseFeatures(c)
        PROVE  Shrinks /\ Fades /\ FromCache
    BY <1>1, <2>3 DEF UseFeatures, SampledAt, FeatureTypeOK
  <2>4. CASE OutageBegins
    BY <2>4 DEF OutageBegins
  <2>5. CASE OutageEnds
    BY <2>5 DEF OutageEnds
  <2>6. CASE FeatureTimePasses
    BY <1>1, <1>3, <2>6 DEF FeatureTimePasses
  <2>7. CASE FeatureRestart
    BY <2>7, FeatureTtlAssumption DEF FeatureRestart, SampledAt, Fresh, NoEntry
  <2>8. CASE UNCHANGED featureVars
    BY <1>1, <2>8 DEF featureVars, SampledAt
  <2>9. QED
    BY <2>1, <2>2, <2>3, <2>4, <2>5, <2>6, <2>7, <2>8 DEF FeatureNext
<1>5. \A p \in Point : FeatureTimePasses /\ SampledAt(p)' =>
        entry'[p].age > entry[p].age
  BY <1>1, <1>3
<1>6. QED
  BY <1>2, <1>4, <1>5 DEF SamplesFade

\* The samples stored for a failed request do not outlive the outage by more
\* than their lifetime, however often they are used: all of the argument for
\* RecoveryReachesUsers but the fairness that makes the steps happen.
THEOREM SpecSamplesFade == FeatureSpec => [][SamplesFade]_featureVars
<1>1. FeatureInv /\ [FeatureNext]_featureVars => SamplesFade
  BY SamplesFadeStep DEF FeatureInv
<1>2. QED
  BY <1>1, SpecFeatureInv, PTL DEF FeatureSpec
=============================================================================
