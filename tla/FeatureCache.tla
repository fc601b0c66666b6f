----------------------------- MODULE FeatureCache -----------------------------
(***************************************************************************)
(* The memory of Overpass answers in src/app/adapters.py, and the generate *)
(* calls of src/app/main.py that fetch the features of both ends of a      *)
(* route through it, one after the other.                                  *)
(*                                                                         *)
(* A call runs until it has to wait for Overpass: everything between two   *)
(* waits - storing an answer, evicting an entry, looking up the other end  *)
(* - is one step, and takes no time.  Other calls run during the wait.     *)
(*                                                                         *)
(* Time is kept as the age of each entry, up to Ttl, when it is stale.     *)
(***************************************************************************)
EXTENDS Naturals, Sequences, FiniteSets

CONSTANTS
  Point,        \* cache keys: coordinates to three places, radius to 100 m
  FetchCall,    \* bound: generate calls that fetch features at one time
  FeatureTtl,   \* _CACHE_TTL_SECONDS
  MaxEntries    \* _OVERPASS_CACHE_MAX_ENTRIES

ASSUME FeatureTtlAssumption  == FeatureTtl \in Nat \ {0}
ASSUME MaxEntriesAssumption  == MaxEntries \in Nat \ {0}

\* What a lookup gives: what Overpass answered, or the sample features.
Kind == {"osm", "samples"}

Entry == [kind : Kind, age : 0 .. FeatureTtl]

\* An entry that is stale, or not there: nobody reads it again.
NoEntry == [kind |-> "samples", age |-> FeatureTtl]

VARIABLES
  overpassUp,   \* does Overpass answer?
  order,        \* the keys of _overpass_cache, in the order of the dictionary
  entry,        \* its values
  pending,      \* the points a call still needs, the first one being asked for
  found,        \* the kinds of features a call has so far
  outage,       \* the calls whose request was on its way during an outage
  asked         \* history: the points a waiting call has had an answer for

featureVars == <<overpassUp, order, entry, pending, found, outage, asked>>

FeatureTypeOK ==
  /\ overpassUp \in BOOLEAN
  /\ order \in Seq(Point)
  /\ entry \in [Point -> Entry]
  /\ pending \in [FetchCall -> Seq(Point)]
  /\ found \in [FetchCall -> SUBSET Kind]
  /\ outage \subseteq FetchCall
  /\ asked \in [FetchCall -> SUBSET Point]

FeatureInit ==
  /\ overpassUp \in BOOLEAN
  /\ order = <<>>
  /\ entry = [p \in Point |-> NoEntry]
  /\ pending = [c \in FetchCall |-> <<>>]
  /\ found = [c \in FetchCall |-> {}]
  /\ outage = {}
  /\ asked = [c \in FetchCall |-> {}]

Waiting(c) == pending[c] # <<>>

-----------------------------------------------------------------------------
(* The dictionary.                                                         *)

Keys(seq) == {seq[i] : i \in DOMAIN seq}

Fresh(e) == e.age < FeatureTtl

\* Fault: room is made one entry too late.
PutFault(p) ==
  IF p \in Keys(order) THEN order
  ELSE IF Len(order) <= MaxEntries THEN Append(order, p)
                                   ELSE Append(Tail(order), p)

\* A key that is there keeps its place; a new one goes to the end, and the
\* first one leaves when there are too many.
Put(p) ==
  IF p \in Keys(order) THEN order
  ELSE IF Len(order) < MaxEntries THEN Append(order, p)
                                  ELSE Append(Tail(order), p)

\* Fault: the failure of a request is not stored.
StoreFault(p, kind) ==
  /\ order' = IF kind = "osm" THEN Put(p) ELSE order
  /\ entry' = [q \in Point |->
                IF q = p /\ kind = "osm" THEN [kind |-> kind, age |-> 0]
                ELSE IF q \in Keys(order') THEN entry[q] ELSE NoEntry]

Store(p, kind) ==
  /\ order' = Put(p)
  /\ entry' = [q \in Point |->
                IF q \notin Keys(order') THEN NoEntry
                ELSE IF q = p THEN [kind |-> kind, age |-> 0] ELSE entry[q]]

-----------------------------------------------------------------------------
(* Steps.                                                                  *)

\* Call c goes on with the points it needs and the entries it finds: it takes
\* what is fresh, and waits for the first point that is not.
Resume(c, entries, points, kinds) ==
  \E n \in 0 .. Len(points) :
    /\ \A i \in 1 .. n : Fresh(entries[points[i]])
    /\ n < Len(points) => ~Fresh(entries[points[n + 1]])
    /\ pending' = [pending EXCEPT ![c] = SubSeq(points, n + 1, Len(points))]
    /\ found' = [found EXCEPT
                   ![c] = kinds \cup {entries[points[i]].kind : i \in 1 .. n}]
    /\ outage' = IF n < Len(points) /\ ~overpassUp THEN outage \cup {c}
                                                   ELSE outage \ {c}

\* Fault: using an entry renews it.
BeginFetchFault(c, start, destination) ==
  /\ ~Waiting(c)
  /\ found[c] = {}
  /\ Resume(c, entry, <<start, destination>>, {})
  /\ entry' = [p \in Point |->
                IF p \in {start, destination} /\ Fresh(entry[p])
                THEN [entry[p] EXCEPT !.age = 0] ELSE entry[p]]
  /\ UNCHANGED <<overpassUp, order, asked>>

\* A generate call comes to the features of its start and destination.
BeginFetch(c, start, destination) ==
  /\ ~Waiting(c)
  /\ found[c] = {}
  /\ Resume(c, entry, <<start, destination>>, {})
  /\ UNCHANGED <<overpassUp, order, entry, asked>>

\* Overpass has answered - or the request has failed, and the samples take
\* the place of the answer.  Either is stored.
Answer(c, kind) ==
  /\ Waiting(c)
  /\ IF kind = "osm" THEN overpassUp ELSE c \in outage
  /\ Store(Head(pending[c]), kind)
  /\ Resume(c, entry', Tail(pending[c]), found[c] \cup {kind})
  /\ asked' = [asked EXCEPT ![c] = IF pending'[c] = <<>> THEN {}
                                   ELSE @ \cup {Head(pending[c])}]
  /\ UNCHANGED overpassUp

\* The call goes on with the features of both ends: its routes are saved.
UseFeatures(c) ==
  /\ ~Waiting(c)
  /\ found[c] # {}
  /\ found' = [found EXCEPT ![c] = {}]
  /\ UNCHANGED <<overpassUp, order, entry, pending, outage, asked>>

OutageBegins ==
  /\ overpassUp
  /\ overpassUp' = FALSE
  /\ outage' = {c \in FetchCall : Waiting(c)}
  /\ UNCHANGED <<order, entry, pending, found, asked>>

OutageEnds ==
  /\ ~overpassUp
  /\ overpassUp' = TRUE
  /\ UNCHANGED <<order, entry, pending, found, outage, asked>>

FeatureTimePasses ==
  /\ \E p \in Point : Fresh(entry[p])
  /\ entry' = [p \in Point |->
                IF entry[p].age + 1 < FeatureTtl
                THEN [entry[p] EXCEPT !.age = @ + 1] ELSE NoEntry]
  /\ UNCHANGED <<overpassUp, order, pending, found, outage, asked>>

\* The process restarts: its memory and its calls are gone.
FeatureRestart ==
  /\ order' = <<>>
  /\ entry' = [p \in Point |-> NoEntry]
  /\ pending' = [c \in FetchCall |-> <<>>]
  /\ found' = [c \in FetchCall |-> {}]
  /\ outage' = {}
  /\ asked' = [c \in FetchCall |-> {}]
  /\ UNCHANGED overpassUp

FeatureNext ==
  \/ \E c \in FetchCall, start, destination \in Point :
       BeginFetch(c, start, destination)
  \/ \E c \in FetchCall, kind \in Kind : Answer(c, kind)
  \/ \E c \in FetchCall : UseFeatures(c)
  \/ OutageBegins
  \/ OutageEnds
  \/ FeatureTimePasses
  \/ FeatureRestart

FeatureSpec == FeatureInit /\ [][FeatureNext]_featureVars

\* A request is answered or fails after 30 seconds, a call that has its
\* features goes on, and time passes.
FeatureFairness ==
  /\ \A c \in FetchCall :
       /\ WF_featureVars(\E kind \in Kind : Answer(c, kind))
       /\ WF_featureVars(UseFeatures(c))
  /\ WF_featureVars(FeatureTimePasses)

-----------------------------------------------------------------------------

\* Both ends of a route under one key are asked for once: the answer for the
\* start serves the destination, also when it was a failure, when it replaced
\* a stale entry, and when the cache was full.  (main.py:623 merges by feature
\* id: a second answer would bring every feature again under new ids.)
OneRequestPerPoint ==
  \A c \in FetchCall : Waiting(c) => Head(pending[c]) \notin asked[c]

\* The dictionary holds a key once and never grows beyond its limit.
CacheBounded ==
  /\ Len(order) <= MaxEntries
  /\ \A i, j \in DOMAIN order : order[i] = order[j] => i = j
  /\ \A p \in Point : Fresh(entry[p]) => p \in Keys(order)

\* The samples that stand for a failed request are stored like an answer, for
\* six hours.  Once Overpass answers again for good, the calls get samples
\* only for so long: however often an entry is used, it is not renewed.
RecoveryReachesUsers ==
  <>[]overpassUp => <>[](\A c \in FetchCall : "samples" \notin found[c])
=============================================================================
