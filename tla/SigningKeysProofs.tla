--------------------------- MODULE SigningKeysProofs ---------------------------
(***************************************************************************)
(* Proofs about SigningKeys, for any keys, lifetime and request time.      *)
(***************************************************************************)
EXTENDS SigningKeys, TLAPS

\* What a validation relies on while it waits: a key that was published all
\* along is in every answer it may get, and a key in an answer was published
\* no longer ago than the request has taken.
AnswersRecent ==
  /\ steady => kid \in published
  /\ \A k \in published : unpublished[k] = 0
  /\ step \notin {"fetch", "refresh"} => answers = {}
  /\ step \in {"fetch", "refresh"} /\ steady => \A a \in answers : kid \in a
  /\ \A a \in answers, k \in Kid : k \in a => unpublished[k] <= waited

\* A cached key was published no longer ago than the cached set is old, give
\* or take the time of a request.
KeysRecent == \A k \in keys : unpublished[k] <= keysAge + RequestTime

KeysInv ==
  /\ KeysTypeOK
  /\ AnswersRecent
  /\ KeysRecent
  /\ CurrentKeyAccepted
  /\ TrustEnds

LEMMA KeysInvInit == KeysInit => KeysInv
<1> SUFFICES ASSUME KeysInit PROVE KeysInv
  OBVIOUS
<1> USE KeyTtlAssumption, RequestTimeAssumption, KidAssumption DEF KeysInit
<1>1. Old \in Nat
  BY DEF Old
<1>2. KeysTypeOK
  <2>1. (CHOOSE k \in Kid : TRUE) \in Kid
    OBVIOUS
  <2>2. unpublished \in [Kid -> 0 .. Old]
    BY <1>1
  <2>3. keysAge \in 0 .. Old /\ waited \in 0 .. RequestTime
    BY <1>1
  <2>4. keys \subseteq Kid /\ answers \subseteq SUBSET Kid
    OBVIOUS
  <2>5. published \subseteq Kid /\ published # {}
    OBVIOUS
  <2>6. QED
    BY <2>1, <2>2, <2>3, <2>4, <2>5 DEF KeysTypeOK, Verdict
<1>3. QED
  BY <1>1, <1>2
  DEF KeysInv, AnswersRecent, KeysRecent, CurrentKeyAccepted, TrustEnds

\* The types are kept by every step.
LEMMA KeysTypeNext == KeysInv /\ [KeysNext]_keyVars => KeysTypeOK'
<1> SUFFICES ASSUME KeysInv, [KeysNext]_keyVars PROVE KeysTypeOK'
  OBVIOUS
<1> USE KeyTtlAssumption, RequestTimeAssumption
<1>1. Old \in Nat
  BY DEF Old
<1> USE DEF KeysInv, KeysTypeOK, Verdict, End, Send, RefreshOrReject
<1>2. CASE \E k \in Kid : Validate(k)
  BY <1>1, <1>2 DEF Validate
<1>3. CASE FetchAnswered
  BY <1>1, <1>3 DEF FetchAnswered, Old
<1>4. CASE RefreshAnswered
  BY <1>1, <1>4 DEF RefreshAnswered
<1>5. CASE RequestFails
  BY <1>1, <1>5 DEF RequestFails
<1>6. CASE \E kids \in SUBSET Kid : Rotate(kids)
  BY <1>1, <1>6 DEF Rotate
<1>7. CASE KeyTimePasses
  <2>1. \A age \in 0 .. Old : Older(age) \in 0 .. Old
    BY <1>1 DEF Older
  <2>2. keysAge' \in 0 .. Old /\ unpublished' \in [Kid -> 0 .. Old]
    BY <1>1, <1>7, <2>1 DEF KeyTimePasses
  <2>3. QED
    BY <1>1, <1>7, <2>2 DEF KeyTimePasses
<1>8. CASE KeysRestart
  <2>1. keysAge' \in 0 .. Old /\ waited' \in 0 .. RequestTime
    BY <1>1, <1>8 DEF KeysRestart
  <2>2. keys' \subseteq Kid /\ answers' \subseteq SUBSET Kid
    BY <1>8 DEF KeysRestart
  <2>3. QED
    BY <1>8, <2>1, <2>2 DEF KeysRestart
<1>9. CASE UNCHANGED keyVars
  BY <1>9 DEF keyVars
<1>10. QED
  BY <1>2, <1>3, <1>4, <1>5, <1>6, <1>7, <1>8, <1>9 DEF KeysNext

\* An accepted key is in the cached set or in an answer: with what the ages
\* say of it, the verdicts are right.
LEMMA KeysInvNext == KeysInv /\ [KeysNext]_keyVars => KeysInv'
<1> SUFFICES ASSUME KeysInv, [KeysNext]_keyVars PROVE KeysInv'
  OBVIOUS
<1> USE KeyTtlAssumption, RequestTimeAssumption
<1>1. KeysTypeOK'
  BY KeysTypeNext
<1>2. KeysTypeOK /\ Old \in Nat
  BY DEF KeysInv, Old
<1> DEFINE Rest == AnswersRecent /\ KeysRecent /\ CurrentKeyAccepted /\ TrustEnds
<1>3. Rest
  BY DEF KeysInv
<1> USE DEF AnswersRecent, KeysRecent, CurrentKeyAccepted, TrustEnds, End, Send,
            RefreshOrReject
<1>4. CASE \E k \in Kid : Validate(k)
  <2>1. PICK k \in Kid : Validate(k)
    BY <1>4
  <2>2. AnswersRecent'
    <3>1. answers' \subseteq {published}
      BY <2>1 DEF Validate
    <3>2. \A a \in answers' : a = published
      BY <3>1
    <3>3. UNCHANGED <<published, unpublished>> /\ waited' = 0
      BY <2>1 DEF Validate
    <3>4. steady' => kid' \in published'
      BY <2>1 DEF Validate
    <3>5. step' \notin {"fetch", "refresh"} => answers' = {}
      BY <2>1 DEF Validate
    <3>6. QED
      BY <1>3, <3>2, <3>3, <3>4, <3>5
  <2>3. KeysRecent'
    BY <1>3, <2>1 DEF Validate
  <2>4. CurrentKeyAccepted'
    BY <2>1 DEF Validate
  <2>5. ASSUME verdict' = "accepted" PROVE unpublished'[kid'] < KeyTtl + RequestTime
    <3>1. Cached /\ k \in keys
      BY <2>1, <2>5 DEF Validate
    <3>2. unpublished[k] <= keysAge + RequestTime /\ keysAge < KeyTtl
      BY <1>3, <3>1 DEF Cached
    <3>3. unpublished[k] \in Nat /\ keysAge \in Nat
      BY <1>2 DEF KeysTypeOK
    <3>4. QED
      BY <2>1, <3>2, <3>3 DEF Validate
  <2>6. QED
    BY <1>1, <2>2, <2>3, <2>4, <2>5 DEF KeysInv
<1>5. CASE FetchAnswered
  <2>1. keys' \in answers /\ keysAge' = waited
    BY <1>5 DEF FetchAnswered
  <2>2. \A k \in keys' : unpublished'[k] <= waited
    BY <1>1, <1>2, <1>3, <1>5, <2>1 DEF FetchAnswered, KeysTypeOK
  <2>3. KeysRecent'
    BY <1>1, <1>2, <2>1, <2>2 DEF KeysTypeOK
  <2>4. AnswersRecent'
    BY <1>2, <1>3, <1>5 DEF FetchAnswered, KeysTypeOK
  <2>5. CurrentKeyAccepted'
    BY <1>5 DEF FetchAnswered
  <2>6. TrustEnds'
    BY <1>1, <1>2, <1>5, <2>2 DEF FetchAnswered, KeysTypeOK
  <2>7. QED
    BY <1>1, <2>3, <2>4, <2>5, <2>6 DEF KeysInv
<1>6. CASE RefreshAnswered
  <2>1. keys' \in answers /\ keysAge' = 0
    BY <1>6 DEF RefreshAnswered
  <2>2. \A k \in keys' : unpublished'[k] <= waited
    BY <1>1, <1>2, <1>3, <1>6, <2>1 DEF RefreshAnswered, KeysTypeOK
  <2>3. KeysRecent'
    BY <1>1, <1>2, <2>1, <2>2 DEF KeysTypeOK
  <2>4. AnswersRecent'
    BY <1>3, <1>6 DEF RefreshAnswered
  <2>5. CurrentKeyAccepted'
    BY <1>3, <1>6, <2>1 DEF RefreshAnswered
  <2>6. TrustEnds'
    BY <1>1, <1>2, <1>6, <2>2 DEF RefreshAnswered, KeysTypeOK
  <2>7. QED
    BY <1>1, <2>3, <2>4, <2>5, <2>6 DEF KeysInv
<1>7. CASE RequestFails
  BY <1>1, <1>3, <1>7 DEF RequestFails, KeysInv
<1>8. CASE \E kids \in SUBSET Kid : Rotate(kids)
  <2>1. PICK kids \in SUBSET Kid : Rotate(kids)
    BY <1>8
  <2>2. \A k \in Kid : unpublished'[k] <= unpublished[k]
    BY <1>1, <1>2, <2>1 DEF Rotate, KeysTypeOK
  <2>3. AnswersRecent'
    <3>1. \A k \in published' : unpublished'[k] = 0
      BY <1>2, <2>1 DEF Rotate, KeysTypeOK
    <3>2. \A a \in answers' : a \in answers \/ a = published'
      BY <2>1 DEF Rotate
    <3>3. \A a \in answers', k \in Kid : k \in a => unpublished'[k] <= waited'
      BY <1>1, <1>2, <1>3, <2>1, <2>2, <3>1, <3>2 DEF Rotate, KeysTypeOK
    <3>4. steady' => kid' \in published'
      BY <2>1 DEF Rotate
    <3>5. step' \in {"fetch", "refresh"} /\ steady' => \A a \in answers' : kid' \in a
      BY <1>3, <2>1, <3>2, <3>4 DEF Rotate
    <3>6. QED
      BY <1>3, <2>1, <3>1, <3>3, <3>4, <3>5 DEF Rotate
  <2>4. KeysRecent'
    BY <1>1, <1>2, <1>3, <2>1, <2>2 DEF Rotate, KeysTypeOK
  <2>5. CurrentKeyAccepted'
    BY <1>3, <2>1 DEF Rotate
  <2>6. TrustEnds'
    BY <1>1, <1>2, <1>3, <2>1, <2>2 DEF Rotate, KeysTypeOK
  <2>7. QED
    BY <1>1, <2>3, <2>4, <2>5, <2>6 DEF KeysInv
<1>9. CASE KeyTimePasses
  <2>1. \A k \in Kid : unpublished'[k] <= unpublished[k] + 1
    BY <1>1, <1>2, <1>9 DEF KeyTimePasses, Older, KeysTypeOK
  <2>2. AnswersRecent'
    <3>1. \A k \in published' : unpublished'[k] = 0
      BY <1>2, <1>9 DEF KeyTimePasses, KeysTypeOK
    <3>2. step' \in {"fetch", "refresh"} => waited' = waited + 1 /\ step' = step
      BY <1>9 DEF KeyTimePasses
    <3>3. step' \notin {"fetch", "refresh"} => answers' = {}
      BY <1>2, <1>3, <1>9 DEF KeyTimePasses, KeysTypeOK
    <3>4. \A a \in answers', k \in Kid : k \in a => unpublished'[k] <= waited'
      BY <1>1, <1>2, <1>3, <1>9, <2>1, <3>2, <3>3 DEF KeyTimePasses, KeysTypeOK
    <3>5. QED
      BY <1>3, <1>9, <3>1, <3>2, <3>4 DEF KeyTimePasses
  <2>3. ASSUME NEW k \in keys' PROVE unpublished'[k] <= keysAge' + RequestTime
    <3>1. k \in Kid /\ keys # {} /\ unpublished[k] <= keysAge + RequestTime
      BY <1>2, <1>3, <1>9, <2>3 DEF KeyTimePasses, KeysTypeOK
    <3>2. keysAge' = Older(keysAge) /\ unpublished'[k] \in 0 .. Old
      BY <1>1, <1>9, <3>1 DEF KeyTimePasses, KeysTypeOK
    <3>3. QED
      BY <1>1, <1>2, <2>1, <3>1, <3>2 DEF Older, KeysTypeOK
  <2>4. QED
    BY <1>1, <1>9, <2>2, <2>3 DEF KeyTimePasses, KeysInv
<1>10. CASE KeysRestart
  BY <1>1, <1>10 DEF KeysRestart, KeysInv
<1>11. CASE UNCHANGED keyVars
  BY <1>1, <1>3, <1>11 DEF keyVars, KeysInv
<1>12. QED
  BY <1>4, <1>5, <1>6, <1>7, <1>8, <1>9, <1>10, <1>11 DEF KeysNext

THEOREM SpecKeysInv == KeysSpec => []KeysInv
  BY KeysInvInit, KeysInvNext, PTL DEF KeysSpec

\* No token is rejected for a key the provider publishes all along.
THEOREM SpecCurrentKeyAccepted == KeysSpec => []CurrentKeyAccepted
<1>1. KeysInv => CurrentKeyAccepted
  BY DEF KeysInv
<1>2. QED
  BY <1>1, SpecKeysInv, PTL

\* Trust in a withdrawn key ends with the lifetime of the cache.
THEOREM SpecTrustEnds == KeysSpec => []TrustEnds
<1>1. KeysInv => TrustEnds
  BY DEF KeysInv
<1>2. QED
  BY <1>1, SpecKeysInv, PTL
=============================================================================
