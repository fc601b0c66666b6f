------------------------------ MODULE SigningKeys ------------------------------
(***************************************************************************)
(* The signing keys of the identity provider as src/app/auth.py keeps them *)
(* and uses them to validate tokens.                                       *)
(*                                                                         *)
(* get_current_user fetches with a blocking call on the event loop, so one *)
(* validation runs at a time; but while it waits for the provider, time    *)
(* passes and the provider may publish other keys.                         *)
(*                                                                         *)
(* Time is kept as ages: of the cached key set, of the request under way,  *)
(* and of the moment a key was last published.                             *)
(***************************************************************************)
EXTENDS Naturals

CONSTANTS
  Kid,          \* key identifiers
  KeyTtl,       \* _JWKS_CACHE_TTL_SECONDS
  RequestTime   \* the longest a request to the provider takes

ASSUME KeyTtlAssumption      == KeyTtl \in Nat \ {0}
ASSUME RequestTimeAssumption == RequestTime \in Nat
ASSUME KidAssumption         == Kid # {}

\* Ages beyond this one are not told apart.
Old == KeyTtl + RequestTime + 1

VARIABLES
  published,    \* the keys the provider publishes
  keys,         \* _entra_jwks; empty before the first fetch
  keysAge,      \* the time since _entra_jwks_fetched_at
  step,         \* of the validation: "idle", "fetch", "refresh" or "ended"
  kid,          \* the key its token names; any key before the first one
  answers,      \* what the provider has published since the request was sent
  waited,       \* the time since the clock was read before the request
  verdict,      \* how the validation ended
  \* history
  unpublished,  \* for each key, the time since it was published
  steady        \* has the key been published all along this validation?

keyVars == <<published, keys, keysAge, step, kid, answers, waited, verdict,
             unpublished, steady>>

Verdict == {"none", "accepted", "rejected", "error"}

KeysTypeOK ==
  /\ published \subseteq Kid /\ published # {}
  /\ keys \subseteq Kid
  /\ keysAge \in 0 .. Old
  /\ step \in {"idle", "fetch", "refresh", "ended"}
  /\ kid \in Kid
  /\ answers \subseteq SUBSET Kid
  /\ waited \in 0 .. RequestTime
  /\ verdict \in Verdict
  /\ unpublished \in [Kid -> 0 .. Old]
  /\ steady \in BOOLEAN

KeysInit ==
  /\ published \in (SUBSET Kid) \ {{}}
  /\ keys = {}
  /\ keysAge = 0
  /\ step = "idle"
  /\ kid = CHOOSE k \in Kid : TRUE
  /\ answers = {}
  /\ waited = 0
  /\ verdict = "none"
  /\ unpublished = [k \in Kid |-> IF k \in published THEN 0 ELSE Old]
  /\ steady = FALSE

-----------------------------------------------------------------------------
(* Parts of a validation.                                                  *)

Send(s) ==
  /\ step' = s
  /\ answers' = {published}
  /\ waited' = 0
  /\ verdict' = "none"

End(v) == step' = "ended" /\ verdict' = v /\ answers' = {} /\ waited' = 0

\* Faults: the keys never expire; an unknown key is not worth a refresh.
CachedFault == keys # {}

RefreshOrRejectFault == End("rejected")

Cached == keys # {} /\ keysAge < KeyTtl

\* An unknown key: one refresh before the token is rejected.
RefreshOrReject == Send("refresh")

-----------------------------------------------------------------------------
(* Steps.                                                                  *)

\* A token signed with k arrives: the cached keys decide when they are fresh
\* and name it.
Validate(k) ==
  /\ step \in {"idle", "ended"}
  /\ kid' = k
  /\ steady' = (k \in published)
  /\ \/ Cached /\ k \in keys /\ End("accepted")
     \/ Cached /\ k \notin keys /\ RefreshOrReject
     \/ ~Cached /\ Send("fetch")
  /\ UNCHANGED <<published, keys, keysAge, unpublished>>

\* _fetch_entra_jwks gets an answer with keys: they are as old as the clock
\* reading before the request.
FetchAnswered ==
  /\ step = "fetch"
  /\ keys' \in answers
  /\ keysAge' = waited
  /\ \/ kid \in keys' /\ End("accepted")
     \/ kid \notin keys' /\ RefreshOrReject
  /\ UNCHANGED <<published, kid, unpublished, steady>>

\* _refresh_entra_jwks gets an answer with keys: they are stamped by now.
RefreshAnswered ==
  /\ step = "refresh"
  /\ keys' \in answers
  /\ keysAge' = 0
  /\ \/ kid \in keys' /\ End("accepted")
     \/ kid \notin keys' /\ End("rejected")
  /\ UNCHANGED <<published, kid, unpublished, steady>>

\* The request fails, or its answer has no keys: the call ends with an error,
\* and what was cached stays.
RequestFails ==
  /\ step \in {"fetch", "refresh"}
  /\ End("error")
  /\ UNCHANGED <<published, keys, keysAge, kid, unpublished, steady>>

\* The provider publishes other keys.
Rotate(kids) ==
  /\ kids # {} /\ kids # published
  /\ published' = kids
  /\ unpublished' = [k \in Kid |-> IF k \in kids THEN 0 ELSE unpublished[k]]
  /\ answers' = IF answers = {} THEN {} ELSE answers \cup {kids}
  /\ steady' = (steady /\ kid \in kids)
  /\ UNCHANGED <<keys, keysAge, step, kid, waited, verdict>>

Older(age) == IF age < Old THEN age + 1 ELSE age

\* A verdict belongs to the moment it was given: time goes on without it.
KeyTimePasses ==
  /\ step \in {"fetch", "refresh"} => waited < RequestTime
  /\ waited' = IF step \in {"fetch", "refresh"} THEN waited + 1 ELSE waited
  /\ step' = IF step = "ended" THEN "idle" ELSE step
  /\ verdict' = "none"
  /\ keysAge' = IF keys = {} THEN keysAge ELSE Older(keysAge)
  /\ unpublished' = [k \in Kid |-> IF k \in published THEN 0
                                                    ELSE Older(unpublished[k])]
  /\ UNCHANGED <<published, keys, kid, answers, steady>>

\* The process restarts without keys.
KeysRestart ==
  /\ keys' = {} /\ keysAge' = 0
  /\ step' = "idle" /\ verdict' = "none" /\ answers' = {} /\ waited' = 0
  /\ steady' = FALSE
  /\ UNCHANGED <<published, kid, unpublished>>

KeysNext ==
  \/ \E k \in Kid : Validate(k)
  \/ FetchAnswered
  \/ RefreshAnswered
  \/ RequestFails
  \/ \E kids \in SUBSET Kid : Rotate(kids)
  \/ KeyTimePasses
  \/ KeysRestart

KeysSpec == KeysInit /\ [][KeysNext]_keyVars

-----------------------------------------------------------------------------

\* auth.py:74-77: a token is rejected for its key only when the provider did
\* not publish that key all along the validation, however old the cached keys
\* were and whatever was published while the provider was asked.
CurrentKeyAccepted == verdict = "rejected" => ~steady

\* A key is accepted only so long after the provider has withdrawn it: the
\* cached set counts from before its own request, and a refreshed one from
\* after it, so that a request's time is added.
TrustEnds == verdict = "accepted" => unpublished[kid] < KeyTtl + RequestTime
=============================================================================
