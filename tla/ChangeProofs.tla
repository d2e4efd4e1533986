---------------------------- MODULE ChangeProofs ----------------------------
(***************************************************************************)
(* Proofs about what has to follow a change: about what lets a user in     *)
(* (KeyRotation, for any number of processes and rotations; AccessRights,  *)
(* for any number of tenants and requests and any lifetime of a token) and *)
(* about what tells of the processes (WorkerHealth, for any number of      *)
(* workers and any stale time; Readiness, for any time-outs and            *)
(* threshold).                                                             *)
(***************************************************************************)
EXTENDS KeyRotation, AccessRights, WorkerHealth, Readiness, TLAPS

-----------------------------------------------------------------------------
(* Rotations of the secrets.                                               *)

(* Between rotations one value is in use, during one two; a process has    *)
(* what is deployed or has yet to be restarted.                            *)
RotationPhase ==
    IF deployed.previous = NoValue
    THEN /\ \A p \in Processes : env[p].active = deployed.active
         /\ \A t \in tokens : t.key = deployed.active
    ELSE /\ deployed.previous = deployed.active - 1
         /\ \A p \in Processes : env[p] = deployed \/ env[p].active = deployed.active - 1
         /\ \A t \in tokens : t.key \in {deployed.active - 1, deployed.active}

KeyInvariant == KeyTypeOK /\ RotationPhase

LEMMA InitialPhase == KeyInit => KeyInvariant
  BY KeyOptions DEF KeyInit, KeyInvariant, KeyTypeOK, RotationPhase, Config, Keys, NoValue

(* Every step keeps the invariant.                                         *)
LEMMA PhaseIsKept ==
    ASSUME KeyInvariant, [KeyNext]_keyVars
    PROVE  KeyInvariant'
  <1> USE KeyOptions DEF NoValue, Keys, Config
  <1>1. ASSUME NEW p \in Processes, Sign(p) PROVE KeyInvariant'
    BY <1>1 DEF Sign, KeyInvariant, KeyTypeOK, RotationPhase
  <1>2. ASSUME NEW p \in Processes, Start(p) PROVE KeyInvariant'
    BY <1>2 DEF Start, KeyInvariant, KeyTypeOK, RotationPhase
  <1>3. ASSUME NEW p \in Processes, NEW c \in Columns, Encrypt(p, c) PROVE KeyInvariant'
    BY <1>3 DEF Encrypt, KeyInvariant, KeyTypeOK, RotationPhase
  <1>4. CASE TokensAge
    <2>1. \A t \in tokens' :
            \E u \in tokens : t = [u EXCEPT !.age = @ + 1] /\ u.age < ExpiresIn
      BY <1>4 DEF TokensAge
    <2>2. \A t \in tokens' : /\ t \in [key : Keys, age : 0..ExpiresIn]
                            /\ \E u \in tokens : t.key = u.key
      BY <2>1 DEF KeyInvariant, KeyTypeOK
    <2> QED
      BY <1>4, <2>2 DEF TokensAge, KeyInvariant, KeyTypeOK, RotationPhase
  <1>5. CASE Rotate
    BY <1>5 DEF Rotate, KeyInvariant, KeyTypeOK, RotationPhase
  <1>6. CASE Retire
    BY <1>6 DEF Retire, KeyInvariant, KeyTypeOK, RotationPhase
  <1>7. CASE UNCHANGED keyVars
    BY <1>7 DEF keyVars, KeyInvariant, KeyTypeOK, RotationPhase
  <1> QED
    BY <1>1, <1>2, <1>3, <1>4, <1>5, <1>6, <1>7 DEF KeyNext

(* A process that refuses a token has an older value than the token: in    *)
(* the middle of a rotation it accepts both values, or only the old one.   *)
LEMMA PhaseAccepts ==
    ASSUME KeyInvariant PROVE RotationLogsNobodyOut
  BY DEF KeyInvariant, KeyTypeOK, RotationPhase, RotationLogsNobodyOut, VerifyToken,
         Config, Keys, NoValue

(* However rotations, restarts and sign-ins interleave, an unexpired token *)
(* is accepted by every process that runs with the secret it was signed    *)
(* with or a newer one (env.ts:56-64, jwt.ts:82-99).                       *)
THEOREM RotationIsSeamless == KeySpec => []RotationLogsNobodyOut
  <1>1. KeyInit => KeyInvariant
    BY InitialPhase
  <1>2. KeyInvariant /\ [KeyNext]_keyVars => KeyInvariant'
    BY PhaseIsKept
  <1>3. KeyInvariant => RotationLogsNobodyOut
    BY PhaseAccepts
  <1> QED
    BY <1>1, <1>2, <1>3, PTL DEF KeySpec

(* The oldest value the operator still deploys.                            *)
OldestDeployed ==
    IF deployed.previous = NoValue THEN deployed.active ELSE deployed.previous

(* What a process that runs with the key of a secret, or a newer one,      *)
(* cannot read was encrypted with a key that is no longer deployed.        *)
OnlyOldSecretsAreLost ==
    \A p \in Processes, c \in Columns :
        \/ secret[c] = NoValue \/ Decrypt(p, secret[c]) \/ env[p].active < secret[c]
        \/ secret[c] < OldestDeployed

(* The limits of what a rotation does to stored secrets                    *)
(* (encryption.service.ts:94, docs/runbook.md:86-91): as long as its key   *)
(* is deployed, as active or as previous, a secret is readable, whatever   *)
(* restarts are still to come; and a key goes out of use in one step only, *)
(* when the previous values are taken away.                                *)
THEOREM SecretsOfDeployedKeys ==
    KeySpec => []OnlyOldSecretsAreLost /\ [][OldestDeployed' # OldestDeployed => Retire]_keyVars
  <1>1. KeyInvariant => OnlyOldSecretsAreLost
    BY DEF KeyInvariant, KeyTypeOK, RotationPhase, OnlyOldSecretsAreLost, OldestDeployed,
           Decrypt, Config, Keys, NoValue
  <1>2. KeyInvariant /\ [KeyNext]_keyVars => [OldestDeployed' # OldestDeployed => Retire]_keyVars
    <2> SUFFICES ASSUME KeyInvariant, KeyNext, OldestDeployed' # OldestDeployed PROVE Retire
      OBVIOUS
    <2>1. deployed' # deployed
      BY DEF OldestDeployed
    <2>2. ~ Rotate
      BY KeyOptions DEF Rotate, OldestDeployed, KeyInvariant, KeyTypeOK, Config, Keys, NoValue
    <2> QED BY <2>1, <2>2 DEF KeyNext, Sign, Start, Encrypt, TokensAge
  <1> QED
    BY <1>1, <1>2, InitialPhase, PhaseIsKept, PTL DEF KeySpec

-----------------------------------------------------------------------------
(* The role and the tenant of a user.                                      *)

Places == {"idle", "bind", "owner", "scope", "handling"}
Descriptions == [route : Routes \cup {"own"}, tenant : OfTenant, role : Roles,
                 scopes : SUBSET Permissions, key : SUBSET OfTenant]

(* What the row says of the user at the moment is no time ago.             *)
NowIsNow == \A s \in States : Is(s, role, tenant) => ago[s] = 0

(* Whoever has, or is about to get, a token of an administrator was one    *)
(* when it was signed.                                                     *)
TokensAreRecent ==
    /\ read = "ADMIN" => ago["admin"] = 0
    /\ \A r \in Roles : r = "ADMIN" /\ life[r] > 0 => ago["admin"] + life[r] <= AccessTTL

(* A request that is handled has been let in for a reason the row gave.    *)
Founded(what) ==
    /\ Permitted(what)
    /\ what.key # {} /\ what.route \in {"moderate", "dashboard"} => ago["admin"] = 0
    /\ what.key = {} /\ AsksForPlatform(what) => ago["platform"] = 0
    /\ what.key = {} /\ what.tenant # None =>
         \/ ago[what.tenant] = 0
         \/ ago[None] = 0 /\ ago["admin"] < AccessTTL

(* What is known of a request at each step of the middleware.              *)
Sound(step, what) ==
    /\ what.key = {} /\ what.role = "ADMIN" => ago["admin"] < AccessTTL
    /\ step = "bind" => what.tenant # None /\ what.key = {}
    /\ step = "owner" => what.key # {}
    /\ step = "scope" => what.key = {} /\ Permitted(what) /\ what.tenant = None
    /\ step = "handling" => Founded(what)

RequestsAreSound == \A q \in Requests : at[q] # "idle" => Sound(at[q], req[q])

(* The inductive invariant.                                                *)
RightsInvariant == RightsTypeOK /\ NowIsNow /\ TokensAreRecent /\ RequestsAreSound

USE RightsOptions

(* The request q, and no other one, is at a step, and this is known of it. *)
RequestBecomes(q, step, what) ==
    /\ at' \in [Requests -> Places] /\ req' \in [Requests -> Descriptions]
    /\ at'[q] = step /\ req'[q] = what
    /\ \A p \in Requests \ {q} : at'[p] = at[p] /\ req'[p] = req[p]

LEMMA ArriveFrame ==
    ASSUME RightsTypeOK, NEW q \in Requests, NEW s \in Places, NEW w \in Descriptions,
           Arrive(q, s, w)
    PROVE  RequestBecomes(q, s, w)
  BY DEF RightsTypeOK, Arrive, RequestBecomes, Places, Descriptions

LEMMA PassFrame ==
    ASSUME RightsTypeOK, NEW q \in Requests, at' = [at EXCEPT ![q] = "handling"], req' = req
    PROVE  RequestBecomes(q, "handling", req[q])
  BY DEF RightsTypeOK, RequestBecomes, Places, Descriptions

LEMMA ForgetFrame ==
    ASSUME RightsTypeOK, NEW q \in Requests, Forget(q)
    PROVE  RequestBecomes(q, "idle", NoRequest)
  <1>1. NoRequest \in Descriptions
    BY DEF NoRequest, Descriptions, OfTenant
  <1> QED BY <1>1 DEF RightsTypeOK, Forget, RequestBecomes, Places, Descriptions

(* Nothing but one request changes, and perhaps the API key.               *)
LEMMA RequestKeeps ==
    ASSUME RightsInvariant, NEW q \in Requests, NEW s \in Places, NEW w \in Descriptions,
           RequestBecomes(q, s, w), s # "idle" => Sound(s, w),
           UNCHANGED <<role, tenant, read, life, ago>>,
           key' \in [scopes : SUBSET Permissions, tenant : OfTenant] \cup {NoKey}
    PROVE  RightsInvariant'
  <1>1. RightsTypeOK' /\ NowIsNow' /\ TokensAreRecent'
    BY DEF RightsInvariant, RightsTypeOK, RequestBecomes, NowIsNow, TokensAreRecent, Places,
           Descriptions
  <1>2. RequestsAreSound'
    BY DEF RightsInvariant, RequestBecomes, RequestsAreSound, Sound, Founded
  <1> QED BY <1>1, <1>2 DEF RightsInvariant

(* Only administrators may moderate or see the dashboard.                  *)
LEMMA AdminsModerate ==
    ASSUME NEW w \in Descriptions, Permitted(w), w.route \in {"moderate", "dashboard"}
    PROVE  w.role = "ADMIN"
  <1>1. w.role \in {"USER", "ORGANIZER", "ADMIN"} /\ w.route \in Granted(w.role)
    BY DEF Descriptions, Permitted
  <1> QED BY <1>1 DEF Granted

LEMMA TokenKeeps ==
    ASSUME RightsInvariant, NEW q \in Requests, NEW route \in Routes, NEW t \in OfTenant,
           NEW r \in Roles, ArriveWithToken(q, route, t, r)
    PROVE  RightsInvariant'
  <1> DEFINE what == [route |-> route, tenant |-> t, role |-> r,
                      scopes |-> Permissions, key |-> {}]
             step == IF t # None THEN "bind"
                     ELSE IF AsksForPlatform(what) THEN "scope" ELSE "handling"
  <1>1. what \in Descriptions /\ step \in Places
    BY DEF Descriptions, Places
  <1>2. /\ t # None \/ Permitted(what)
        /\ Arrive(q, step, what) /\ UNCHANGED person /\ life[r] > 0
    BY DEF ArriveWithToken
  <1>3. r = "ADMIN" => ago["admin"] < AccessTTL
    <2>1. life[r] \in Nat /\ ago["admin"] \in Nat
      BY DEF RightsInvariant, RightsTypeOK, States
    <2> QED BY <1>2, <2>1 DEF RightsInvariant, TokensAreRecent
  <1>4. Sound(step, what)
    BY <1>2, <1>3 DEF Sound, Founded
  <1> HIDE DEF what, step
  <1>5. RequestBecomes(q, step, what)
    BY <1>1, <1>2, ArriveFrame DEF RightsInvariant
  <1> QED BY <1>1, <1>2, <1>4, <1>5, RequestKeeps DEF person, RightsInvariant, RightsTypeOK

LEMMA BindKeeps ==
    ASSUME RightsInvariant, NEW q \in Requests, Bind(q)
    PROVE  RightsInvariant'
  <1>1. /\ req[q] \in Descriptions /\ RightsTypeOK /\ "handling" \in Places /\ "idle" \in Places
        /\ NoRequest \in Descriptions /\ at[q] = "bind" /\ UNCHANGED person
        /\ Sound("bind", req[q]) /\ NowIsNow
    BY DEF RightsInvariant, RightsTypeOK, Descriptions, Places, NoRequest, OfTenant, Bind,
           RequestsAreSound
  <1>2. CASE /\ Bound(req[q], {tenant}) /\ Permitted(req[q])
             /\ at' = [at EXCEPT ![q] = "handling"] /\ UNCHANGED req
    <2>1. req[q].tenant # None /\ req[q].key = {} /\ tenant \in OfTenant
      BY <1>1 DEF Sound, RightsTypeOK
    <2>2. \/ tenant = req[q].tenant
          \/ tenant = None /\ req[q].role = "ADMIN"
      BY <1>2, <2>1 DEF Bound
    <2>3. ago[tenant] = 0
      BY <1>1, <2>1 DEF NowIsNow, Is, States
    <2>4. Sound("handling", req[q])
      BY <1>1, <1>2, <2>1, <2>2, <2>3 DEF Sound, Founded, AsksForPlatform
    <2>5. RequestBecomes(q, "handling", req[q])
      BY <1>1, <1>2, PassFrame
    <2> QED BY <1>1, <2>4, <2>5, RequestKeeps DEF person, RightsTypeOK
  <1>3. CASE Forget(q)
    BY <1>1, <1>3, ForgetFrame, RequestKeeps DEF person, RightsTypeOK
  <1> QED BY <1>2, <1>3 DEF Bind

LEMMA KeyKeeps ==
    ASSUME RightsInvariant, NEW q \in Requests, NEW route \in Routes, NEW t \in OfTenant,
           ArriveWithKey(q, route, t)
    PROVE  RightsInvariant'
  <1> DEFINE what == [route |-> route, tenant |-> IF t = None THEN key.tenant ELSE t,
                      role |-> "USER", scopes |-> key.scopes, key |-> {key.tenant}]
  <1>1. key \in [scopes : SUBSET Permissions, tenant : OfTenant]
    BY DEF ArriveWithKey, RightsInvariant, RightsTypeOK
  <1>2. what \in Descriptions
    BY <1>1 DEF Descriptions
  <1>3. Arrive(q, "owner", what) /\ UNCHANGED person
    BY DEF ArriveWithKey
  <1>4. Sound("owner", what)
    BY DEF Sound
  <1> HIDE DEF what
  <1>5. "owner" \in Places /\ RequestBecomes(q, "owner", what)
    BY <1>2, <1>3, ArriveFrame DEF RightsInvariant, Places
  <1> QED BY <1>2, <1>3, <1>4, <1>5, RequestKeeps DEF person, RightsInvariant, RightsTypeOK

LEMMA OwnerKeeps ==
    ASSUME RightsInvariant, NEW q \in Requests, FindOwner(q)
    PROVE  RightsInvariant'
  <1> DEFINE what == [req[q] EXCEPT !.role = role]
  <1>1. /\ req[q] \in Descriptions /\ RightsTypeOK /\ "handling" \in Places /\ "idle" \in Places
        /\ NoRequest \in Descriptions /\ at[q] = "owner" /\ UNCHANGED person
        /\ Sound("owner", req[q]) /\ NowIsNow /\ role \in Roles
    BY DEF RightsInvariant, RightsTypeOK, Descriptions, Places, NoRequest, OfTenant,
           FindOwner, RequestsAreSound
  <1>2. /\ what \in Descriptions /\ what.role = role /\ what.key = req[q].key
    BY <1>1 DEF Descriptions
  <1>3. CASE Permitted(what) /\ Arrive(q, "handling", what)
    <2>1. role = "ADMIN" => ago["admin"] = 0
      BY <1>1 DEF NowIsNow, Is, States
    <2>2. what.key # {}
      BY <1>1, <1>2 DEF Sound
    <2>3. Sound("handling", what)
      BY <1>2, <1>3, <2>1, <2>2, AdminsModerate DEF Sound, Founded
    <2> HIDE DEF what
    <2>4. RequestBecomes(q, "handling", what)
      BY <1>1, <1>2, <1>3, ArriveFrame
    <2> QED BY <1>1, <1>2, <2>3, <2>4, RequestKeeps DEF person, RightsTypeOK
  <1>4. CASE Forget(q)
    BY <1>1, <1>4, ForgetFrame, RequestKeeps DEF person, RightsTypeOK
  <1> QED BY <1>3, <1>4 DEF FindOwner

LEMMA ScopeKeeps ==
    ASSUME RightsInvariant, NEW q \in Requests, PlatformScope(q)
    PROVE  RightsInvariant'
  <1>1. /\ req[q] \in Descriptions /\ RightsTypeOK /\ "handling" \in Places /\ "idle" \in Places
        /\ NoRequest \in Descriptions /\ at[q] = "scope" /\ UNCHANGED person
        /\ Sound("scope", req[q]) /\ NowIsNow
    BY DEF RightsInvariant, RightsTypeOK, Descriptions, Places, NoRequest, OfTenant,
           PlatformScope, RequestsAreSound
  <1>2. CASE /\ role = "ADMIN" /\ tenant = None
             /\ at' = [at EXCEPT ![q] = "handling"] /\ UNCHANGED req
    <2>1. ago["platform"] = 0
      BY <1>1, <1>2 DEF NowIsNow, Is, States
    <2>2. Sound("handling", req[q])
      BY <1>1, <2>1 DEF Sound, Founded
    <2>3. RequestBecomes(q, "handling", req[q])
      BY <1>1, <1>2, PassFrame
    <2> QED BY <1>1, <2>2, <2>3, RequestKeeps DEF person, RightsTypeOK
  <1>3. CASE Forget(q)
    BY <1>1, <1>3, ForgetFrame, RequestKeeps DEF person, RightsTypeOK
  <1> QED BY <1>2, <1>3 DEF PlatformScope

(* A request ends, perhaps by creating a key.                              *)
LEMMA EndKeeps ==
    ASSUME RightsInvariant, NEW q \in Requests,
           Finish(q) \/ \E scopes \in SUBSET Permissions : CreateKey(q, scopes)
    PROVE  RightsInvariant'
  <1>1. /\ req[q] \in Descriptions /\ RightsTypeOK
        /\ NoRequest \in Descriptions /\ "idle" \in Places /\ Forget(q)
    BY DEF RightsInvariant, RightsTypeOK, Descriptions, Places, NoRequest, OfTenant,
           Finish, CreateKey
  <1>2. key' \in [scopes : SUBSET Permissions, tenant : OfTenant] \cup {NoKey}
    BY <1>1 DEF Finish, CreateKey, RightsTypeOK, Descriptions, person
  <1>3. UNCHANGED <<role, tenant, read, life, ago>>
    BY DEF Finish, CreateKey, person
  <1> QED BY <1>1, <1>2, <1>3, ForgetFrame, RequestKeeps

(* The row changes: what it says from now on is no time ago, and nothing   *)
(* becomes longer ago by it.                                               *)
LEMMA RowKeeps ==
    ASSUME RightsInvariant, NEW r \in Roles, NEW t \in OfTenant, ChangeRow(r, t)
    PROVE  RightsInvariant'
  <1>1. /\ ago \in [States -> 0 .. AccessTTL] /\ role' = r /\ tenant' = t
        /\ UNCHANGED <<read, life, key, at, req>>
        /\ ago' = [s \in States |-> IF Is(s, r, t) THEN 0 ELSE ago[s]]
    BY DEF RightsInvariant, RightsTypeOK, ChangeRow
  <1>2. ago' \in [States -> 0 .. AccessTTL]
    BY <1>1
  <1>3. \A s \in States : (ago[s] = 0 => ago'[s] = 0) /\ ago'[s] <= ago[s]
    BY <1>1
  <1>4. {"admin", "platform", None} \subseteq States /\ OfTenant \subseteq States
    BY DEF States, OfTenant
  <1>5. RightsTypeOK' /\ NowIsNow'
    BY <1>1, <1>2 DEF RightsInvariant, RightsTypeOK, NowIsNow
  <1>6. TokensAreRecent'
    BY <1>1, <1>2, <1>3, <1>4 DEF RightsInvariant, RightsTypeOK, TokensAreRecent
  <1>7. ASSUME NEW q \in Requests, at[q] # "idle" PROVE Sound(at[q], req[q])'
    <2>1. Sound(at[q], req[q]) /\ req[q].tenant \in OfTenant
      BY <1>7 DEF RightsInvariant, RequestsAreSound, RightsTypeOK
    <2> QED
      BY <1>1, <1>2, <1>3, <1>4, <2>1
      DEF Sound, Founded, Permitted, AsksForPlatform
  <1> QED BY <1>1, <1>5, <1>6, <1>7 DEF RightsInvariant, RequestsAreSound

LEMMA TickKeeps == ASSUME RightsInvariant, Tick PROVE RightsInvariant'
  <1>1. /\ ago \in [States -> 0 .. AccessTTL] /\ life \in [Roles -> 0 .. AccessTTL]
        /\ UNCHANGED <<role, tenant, read, key, at, req>> /\ read = None
        /\ \A q \in Requests : at[q] = "idle"
        /\ life' = [r \in Roles |-> IF life[r] > 0 THEN life[r] - 1 ELSE 0]
        /\ ago' = [s \in States |-> IF Is(s, role, tenant) THEN 0
                                    ELSE IF ago[s] < AccessTTL THEN ago[s] + 1 ELSE ago[s]]
    BY DEF RightsInvariant, RightsTypeOK, Tick
  <1>2. ago' \in [States -> 0 .. AccessTTL] /\ life' \in [Roles -> 0 .. AccessTTL]
    BY <1>1
  <1>3. RightsTypeOK' /\ NowIsNow' /\ RequestsAreSound'
    BY <1>1, <1>2 DEF RightsInvariant, RightsTypeOK, NowIsNow, RequestsAreSound
  <1>4. "admin" \in States /\ ago'["admin"] <= ago["admin"] + 1
    BY <1>1 DEF States
  <1>5. \A r \in Roles : life'[r] > 0 => life[r] > 0 /\ life'[r] = life[r] - 1
    BY <1>1
  <1>6. /\ ago["admin"] \in Nat /\ ago'["admin"] \in Nat
        /\ \A r \in Roles : life[r] \in Nat /\ life'[r] \in Nat
    BY <1>1, <1>2, <1>4
  <1>7. read' # "ADMIN"
    BY <1>1
  <1>8. TokensAreRecent'
    <2>1. \A r \in Roles : r = "ADMIN" /\ life[r] > 0 => ago["admin"] + life[r] <= AccessTTL
      BY DEF RightsInvariant, TokensAreRecent
    <2>2. ASSUME NEW r \in Roles, r = "ADMIN", life'[r] > 0
          PROVE  ago'["admin"] + life'[r] <= AccessTTL
      BY <1>4, <1>5, <1>6, <2>1, <2>2
    <2> QED BY <1>7, <2>2 DEF TokensAreRecent
  <1> QED BY <1>3, <1>8 DEF RightsInvariant

LEMMA RightsStep == ASSUME RightsInvariant, [RightsNext]_rightsVars PROVE RightsInvariant'
  <1>1. ASSUME ReadUser PROVE RightsInvariant'
    <2>1. read' = role /\ UNCHANGED <<role, tenant, life, key, at, req, ago>>
      BY <1>1 DEF ReadUser
    <2>2. role = "ADMIN" => ago["admin"] = 0
      BY DEF RightsInvariant, NowIsNow, Is, States
    <2> QED
      BY <2>1, <2>2
      DEF RightsInvariant, RightsTypeOK, NowIsNow, TokensAreRecent, RequestsAreSound, Sound,
          Founded
  <1>2. ASSUME SignToken PROVE RightsInvariant'
    <2>1. /\ read \in Roles /\ life' = [life EXCEPT ![read] = AccessTTL] /\ read' = None
          /\ UNCHANGED <<role, tenant, key, at, req, ago>>
      BY <1>2 DEF SignToken, RightsInvariant, RightsTypeOK
    <2>2. /\ life' \in [Roles -> 0 .. AccessTTL] /\ ago["admin"] \in Nat
          /\ \A r \in Roles : life'[r] = IF r = read THEN AccessTTL ELSE life[r]
      BY <2>1 DEF RightsInvariant, RightsTypeOK, States
    <2>3. TokensAreRecent'
      BY <2>1, <2>2 DEF RightsInvariant, TokensAreRecent
    <2> QED
      BY <2>1, <2>2, <2>3
      DEF RightsInvariant, RightsTypeOK, NowIsNow, RequestsAreSound, Sound, Founded
  <1>3. ASSUME RevokeKey \/ UNCHANGED rightsVars PROVE RightsInvariant'
    BY <1>3
    DEF RevokeKey, rightsVars, RightsInvariant, RightsTypeOK, NowIsNow, TokensAreRecent,
        RequestsAreSound, Sound, Founded
  <1> QED
    BY <1>1, <1>2, <1>3, TokenKeeps, BindKeeps, KeyKeeps, OwnerKeeps, ScopeKeeps, EndKeeps,
       RowKeeps, TickKeeps
    DEF RightsNext, Step

(* Whoever is no administrator any more keeps the rights of one for the    *)
(* lifetime of a token and, with an API key, not at all; and whoever acts  *)
(* in a tenant, or for the platform, is its member at that moment, or an   *)
(* administrator without a tenant (permission.middleware.ts:30-37,         *)
(* auth.middleware.ts:101-114, stats-scope.middleware.ts:12-20).           *)
THEOREM RightsStayCurrent == RightsSpec => []RightsFollowTheRow
  <1>1. RightsInit => RightsInvariant
    <2> SUFFICES ASSUME RightsInit PROVE RightsInvariant
      OBVIOUS
    <2>1. NoRequest \in Descriptions /\ None \in OfTenant
      BY DEF NoRequest, Descriptions, OfTenant
    <2>2. RightsTypeOK
      BY <2>1 DEF RightsInit, RightsTypeOK, Descriptions
    <2>3. NowIsNow /\ RequestsAreSound
      BY DEF RightsInit, NowIsNow, RequestsAreSound
    <2>4. read # "ADMIN" /\ \A r \in Roles : ~ life[r] > 0
      BY DEF RightsInit
    <2> QED BY <2>2, <2>3, <2>4 DEF RightsInvariant, TokensAreRecent
  <1>2. ASSUME RightsInvariant PROVE RightsFollowTheRow
    <2>1. ASSUME NEW q \in Requests, Handled(q)
          PROVE  /\ Sound("handling", req[q]) /\ req[q] \in Descriptions
                 /\ req[q].route \in {"moderate", "dashboard"} => req[q].role = "ADMIN"
      <3>1. Sound("handling", req[q]) /\ req[q] \in Descriptions
        BY <1>2, <2>1 DEF Handled, RightsInvariant, RequestsAreSound, RightsTypeOK, Descriptions
      <3>2. Permitted(req[q])
        BY <3>1 DEF Sound, Founded
      <3> QED BY <3>1, <3>2, AdminsModerate
    <2>2. DemotionTakesHold
      BY <2>1 DEF DemotionTakesHold, Sound, Founded
    <2>3. MoveTakesHold
      BY <2>1 DEF MoveTakesHold, Sound, Founded
    <2> QED BY <2>2, <2>3 DEF RightsFollowTheRow
  <1> QED BY <1>1, <1>2, RightsStep, PTL DEF RightsSpec

-----------------------------------------------------------------------------
(* The heartbeats of the workers.                                          *)

(* A beat is as old as the last running worker at least, be it in Redis or *)
(* on its way.                                                             *)
BeatsAreOfRunners ==
    /\ \A w \in Workers : proc[w] = "running" => idle = 0
    /\ \A w \in Workers : \A age \in sent[w] : idle <= age
    /\ beat # Never => idle <= beat

(* Since a worker has been steady for a tick, nothing old has been on its  *)
(* way ...                                                                 *)
SteadyMeansFresh ==
    \A w \in Workers :
        /\ proc[w] # "running" => steady[w] = 0
        /\ steady[w] > 0 => redis /\ \A v \in Workers : sent[v] \subseteq {0}

(* ... and when it has been steady for longer than since its last beat,    *)
(* that beat has arrived, or will within the tick.                         *)
SteadyHasBeaten ==
    \A w \in Workers :
        /\ steady[w] > gap[w] => beat <= gap[w] \/ 0 \in sent[w]
        /\ steady[w] > MaxGap => beat <= MaxGap

WorkersInvariant ==
    WorkersTypeOK /\ BeatsAreOfRunners /\ SteadyMeansFresh /\ SteadyHasBeaten

LEMMA WorkersStart == WorkersInit => WorkersInvariant
  BY HeartbeatOptions
  DEF WorkersInit, WorkersInvariant, WorkersTypeOK, BeatsAreOfRunners, SteadyMeansFresh,
      SteadyHasBeaten, Never, Unset

(* A tick with Redis there finds every beat arrived; a steady worker that  *)
(* has come to its next beat's turn has beaten less than MaxGap ago.       *)
LEMMA IntervalKeeps ==
    ASSUME WorkersInvariant, IntervalPasses PROVE WorkersInvariant'
  <1> USE HeartbeatOptions
  <1> USE DEF WorkersInvariant
  <1>1. /\ proc' = proc /\ redis' = redis /\ up' = up
        /\ \A w \in Workers : proc[w] = "running" => gap[w] < MaxGap
        /\ redis => \A w \in Workers : sent[w] = {}
    BY DEF IntervalPasses
  <1>2. ASSUME NEW w \in Workers
        PROVE  /\ gap'[w] = IF proc[w] = "running" THEN gap[w] + 1 ELSE 0
               /\ sent'[w] = {Older(a) : a \in sent[w]}
               /\ steady'[w] = IF proc[w] = "running" /\ redis /\ steady[w] <= MaxGap
                               THEN steady[w] + 1 ELSE steady[w]
    BY DEF IntervalPasses
  <1>3. \A n \in 0..Stale : Older(n) \in 0..Stale /\ n <= Older(n) /\ Older(n) <= n + 1
    BY DEF Older
  <1>4. \A m, n \in 0..Stale : m <= n => Older(m) <= Older(n)
    BY DEF Older
  <1>5. /\ beat' \in 0..Never /\ (beat' # Never => beat # Never /\ beat' = Older(beat))
        /\ (beat # Never => beat' = Older(beat) /\ beat \in 0..Stale)
    BY <1>3 DEF IntervalPasses, WorkersTypeOK, Never
  <1>6. idle' \in 0..Stale /\ idle' <= Older(idle) /\ idle \in 0..Stale
        /\ ((\E w \in Workers : proc[w] = "running") => idle' = 0)
    BY <1>3 DEF IntervalPasses, WorkersTypeOK
  <1>7. WorkersTypeOK'
    <2>1. gap' \in [Workers -> 0..MaxGap]
      BY <1>1 DEF IntervalPasses, WorkersTypeOK
    <2>2. sent' \in [Workers -> SUBSET (0..Stale)]
      BY <1>3 DEF IntervalPasses, WorkersTypeOK
    <2>3. steady' \in [Workers -> 0..MaxGap + 1]
      BY DEF IntervalPasses, WorkersTypeOK
    <2> QED BY <1>1, <1>5, <1>6, <2>1, <2>2, <2>3 DEF WorkersTypeOK
  <1>8. BeatsAreOfRunners'
    <2>1. ASSUME NEW w \in Workers, NEW age \in sent'[w] PROVE idle' <= age
      <3>1. PICK a \in sent[w] : age = Older(a)
        BY <1>2, <2>1
      <3>2. a \in 0..Stale /\ idle <= a
        BY DEF WorkersTypeOK, BeatsAreOfRunners
      <3> QED BY <1>3, <1>4, <1>6, <3>1, <3>2
    <2>2. beat' # Never => idle' <= beat'
      BY <1>3, <1>4, <1>5, <1>6 DEF BeatsAreOfRunners
    <2> QED BY <1>1, <1>6, <2>1, <2>2 DEF BeatsAreOfRunners, Never
  <1>9. SteadyMeansFresh'
    BY <1>1, <1>2 DEF SteadyMeansFresh, WorkersTypeOK
  <1>10. SteadyHasBeaten'
    <2> SUFFICES ASSUME NEW w \in Workers
                 PROVE  /\ steady'[w] > gap'[w] => beat' <= gap'[w] \/ 0 \in sent'[w]
                        /\ steady'[w] > MaxGap => beat' <= MaxGap
      BY DEF SteadyHasBeaten
    <2>1. /\ gap[w] \in 0..MaxGap /\ steady[w] \in 0..MaxGap + 1
      BY DEF WorkersTypeOK
    <2>2. CASE proc[w] # "running" \/ ~ redis
      <3>1. steady'[w] = 0
        BY <1>2, <2>1, <2>2 DEF SteadyMeansFresh
      <3>2. gap'[w] \in 0..MaxGap
        BY <1>7 DEF WorkersTypeOK
      <3> QED BY <3>1, <3>2
    <2>3. CASE proc[w] = "running" /\ redis
      <3>1. /\ gap'[w] = gap[w] + 1 /\ gap[w] < MaxGap /\ sent[w] = {}
            /\ steady[w] > gap[w] => beat <= gap[w]
            /\ steady'[w] \in {steady[w], steady[w] + 1}
            /\ steady[w] > MaxGap => steady'[w] = steady[w]
            /\ steady[w] <= MaxGap => steady'[w] = steady[w] + 1
        BY <1>1, <1>2, <2>1, <2>3 DEF SteadyHasBeaten
      <3>2. steady[w] > gap[w] => beat # Never /\ beat' <= gap[w] + 1
        BY <1>3, <1>5, <2>1, <3>1 DEF Never, WorkersTypeOK
      <3>3. /\ steady'[w] > gap'[w] => steady[w] > gap[w]
            /\ steady'[w] > MaxGap => steady[w] > gap[w]
        BY <2>1, <3>1
      <3> QED BY <1>5, <2>1, <3>1, <3>2, <3>3 DEF Never
    <2> QED BY <2>2, <2>3
  <1> QED BY <1>7, <1>8, <1>9, <1>10

(* Every step keeps the invariant.                                         *)
LEMMA WorkersStep ==
    ASSUME WorkersInvariant, [WorkersNext]_workerVars PROVE WorkersInvariant'
  <1> USE HeartbeatOptions
  <1> USE DEF WorkersInvariant, WorkersTypeOK, BeatsAreOfRunners, SteadyMeansFresh,
             SteadyHasBeaten
  <1>1. ASSUME NEW w \in Workers, Beat(w) PROVE WorkersInvariant'
    BY <1>1 DEF Beat, history
  <1>2. ASSUME NEW w \in Workers, BeatArrives(w) PROVE WorkersInvariant'
    BY <1>2 DEF BeatArrives, history, Never
  <1>3. ASSUME NEW w \in Workers, StopWorker(w) PROVE WorkersInvariant'
    BY <1>3 DEF StopWorker
  <1>4. ASSUME NEW w \in Workers, EndWorker(w) PROVE WorkersInvariant'
    BY <1>4 DEF EndWorker
  <1>5. ASSUME NEW w \in Workers, Restart(w) PROVE WorkersInvariant'
    BY <1>5 DEF Restart, Never
  <1>6. CASE Collect
    BY <1>6 DEF Collect, history, Unset
  <1>7. CASE ConnectionTurns
    BY <1>7 DEF ConnectionTurns
  <1>8. CASE UNCHANGED workerVars
    BY <1>8 DEF workerVars, history
  <1> QED
    BY <1>1, <1>2, <1>3, <1>4, <1>5, <1>6, <1>7, <1>8, IntervalKeeps DEF WorkersNext

(* The gauge follows the workers: up needs a worker that ran less than the *)
(* stale time ago, down that none has been steady for longer than there is *)
(* between two beats (queue.metrics.ts:97-157).                            *)
THEOREM GaugeIsRight == WorkersSpec => GaugeFollowsWorkers
  <1>1. ASSUME WorkersInvariant, Collect
        PROVE  /\ up' = 1 => idle < Stale
               /\ up' = 0 => \A w \in Workers : steady[w] <= MaxGap
    BY <1>1, HeartbeatOptions
    DEF Collect, Recent, WorkersInvariant, WorkersTypeOK, BeatsAreOfRunners,
        SteadyHasBeaten, Never
  <1>2. WorkersSpec => []WorkersInvariant
    BY WorkersStart, WorkersStep, PTL DEF WorkersSpec
  <1>3. WorkersInvariant =>
          [Collect => /\ up' = 1 => idle < Stale
                      /\ up' = 0 => \A w \in Workers : steady[w] <= MaxGap]_workerVars
    BY <1>1
  <1> QED BY <1>2, <1>3, PTL DEF GaugeFollowsWorkers

-----------------------------------------------------------------------------
(* The probes of a process.                                                *)

(* A probe has seen what there is now; when none is under way, nothing is  *)
(* left of the last one.                                                   *)
ProbesSee ==
    /\ probe => Lacks \in seen
    /\ ~ probe => seen = {} /\ waiting = {} /\ ~ healthy /\ elapsed = 0

(* A probe that found the database well has seen it well; one that has     *)
(* seen nothing amiss has spent no time on the database, and no more than  *)
(* is allowed on the rest.                                                 *)
ProbesAreInTime ==
    /\ healthy => seen \cap {"nothing", "life"} # {}
    /\ probe /\ seen = {"nothing"} =>
         /\ "postgresql" \in waiting => elapsed = 0
         /\ "postgresql" \notin waiting => healthy
         /\ elapsed <= OptionalTimeout

(* Every probe with a reason to fail has failed.                           *)
FailuresAreCounted ==
    /\ bad <= fails
    /\ fails = Threshold => ~ routed

ReadyInvariant == ReadyTypeOK /\ ProbesSee /\ ProbesAreInTime /\ FailuresAreCounted

LEMMA ReadyStarts == ReadyInit => ReadyInvariant
  <1> SUFFICES ASSUME ReadyInit PROVE ReadyInvariant
    OBVIOUS
  <1>1. ReadyTypeOK
    <2>1. 0 \in 0..ProbeTimeout /\ 0 \in 0..Threshold
      BY ProbeOptions
    <2> QED BY <2>1 DEF ReadyInit, ReadyTypeOK
  <1>2. ProbesSee /\ ProbesAreInTime /\ FailuresAreCounted
    BY ProbeOptions DEF ReadyInit, ProbesSee, ProbesAreInTime, FailuresAreCounted
  <1> QED BY <1>1, <1>2 DEF ReadyInvariant

(* A probe that fails, and one that succeeds, which has seen the database  *)
(* well.                                                                   *)
LEMMA FailKeeps == ASSUME ReadyInvariant, Fail PROVE ReadyInvariant'
  <1> USE ProbeOptions DEF ReadyInvariant
  <1>1. /\ UNCHANGED <<process, db, store>>
        /\ probe' = FALSE /\ waiting' = {} /\ healthy' = FALSE /\ elapsed' = 0 /\ seen' = {}
    BY DEF Fail, End, outside
  <1>2. /\ fails' = IF fails < Threshold THEN fails + 1 ELSE fails
        /\ bad' = IF seen \subseteq {"database"}
                  THEN (IF bad < Threshold THEN bad + 1 ELSE bad) ELSE 0
        /\ routed' = (routed /\ fails' < Threshold)
        /\ fails \in 0..Threshold /\ bad \in 0..Threshold /\ bad <= fails
    BY DEF Fail, End, ReadyTypeOK, FailuresAreCounted
  <1>3. fails' \in 0..Threshold /\ bad' \in 0..Threshold /\ bad' <= fails'
    BY <1>2
  <1>4. routed' \in BOOLEAN /\ (fails' = Threshold => ~ routed')
    <2>1. fails' = Threshold => ~ (fails' < Threshold)
      BY <1>3
    <2> QED BY <1>2, <2>1, Zenon
  <1>5. 0 \in 0..ProbeTimeout
    OBVIOUS
  <1>6. ReadyTypeOK' /\ FailuresAreCounted'
    <2>1. /\ process \in {"serving", "draining", "exited"}
          /\ db \in {"up", "failing", "hung"} /\ store \in {"up", "down", "hung"}
      BY DEF ReadyTypeOK
    <2> QED BY <1>1, <1>3, <1>4, <1>5, <2>1 DEF ReadyTypeOK, FailuresAreCounted
  <1>7. ProbesSee' /\ ProbesAreInTime'
    BY <1>1 DEF ProbesSee, ProbesAreInTime
  <1> QED BY <1>6, <1>7

LEMMA SucceedKeeps == ASSUME ReadyInvariant, Succeed, healthy PROVE ReadyInvariant'
  <1> USE ProbeOptions DEF ReadyInvariant
  <1>1. /\ UNCHANGED <<process, db, store>>
        /\ probe' = FALSE /\ waiting' = {} /\ healthy' = FALSE /\ elapsed' = 0 /\ seen' = {}
    BY DEF Succeed, End, outside
  <1>2. FailuresAreCounted' /\ fails' \in 0..Threshold /\ bad' \in 0..Threshold
        /\ routed' \in BOOLEAN
    BY DEF Succeed, End, ReadyTypeOK, FailuresAreCounted, ProbesAreInTime
  <1>3. ReadyTypeOK'
    <2>1. 0 \in 0..ProbeTimeout
      OBVIOUS
    <2> QED BY <1>1, <1>2, <2>1 DEF ReadyTypeOK
  <1>4. ProbesSee' /\ ProbesAreInTime'
    BY <1>1 DEF ProbesSee, ProbesAreInTime
  <1> QED BY <1>2, <1>3, <1>4

(* What happens outside is seen by the probe under way.                    *)
LEMMA WatchKeeps ==
    ASSUME ReadyInvariant, Watch,
           process' \in {"serving", "draining", "exited"},
           db' \in {"up", "failing", "hung"}, store' \in {"up", "down", "hung"}
    PROVE  ReadyInvariant'
  <1>1. Lacks' \in {"database", "life", "nothing"}
    BY DEF Lacks
  <1>2. /\ UNCHANGED <<probe, waiting, healthy, elapsed, fails, routed, bad>>
        /\ seen' = IF probe THEN seen \cup {Lacks'} ELSE seen
    BY DEF Watch, check
  <1>3. ReadyTypeOK'
    BY <1>1, <1>2 DEF ReadyInvariant, ReadyTypeOK
  <1>4. ProbesSee' /\ ProbesAreInTime' /\ FailuresAreCounted'
    <2>1. seen \subseteq seen' /\ (probe => seen # {})
      BY <1>2 DEF ReadyInvariant, ProbesSee
    <2> HIDE DEF Lacks
    <2> QED
      BY <1>2, <2>1
      DEF ReadyInvariant, ProbesSee, ProbesAreInTime, FailuresAreCounted
  <1> QED BY <1>3, <1>4 DEF ReadyInvariant

(* Every step keeps the invariant.                                         *)
LEMMA ReadyStep ==
    ASSUME ReadyInvariant, [ReadyNext]_readyVars PROVE ReadyInvariant'
  <1> USE ProbeOptions
  <1>1. CASE Ask
    BY <1>1
    DEF Ask, outside, Lacks, Dependencies, ReadyInvariant, ReadyTypeOK, ProbesSee,
        ProbesAreInTime, FailuresAreCounted
  <1>2. CASE RefuseProbe \/ GiveUp
    BY <1>2, FailKeeps DEF RefuseProbe, GiveUp
  <1>3. CASE Respond
    BY <1>3, FailKeeps, SucceedKeeps DEF Respond
  <1>4. CASE Second
    <2>1. /\ UNCHANGED <<process, db, store, probe, waiting, healthy, fails, routed, seen, bad>>
          /\ probe /\ elapsed < ProbeTimeout /\ elapsed' = elapsed + 1
          /\ \A d \in waiting : elapsed < TimeoutOf(d) /\ ~ Settles(d)
          /\ waiting # {}
      BY <1>4 DEF Second, outside
    <2>2. Lacks' = Lacks
      BY <2>1 DEF Lacks
    <2>3. ReadyTypeOK' /\ ProbesSee' /\ FailuresAreCounted'
      BY <2>1, <2>2 DEF ReadyInvariant, ReadyTypeOK, ProbesSee, FailuresAreCounted
    <2>4. ASSUME seen = {"nothing"}
          PROVE  "postgresql" \notin waiting /\ elapsed' <= OptionalTimeout
      <3>1. db = "up"
        BY <2>1, <2>4 DEF ReadyInvariant, ProbesSee, Lacks
      <3>2. "postgresql" \notin waiting
        BY <2>1, <3>1 DEF Settles
      <3>3. PICK d \in waiting : d # "postgresql"
        BY <2>1, <3>2
      <3>4. elapsed < OptionalTimeout
        BY <2>1, <3>3 DEF TimeoutOf
      <3> QED BY <2>1, <3>2, <3>4 DEF ReadyInvariant, ReadyTypeOK
    <2>5. ProbesAreInTime'
      BY <2>1, <2>4 DEF ReadyInvariant, ProbesAreInTime
    <2> QED BY <2>3, <2>5 DEF ReadyInvariant
  <1>5. ASSUME NEW d \in Dependencies, Answer(d) PROVE ReadyInvariant'
    BY <1>5
    DEF Answer, Settled, outside, Lacks, Settles, RefusesAtOnce, RepliesOnceBack,
        Dependencies, ReadyInvariant, ReadyTypeOK, ProbesSee, ProbesAreInTime,
        FailuresAreCounted
  <1>6. ASSUME NEW d \in Dependencies, TimeOut(d) PROVE ReadyInvariant'
    <2>1. /\ UNCHANGED <<process, db, store, probe, elapsed, fails, routed, seen, bad>>
          /\ d \in waiting /\ waiting' = waiting \ {d} /\ elapsed >= TimeoutOf(d)
          /\ healthy' = IF d = "postgresql" THEN FALSE ELSE healthy
      BY <1>6 DEF TimeOut, Settled, outside
    <2>2. Lacks' = Lacks /\ probe
      BY <2>1 DEF Lacks, ReadyInvariant, ProbesSee
    <2>3. ReadyTypeOK' /\ ProbesSee' /\ FailuresAreCounted'
      BY <2>1, <2>2 DEF ReadyInvariant, ReadyTypeOK, ProbesSee, FailuresAreCounted
    <2>4. seen = {"nothing"} => d # "postgresql"
      BY <2>1, <2>2 DEF ReadyInvariant, ReadyTypeOK, ProbesAreInTime, TimeoutOf
    <2>5. ProbesAreInTime'
      BY <2>1, <2>4 DEF ReadyInvariant, ReadyTypeOK, ProbesAreInTime
    <2> QED BY <2>3, <2>5 DEF ReadyInvariant
  <1>7. CASE Signal \/ Exit
    BY <1>7, WatchKeeps DEF Signal, Exit, ReadyInvariant, ReadyTypeOK
  <1>8. CASE Replace
    <2>1. /\ process' = "serving" /\ fails' = 0 /\ routed' = FALSE /\ bad' = 0 /\ ~ probe
          /\ UNCHANGED <<db, store, probe, waiting, healthy, elapsed, seen>>
      BY <1>8 DEF Replace, check
    <2>2. ReadyTypeOK'
      <3>1. 0 \in 0..Threshold
        OBVIOUS
      <3> QED BY <2>1, <3>1 DEF ReadyInvariant, ReadyTypeOK
    <2>3. ProbesSee' /\ ProbesAreInTime' /\ FailuresAreCounted'
      BY <2>1 DEF ReadyInvariant, ProbesSee, ProbesAreInTime, FailuresAreCounted
    <2> QED BY <2>2, <2>3 DEF ReadyInvariant
  <1>9. ASSUME NEW state \in {"up", "failing", "hung"}, DatabaseTurns(state)
        PROVE  ReadyInvariant'
    BY <1>9, WatchKeeps DEF DatabaseTurns, ReadyInvariant, ReadyTypeOK
  <1>10. ASSUME NEW state \in {"up", "down", "hung"}, RedisTurns(state)
         PROVE  ReadyInvariant'
    BY <1>10, WatchKeeps DEF RedisTurns, ReadyInvariant, ReadyTypeOK
  <1>11. CASE UNCHANGED readyVars
    BY <1>11
    DEF readyVars, outside, check, Lacks, ReadyInvariant, ReadyTypeOK, ProbesSee,
        ProbesAreInTime, FailuresAreCounted
  <1> QED
    BY <1>1, <1>2, <1>3, <1>4, <1>5, <1>6, <1>7, <1>8, <1>9, <1>10, <1>11 DEF ReadyNext

(* A probe that has seen nothing amiss does not fail.                      *)
LEMMA HealthyProbesSucceed ==
    ASSUME ReadyInvariant, [ReadyNext]_readyVars, probe, ~ probe', seen = {"nothing"}
    PROVE  routed'
  <1> USE ProbeOptions DEF ReadyInvariant
  <1>1. process # "exited" /\ elapsed <= OptionalTimeout
    BY DEF ProbesSee, ProbesAreInTime, Lacks
  <1>2. CASE Respond
    BY <1>2 DEF Respond, Succeed, ProbesAreInTime
  <1>3. ~ GiveUp
    BY <1>1 DEF GiveUp, ReadyTypeOK
  <1>4. ~ (Ask \/ RefuseProbe \/ Second \/ Signal \/ Exit \/ Replace)
    BY DEF Ask, RefuseProbe, Second, Signal, Exit, Replace, Watch, check
  <1>5. \A d \in Dependencies : ~ Answer(d) /\ ~ TimeOut(d)
    BY DEF Answer, TimeOut, Settled
  <1>6. \A state : ~ DatabaseTurns(state) /\ ~ RedisTurns(state)
    BY DEF DatabaseTurns, RedisTurns, Watch, check
  <1>7. ~ UNCHANGED readyVars
    BY DEF readyVars, check
  <1> QED BY <1>2, <1>3, <1>4, <1>5, <1>6, <1>7 DEF ReadyNext

(* Requests go where they can be answered: a probe during which the        *)
(* process and its database were well succeeds, whatever became of Redis,  *)
(* and after as many probes with a reason to fail as the threshold nothing *)
(* is routed to the process (health.controller.ts:38-49, :124-136).        *)
THEOREM RoutingIsRight == ReadySpec => RoutingFollowsReadiness
  <1>1. ReadySpec => []ReadyInvariant
    BY ReadyStarts, ReadyStep, PTL DEF ReadySpec
  <1>2. ASSUME ReadyInvariant, [ReadyNext]_readyVars
        PROVE  [probe /\ ~ probe' /\ seen = {"nothing"} => routed']_readyVars
    BY <1>2, HealthyProbesSucceed
  <1>3. ReadySpec => OptionalStaysOptional
    BY <1>1, <1>2, PTL DEF ReadySpec, OptionalStaysOptional
  <1>4. ReadyInvariant => TroubleIsNoticed
    BY ProbeOptions DEF ReadyInvariant, ReadyTypeOK, FailuresAreCounted, TroubleIsNoticed
  <1> QED BY <1>1, <1>3, <1>4, PTL DEF RoutingFollowsReadiness
=============================================================================
