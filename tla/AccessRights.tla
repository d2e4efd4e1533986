---------------------------- MODULE AccessRights ----------------------------
(***************************************************************************)
(* What a request may do, when the role and the tenant of its user change  *)
(* (shared/security/permissions.ts, permission.middleware.ts,              *)
(* tenant-binding.ts, stats-scope.middleware.ts).  One user, and at most   *)
(* one API key of theirs; nothing in the code changes the two columns,     *)
(* operators do.                                                           *)
(*                                                                         *)
(* Permissions that every role has are left out.  "organise" stands for    *)
(* those of organisers and administrators, "moderate" for those of         *)
(* administrators alone, but for "dashboard".  Routes that ask for no      *)
(* permission are "own": they decide by ownership.                         *)
(***************************************************************************)
EXTENDS Naturals

CONSTANTS Tenants, None,
          Requests,    \* requests of the user at a time
          AccessTTL,   \* JWT_EXPIRES_IN
          Roles,       \* roles the user is given
          Routes       \* what the routes that are used ask for

ASSUME RightsOptions ==
    /\ AccessTTL \in Nat \ {0}
    /\ Roles \subseteq {"USER", "ORGANIZER", "ADMIN"} /\ "USER" \in Roles
    /\ None \notin Tenants \cup {"USER", "ORGANIZER", "ADMIN"}

VARIABLES role, tenant,   \* the row of the user
          read,           \* the role that a login or a refresh has read
          life,           \* ticks left to the youngest token with each role
          key,            \* the API key: its scopes and its tenant
          at,
          req,            \* each request: its route, tenant, role and scopes, and
                          \* the tenant of the key it was authenticated with
          ago             \* history: ticks since the user was an administrator,
                          \* one without a tenant, in each tenant, in none

rightsVars == <<role, tenant, read, life, key, at, req, ago>>

Permissions == {"organise", "moderate", "dashboard"}
OfTenant == Tenants \cup {None}

(* ROLE_PERMISSIONS                                                        *)
Granted(r) == CASE r = "USER" -> {}
                [] r = "ORGANIZER" -> {"organise"}
                [] r = "ADMIN" -> Permissions

(* What the row says of the user.                                          *)
States == {"admin", "platform"} \cup OfTenant
Is(state, r, t) == \/ state = "admin" /\ r = "ADMIN"
                   \/ state = "platform" /\ r = "ADMIN" /\ t = None
                   \/ state = t

NoKey == [scopes |-> {"none"}, tenant |-> None]
NoRequest == [route |-> "own", tenant |-> None, role |-> "USER", scopes |-> {}, key |-> {}]

RightsTypeOK ==
    /\ role \in Roles /\ tenant \in OfTenant
    /\ read \in Roles \cup {None}
    /\ life \in [Roles -> 0..AccessTTL]
    /\ key \in [scopes : SUBSET Permissions, tenant : OfTenant] \cup {NoKey}
    /\ at \in [Requests -> {"idle", "bind", "owner", "scope", "handling"}]
    /\ req \in [Requests -> [route : Routes \cup {"own"}, tenant : OfTenant, role : Roles,
                             scopes : SUBSET Permissions, key : SUBSET OfTenant]]
    /\ ago \in [States -> 0..AccessTTL]

RightsInit ==
    /\ role = "USER" /\ tenant = None /\ read = None
    /\ ago = [s \in States |-> IF Is(s, "USER", None) THEN 0 ELSE AccessTTL]
    /\ life = [r \in Roles |-> 0] /\ key = NoKey
    /\ at = [q \in Requests |-> "idle"]
    /\ req = [q \in Requests |-> NoRequest]

person == <<role, tenant, read, life, key, ago>>

Forget(q) ==
    /\ at' = [at EXCEPT ![q] = "idle"]
    /\ req' = [req EXCEPT ![q] = NoRequest]

Arrive(q, step, what) ==
    /\ at' = [at EXCEPT ![q] = step]
    /\ req' = [req EXCEPT ![q] = what]

-----------------------------------------------------------------------------
ChangeRow(r, t) ==
    /\ r # role \/ t # tenant
    /\ role' = r /\ tenant' = t
    /\ ago' = [s \in States |-> IF Is(s, r, t) THEN 0 ELSE ago[s]]
    /\ UNCHANGED <<read, life, key, at, req>>

(* A login or a refresh reads the user ...                                 *)
ReadUser ==
    /\ read = None /\ read' = role
    /\ UNCHANGED <<role, tenant, life, key, at, req, ago>>

(* ... and signs a token with the role it has read.                        *)
SignToken ==
    /\ read # None
    /\ life' = [life EXCEPT ![read] = AccessTTL]
    /\ read' = None
    /\ UNCHANGED <<role, tenant, key, at, req, ago>>

(* Logins and requests that have begun are over by then.                   *)
Tick ==
    /\ read = None /\ \A q \in Requests : at[q] = "idle"
    /\ life' = [r \in Roles |-> IF life[r] > 0 THEN life[r] - 1 ELSE 0]
    /\ ago' = [s \in States |-> IF Is(s, role, tenant) THEN 0
                                ELSE IF ago[s] < AccessTTL THEN ago[s] + 1 ELSE ago[s]]
    /\ UNCHANGED <<role, tenant, read, key, at, req>>

-----------------------------------------------------------------------------
(* Mutant: the scopes of a key are taken for the rights of its owner.      *)
ScopesAreEnough(what) ==
    \/ what.route = "own"
    \/ what.route \in (IF what.key = {} THEN Granted(what.role) ELSE what.scopes)

(* requirePermission                                                       *)
Permitted(what) ==
    \/ what.route = "own"
    \/ what.route \in Granted(what.role) /\ what.route \in what.scopes

(* assertTenantBinding                                                     *)
Bound(what, bound) ==
    \/ what.tenant = None
    \/ bound = {what.tenant}
    \/ bound = {None} /\ what.role = "ADMIN"

(* Statistics of the whole platform are asked for without a tenant.        *)
AsksForPlatform(what) == what.route = "dashboard" /\ what.tenant = None

(* authMiddleware has verified a token; next is the binding when the       *)
(* request names a tenant.                                                 *)
ArriveWithToken(q, route, t, r) ==
    /\ at[q] = "idle" /\ life[r] > 0
    /\ LET what == [route |-> route, tenant |-> t, role |-> r,
                    scopes |-> Permissions, key |-> {}] IN
       /\ t # None \/ Permitted(what)
       /\ Arrive(q, IF t # None THEN "bind"
                    ELSE IF AsksForPlatform(what) THEN "scope" ELSE "handling", what)
    /\ UNCHANGED person

(* The tenant of the user is read, the role is the token's.                *)
Bind(q) ==
    /\ at[q] = "bind"
    /\ IF Bound(req[q], {tenant}) /\ Permitted(req[q])
       THEN at' = [at EXCEPT ![q] = "handling"] /\ UNCHANGED req
       ELSE Forget(q)
    /\ UNCHANGED person

(* authenticateWithApiKey has found the key; without the header the tenant *)
(* is that of the key.                                                     *)
ArriveWithKey(q, route, t) ==
    /\ at[q] = "idle" /\ key # NoKey
    /\ Arrive(q, "owner", [route |-> route, tenant |-> IF t = None THEN key.tenant ELSE t,
                           role |-> "USER", scopes |-> key.scopes, key |-> {key.tenant}])
    /\ UNCHANGED person

(* The owner is read; the tenant of the key goes before theirs.            *)
FindOwner(q) ==
    /\ at[q] = "owner"
    /\ LET what == [req[q] EXCEPT !.role = role]
           bound == IF req[q].key = {None} THEN {tenant} ELSE req[q].key IN
       IF Bound(what, bound) /\ Permitted(what) /\ ~ AsksForPlatform(what)
       THEN Arrive(q, "handling", what)
       ELSE Forget(q)
    /\ UNCHANGED person

(* requireTenantOrPlatformAdmin reads the row of the user.                 *)
PlatformScope(q) ==
    /\ at[q] = "scope"
    /\ IF role = "ADMIN" /\ tenant = None
       THEN at' = [at EXCEPT ![q] = "handling"] /\ UNCHANGED req
       ELSE Forget(q)
    /\ UNCHANGED person

Finish(q) == at[q] # "idle" /\ Forget(q) /\ UNCHANGED person

(* ApiKeyService.create: any of the permissions of the role the request    *)
(* has, and its tenant.                                                    *)
CreateKey(q, scopes) ==
    /\ at[q] = "handling" /\ req[q].route = "own"
    /\ key = NoKey /\ scopes \subseteq Granted(req[q].role)
    /\ key' = [scopes |-> scopes, tenant |-> req[q].tenant]
    /\ Forget(q)
    /\ UNCHANGED <<role, tenant, read, life, ago>>

RevokeKey ==
    /\ key # NoKey /\ key' = NoKey
    /\ UNCHANGED <<role, tenant, read, life, at, req, ago>>

Step(q) == Bind(q) \/ FindOwner(q) \/ PlatformScope(q) \/ Finish(q)

RightsNext ==
    \/ \E r \in Roles, t \in OfTenant : ChangeRow(r, t)
    \/ ReadUser \/ SignToken \/ Tick \/ RevokeKey
    \/ \E q \in Requests :
         \/ Step(q)
         \/ \E route \in Routes, t \in OfTenant :
              ArriveWithKey(q, route, t) \/ \E r \in Roles : ArriveWithToken(q, route, t, r)
         \/ \E scopes \in SUBSET Permissions : CreateKey(q, scopes)

RightsSpec == RightsInit /\ [][RightsNext]_rightsVars

-----------------------------------------------------------------------------
Handled(q) == at[q] = "handling"

(* A user who is no administrator any more loses the rights of one with    *)
(* the last token from before, and API keys, which such a token may have   *)
(* created, lose them at once (permission.middleware.ts:30-37).            *)
DemotionTakesHold ==
    \A q \in Requests :
        Handled(q) /\ req[q].route \in {"moderate", "dashboard"} =>
            IF req[q].key = {} THEN ago["admin"] < AccessTTL ELSE ago["admin"] = 0

(* Statistics of the whole platform are for administrators who have no     *)
(* tenant at the moment (stats-scope.middleware.ts:12-20), and tokens act  *)
(* in a tenant that is the user's at the moment, or that an administrator  *)
(* without one has chosen (auth.middleware.ts:101-114).                    *)
MoveTakesHold ==
    \A q \in Requests :
        Handled(q) /\ req[q].key = {} =>
            /\ AsksForPlatform(req[q]) => ago["platform"] = 0
            /\ req[q].tenant # None =>
                 \/ ago[req[q].tenant] = 0
                 \/ ago[None] = 0 /\ ago["admin"] < AccessTTL

(* Rights follow the row of the user; a tick is what a request or a login  *)
(* takes at most.                                                          *)
RightsFollowTheRow == DemotionTakesHold /\ MoveTakesHold
=============================================================================
