---------------------------- MODULE RequestGate ----------------------------
(***************************************************************************)
(* What stands between a client and a handler of /api/v1 (app.ts): the     *)
(* tenant middleware, the limiter of an address, authentication with an    *)
(* API key or a token, and the quota of the key.  The module has one       *)
(* tenant, one API key of that tenant and one address all requests come    *)
(* from; tokens are verified in AuthSession.                               *)
(*                                                                         *)
(* A request is "plain" (a public route, whatever it carries in its        *)
(* Authorization header, or a token), "key" (the API key alone) or "keyed" *)
(* (the API key and the X-Tenant-ID header, which tokens may have too).    *)
(* The limiters "auth" and "tenant" are createRateLimiter with other       *)
(* numbers and without refunds, which refuse some requests more; plans     *)
(* only choose the numbers.                                                *)
(***************************************************************************)
EXTENDS Integers, FiniteSets

CONSTANTS Reqs,      \* the requests the server has at a time
          IpMax,     \* max of generalRateLimiter
          KeyMax,    \* apiKeyRequestsPerMinute of the tenant's tier, or the override
          MaxHits    \* bound: hits counted in one window

ASSUME GateConstants == IpMax \in Nat /\ KeyMax \in Nat /\ MaxHits \in Nat

VARIABLES status,    \* Tenant.status
          usable,    \* the key is neither revoked nor expired
          cache,     \* the tenant's status as Redis has it, by slug and by id
          pending,   \* the cache entries an administrator has yet to delete
          hits,      \* rate_limit:general:<ip>, 0 when there is no such key
          quota,     \* api-gateway:apikey:<id>, 0 when there is no such key
          dying,     \* that key has a TTL
          at, kind,  \* where each request is, and what it is
          read,      \* the status it has read and not yet judged
          inTenant,  \* it runs in the context of the tenant
          counted,   \* its hit is in this window, an earlier one, or nowhere
          charged,   \* history: hits of this window that nobody may take back
          late       \* history: hits of earlier windows refunded in this one

tenantVars == <<status, usable, cache, pending>>
limits == <<hits, charged, late>>
gateway == <<quota, dying>>
request == <<at, kind, read, inTenant, counted>>
gateVars == <<tenantVars, limits, gateway, request>>

Kinds == {"plain", "key", "keyed"}
Statuses == {"ACTIVE", "SUSPENDED"}
Entries == {"slug", "status"}
None == "none"

GateTypeOK ==
    /\ status \in Statuses /\ usable \in BOOLEAN
    /\ cache \in [Entries -> Statuses \cup {None}]
    /\ pending \subseteq Entries
    /\ hits \in 0..MaxHits /\ charged \in Int /\ late \in Nat
    /\ quota \in 0..MaxHits /\ dying \in BOOLEAN
    /\ at \in [Reqs -> {"idle", "tenant", "slug", "limit", "auth", "status",
                        "gateway", "owner", "handling"}]
    /\ kind \in [Reqs -> Kinds]
    /\ read \in [Reqs -> Statuses \cup {None}]
    /\ inTenant \in [Reqs -> BOOLEAN]
    /\ counted \in [Reqs -> {"no", "now", "before"}]

GateInit ==
    /\ status = "ACTIVE" /\ usable = TRUE
    /\ cache = [k \in Entries |-> None] /\ pending = {}
    /\ hits = 0 /\ charged = 0 /\ late = 0
    /\ quota = 0 /\ dying = FALSE
    /\ at = [r \in Reqs |-> "idle"]
    /\ kind = [r \in Reqs |-> "plain"]
    /\ read = [r \in Reqs |-> None]
    /\ inTenant = [r \in Reqs |-> FALSE]
    /\ counted = [r \in Reqs |-> "no"]

HasHeader(r) == kind[r] = "keyed"
HasKey(r) == kind[r] \in {"key", "keyed"}

Move(r, step) == at' = [at EXCEPT ![r] = step]

(* The request is answered and forgotten.                                  *)
Forget(r) ==
    /\ Move(r, "idle")
    /\ kind' = [kind EXCEPT ![r] = "plain"]
    /\ read' = [read EXCEPT ![r] = None]
    /\ inTenant' = [inTenant EXCEPT ![r] = FALSE]
    /\ counted' = [counted EXCEPT ![r] = "no"]

(* errorHandler: nothing refunds a refused request, which has no user.     *)
Refuse(r) == Forget(r) /\ UNCHANGED <<tenantVars, limits, gateway>>

-----------------------------------------------------------------------------
(* A request that CORS, the body parser and the check of its origin let    *)
(* through reaches tenantMiddleware; the others change nothing.            *)
Arrive(r, k) ==
    /\ at[r] = "idle"
    /\ Move(r, "tenant")
    /\ kind' = [kind EXCEPT ![r] = k]
    /\ UNCHANGED <<tenantVars, limits, gateway, read, inTenant, counted>>

(* Mutant: the tenant is chosen by the header alone.                       *)
ResolveHeaderOnly(r) ==
    /\ at[r] = "tenant" /\ ~ HasHeader(r)
    /\ Move(r, "limit")
    /\ UNCHANGED <<tenantVars, limits, gateway, kind, read, inTenant, counted>>

(* Without the header, the tenant of a usable key, read from the database. *)
ResolveByKey(r) ==
    /\ at[r] = "tenant" /\ ~ HasHeader(r)
    /\ IF HasKey(r) /\ usable
       THEN IF status = "ACTIVE"
            THEN /\ Move(r, "limit")
                 /\ inTenant' = [inTenant EXCEPT ![r] = TRUE]
                 /\ UNCHANGED <<tenantVars, limits, gateway, kind, read, counted>>
            ELSE Refuse(r)
       ELSE /\ Move(r, "limit")
            /\ UNCHANGED <<tenantVars, limits, gateway, kind, read, inTenant, counted>>

(* Mutant: any tenant that is found will do.                               *)
Found(s) == s \in Statuses

Serves(s) == s = "ACTIVE"

(* The status of the tenant is known: by slug it opens the context and the *)
(* limiters are next, by id it lets the key through to its quota.          *)
Judge(r, e, s) ==
    IF Serves(s)
    THEN /\ Move(r, IF e = "slug" THEN "limit" ELSE "gateway")
         /\ inTenant' = [inTenant EXCEPT ![r] = @ \/ e = "slug"]
         /\ read' = [read EXCEPT ![r] = None]
         /\ UNCHANGED <<kind, counted>>
    ELSE Forget(r)

Asks(r, e) == /\ read[r] = None
              /\ \/ e = "slug" /\ at[r] = "tenant" /\ HasHeader(r)
                 \/ e = "status" /\ at[r] = "status"

(* getOrSetCache: a hit is taken as it is ...                              *)
CacheHit(r, e) ==
    /\ Asks(r, e) /\ cache[e] # None
    /\ Judge(r, e, cache[e])
    /\ UNCHANGED <<tenantVars, limits, gateway>>

(* ... after a miss, or an error of Redis, the database is read ...        *)
CacheMiss(r, e) ==
    /\ Asks(r, e)
    /\ read' = [read EXCEPT ![r] = status]
    /\ Move(r, e)
    /\ UNCHANGED <<tenantVars, limits, gateway, kind, inTenant, counted>>

(* ... and the answer stored, unless Redis fails, whatever happened since. *)
CacheFill(r, e) ==
    /\ at[r] = e /\ read[r] # None
    /\ \/ cache' = [cache EXCEPT ![e] = read[r]]
       \/ UNCHANGED cache
    /\ Judge(r, e, read[r])
    /\ UNCHANGED <<status, usable, pending, limits, gateway>>

(* A route is public or behind authMiddleware.                             *)
Route(r) == IF HasKey(r) THEN {"auth"} ELSE {"auth", "handling"}

(* max of generalRateLimiter                                               *)
WithinLimit(n) == n <= IpMax

(* createRateLimiter.  The store counts every hit, those it refuses too;  *)
(* if it fails the request passes uncounted (passOnStoreError).            *)
Limit(r) ==
    /\ at[r] = "limit"
    /\ \/ /\ hits < MaxHits
          /\ hits' = hits + 1
          /\ IF WithinLimit(hits')
             THEN /\ charged' = charged + 1
                  /\ counted' = [counted EXCEPT ![r] = "now"]
                  /\ \E p \in Route(r) : Move(r, p)
                  /\ UNCHANGED <<kind, read, inTenant>>
             ELSE Forget(r) /\ UNCHANGED charged
       \/ /\ \E p \in Route(r) : Move(r, p)
          /\ UNCHANGED <<hits, charged, kind, read, inTenant, counted>>
    /\ UNCHANGED <<tenantVars, late, gateway>>

(* tenantRateLimiter comes next: the hit for the address is not taken back *)
(* when the quota of the tenant is used up.                                *)
LimitTenant(r) ==
    /\ at[r] = "auth" /\ inTenant[r]
    /\ Refuse(r)

(* authMiddleware for a token, which is good or not.                       *)
AuthenticateUser(r) ==
    /\ at[r] = "auth" /\ ~ HasKey(r)
    /\ \/ /\ Move(r, "handling")
          /\ UNCHANGED <<tenantVars, limits, gateway, kind, read, inTenant, counted>>
       \/ Refuse(r)

(* authenticateWithApiKey: the row of the key ...                          *)
AuthenticateKey(r) ==
    /\ at[r] = "auth" /\ HasKey(r)
    /\ IF usable
       THEN /\ Move(r, "status")
            /\ UNCHANGED <<tenantVars, limits, gateway, kind, read, inTenant, counted>>
       ELSE Refuse(r)

(* SET key 0 EX 60 NX and INCR in one MULTI.                               *)
CountKeyHit ==
    /\ quota < MaxHits
    /\ quota' = quota + 1
    /\ dying' = (dying \/ quota = 0)

(* The override of the key or the tier of its tenant.                      *)
WithinQuota(n) == n <= KeyMax

(* ... the quota of the key, which is not enforced when Redis fails ...    *)
EnforceQuota(r) ==
    /\ at[r] = "gateway"
    /\ \/ /\ CountKeyHit
          /\ IF WithinQuota(quota')
             THEN Move(r, "owner") /\ UNCHANGED <<kind, read, inTenant, counted>>
             ELSE Forget(r)
       \/ /\ Move(r, "owner")
          /\ UNCHANGED <<gateway, kind, read, inTenant, counted>>
    /\ UNCHANGED <<tenantVars, limits>>

(* ... and its owner, the binding to the tenant and the permission.        *)
FindOwner(r) ==
    /\ at[r] = "owner"
    /\ \/ /\ Move(r, "handling")
          /\ UNCHANGED <<tenantVars, limits, gateway, kind, read, inTenant, counted>>
       \/ Refuse(r)

(* Mutant: a request is refunded for the header it carries.                *)
CarriesKey(r) == HasKey(r) \/ kind[r] = "plain"

(* isApiKeyAuthenticated: req.user was set by authenticateWithApiKey.      *)
Refundable(r) == HasKey(r)

(* The response is finished: the hit of a request that was authenticated   *)
(* by its key is taken back, from the window there is by now.              *)
Finish(r) ==
    /\ at[r] = "handling"
    /\ LET refund == Refundable(r) /\ counted[r] # "no" /\ hits > 0 IN
       /\ hits' = IF refund THEN hits - 1 ELSE hits
       /\ charged' = IF HasKey(r) /\ counted[r] = "now" /\ refund THEN charged - 1 ELSE charged
       /\ late' = IF refund /\ counted[r] = "before" THEN late + 1 ELSE late
    /\ Forget(r)
    /\ UNCHANGED <<tenantVars, gateway>>

(* The connection closes first, and 'finish' never fires; or the process   *)
(* dies.                                                                   *)
HangUp(r) == at[r] # "idle" /\ Refuse(r)

-----------------------------------------------------------------------------
(* The windows of the limiter and of the key run out.                      *)
LimitExpires ==
    /\ hits > 0
    /\ hits' = 0 /\ charged' = 0 /\ late' = 0
    /\ counted' = [r \in Reqs |-> IF counted[r] = "now" THEN "before" ELSE counted[r]]
    /\ UNCHANGED <<tenantVars, gateway, at, kind, read, inTenant>>

QuotaExpires ==
    /\ dying
    /\ quota' = 0 /\ dying' = FALSE
    /\ UNCHANGED <<tenantVars, limits, request>>

EntryExpires(e) ==
    /\ cache[e] # None
    /\ cache' = [cache EXCEPT ![e] = None]
    /\ UNCHANGED <<status, usable, pending, limits, gateway, request>>

(* TenantService.updateStatus: the row first ...                           *)
UpdateStatus(s) ==
    /\ s # status
    /\ status' = s
    /\ pending' = Entries
    /\ UNCHANGED <<usable, cache, limits, gateway, request>>

(* ... then both entries are deleted; a failure is logged and forgotten.   *)
Invalidate(e) ==
    /\ e \in pending
    /\ pending' = pending \ {e}
    /\ \/ cache' = [cache EXCEPT ![e] = None]
       \/ UNCHANGED cache
    /\ UNCHANGED <<status, usable, limits, gateway, request>>

(* ApiKeyService.revoke, or the key expires: it is never usable again.     *)
RevokeKey ==
    /\ usable
    /\ usable' = FALSE
    /\ UNCHANGED <<status, cache, pending, limits, gateway, request>>

Advance(r) ==
    \/ ResolveByKey(r)
    \/ \E e \in Entries : CacheHit(r, e) \/ CacheMiss(r, e) \/ CacheFill(r, e)
    \/ Limit(r) \/ LimitTenant(r)
    \/ AuthenticateUser(r) \/ AuthenticateKey(r)
    \/ EnforceQuota(r) \/ FindOwner(r)
    \/ Finish(r) \/ HangUp(r)

GateNext ==
    \/ \E r \in Reqs : Advance(r) \/ \E k \in Kinds : Arrive(r, k)
    \/ LimitExpires \/ QuotaExpires
    \/ \E e \in Entries : EntryExpires(e) \/ Invalidate(e)
    \/ \E s \in Statuses : UpdateStatus(s)
    \/ RevokeKey

GateSpec == GateInit /\ [][GateNext]_gateVars

(* Requests run on, and keys with a TTL expire.                            *)
FairGateSpec ==
    /\ GateSpec
    /\ \A r \in Reqs : WF_gateVars(Advance(r))
    /\ \A e \in Entries : WF_gateVars(EntryExpires(e))
    /\ WF_gateVars(QuotaExpires)

-----------------------------------------------------------------------------
(* Requests that are not authenticated by an API key get the quota of      *)
(* their address and no more, up to the hits of an earlier window that are *)
(* given back in this one: the exemption of keys cannot be borrowed        *)
(* (app.ts:92-115).                                                        *)
AddressQuotaHolds == charged <= IpMax + late

(* A request that is handled on the strength of an API key is handled in   *)
(* the context of the key's tenant, also when the key chose it             *)
(* (tenant.middleware.ts:31-46) and was looked up twice on the way.        *)
KeyActsInItsTenant ==
    \A r \in Reqs : at[r] = "handling" /\ HasKey(r) => inTenant[r]

(* A tenant that stays suspended is served no more from some point on,     *)
(* although its status is cached, caches are filled from reads older than  *)
(* the suspension, and deletions of entries may fail.                      *)
SuspensionTakesHold ==
    <>[](status = "SUSPENDED")
        => <>[](\A r \in Reqs : at[r] = "handling" => ~ inTenant[r])

(* A key over its quota is not shut out for ever (api-key-gateway.ts:73).  *)
OverQuotaKeyRecovers == quota > KeyMax ~> quota = 0

(* Neither quota can be got around, nor does it hold on for ever.          *)
QuotasAreFair == [][AddressQuotaHolds']_gateVars /\ OverQuotaKeyRecovers
=============================================================================
