\* Idempotency, jobs and MFA: three requests or instances at once, one key, job or
\* account; two windows; two secrets, two sets of codes.
\* Stampede: three calls; tags: two calls, one invalidation, two keys of different lives.
\* Entry: two requests, two addresses, two accounts; one identity, of a provider or a tenant.
SPECIFICATION RequestsSpec
CONSTANTS
    Clients = {r1, r2, r3}
    Nobody = Nobody
    NoAnswer = NoAnswer
    TTL = 2
    MaxRetries = 2
    Calls = {c1, c2}
    Writers = {w1}
    Keys = {k1, short}
    NoEntry = Nobody
    Ttl <- TtlOfAll
    Spare = 1
    MaxAttempts = 2
    MaxWindow = 2
    Reqs = {r1, r2, r3}
    PerSet = 1
    MaxSecrets = 2
    MaxSets = 2
    Visitors = {v1, v2}
    Mails = {m1, m2}
    Accounts = {a1, a2}
    Tenants = {here, there}
    Consumer = {consumer}
    Corporate = {corporate}
    TenantOf <- TenantOfAll
    Flows = {f1}
    Nothing = Nothing
    here = here
    short = short
SYMMETRY Symmetry
\* All requests come to an end.
CHECK_DEADLOCK FALSE
INVARIANT ReplaysAreGood
INVARIANT MutualExclusion
INVARIANT NoWindowIsSkipped
INVARIANT LateRetryIsReplayed
INVARIANT SpentCodeIsRefused
INVARIANT EnrolmentIsWhole
INVARIANT UnverifiedHasALink
INVARIANT LoginsStayApart
INVARIANT CacheHelpersHold
