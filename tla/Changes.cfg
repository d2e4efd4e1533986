\* Audit: four writers at once on an empty table; one row may be altered or lost.
\* Catalog: three requests of any kind on one product.
\* Keys: three processes, two rotations.
\* Rights: one request at a time, one tenant, tokens that live for two ticks.
\* Files: one user, two uploads, two requests and the retention job.
\* Workers: two, with a heartbeat that is stale after three intervals.
\* A behaviour may stop when every request or call has ended.
SPECIFICATION ChangesSpec
CONSTANTS
    Txs = {t1, t2, t3, t4}
    Changed = Changed
    Nobody = Nobody
    Damages = {"alter", "lose"}
    Processes = {r1, r2, r3}
    Columns = {c1, c2}
    ExpiresIn = 2
    MaxKey = 3
    Tenants = {"A"}
    None = "none"
    Requests = {1}
    AccessTTL = 2
    Roles = {"USER", "ADMIN"}
    Routes = {"own", "moderate", "dashboard"}
    Users = {u1}
    Workers = {w1, w2}
    Stale = 3
    MaxGap = 2
    RequiredTimeout = 3
    OptionalTimeout = 1
    ProbeTimeout = 3
    Threshold = 3
    Files = {f1, f2}
    Owner <- OwnerOfAll
    Reqs = {c1, c2}
    Job = Nobody
    Stubborn = {}
    Readers = {}
    NoOne = Nobody
    NoFile = Nobody
    Visits = {r1, r2, r3}
    Products = {p1}
    NoProduct = Nobody
    TopRank = 2
    p1 = p1
    r1 = r1
    r2 = r2
    r3 = r3
    u1 = u1
SYMMETRY Symmetry
CHECK_DEADLOCK FALSE
INVARIANT VerificationTells
PROPERTY ImplementsLog
INVARIANT CatalogIsCoherent
INVARIANT RotationLogsNobodyOut
INVARIANT RightsFollowTheRow
INVARIANT NoFileIsForgotten
PROPERTY GaugeFollowsWorkers
PROPERTY RoutingFollowsReadiness
