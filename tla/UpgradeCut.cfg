\* Requests on one product; the client of an upgrade hangs up.
SPECIFICATION CatalogSpec
CONSTANTS
    Visits = {r1, r2, r3}
    Products = {p1}
    NoProduct = NoProduct
    TopRank = 2
CHECK_DEADLOCK FALSE
INVARIANT UpgradeIsOneTransaction
