--------------------------- MODULE ProductCatalog ---------------------------
(***************************************************************************)
(* The products of one tenant: ProductService and ProductRepository run    *)
(* inside the transaction that tenantMiddleware holds open for the whole   *)
(* request and ends when the response has been sent or its connection has  *)
(* closed, and list the products through the cache of getOrSetCache.       *)
(* PostgreSQL gives READ COMMITTED reads and row locks held to the end.    *)
(***************************************************************************)
EXTENDS Integers, Sequences

CONSTANTS
    Visits,    \* the requests, each handled once
    Products,
    NoProduct,
    TopRank    \* the largest value of PRODUCT_CATEGORY_RANK

ASSUME RanksAreNumbers == TopRank \in Nat

VARIABLES
    product,     \* the committed row of each product
    upgradeLog,  \* its committed rows of product_upgrade_logs
    request,     \* the progress and the transaction of each request
    cache,       \* the cached list of products, or NoList
    overlapped,  \* history: products two upgrades of which overlapped
    cut          \* history: products whose upgrade lost its connection

catalogVars == <<product, upgradeLog, request, cache, overlapped, cut>>

Ranks == 0 .. TopRank
Absent == [state |-> "absent", rank |-> 0]
New == [state |-> "live", rank |-> 0]
NotWritten == [state |-> "not written", rank |-> 0]
NoList == [cached |-> FALSE, list |-> {}, clean |-> TRUE, expires |-> FALSE]

Blank(place, tx) == [op |-> "none", at |-> place, of |-> NoProduct, from |-> 0, to |-> 0,
                     tx |-> tx, wrote |-> NotWritten, logged |-> FALSE,
                     seen |-> {}, clean |-> TRUE]
NotStarted == Blank("start", "none")
Done == Blank("done", "over")

(* Each product is yet to be created, or has been before.                  *)
CatalogInit ==
    /\ product \in [Products -> {Absent, New}]
    /\ upgradeLog = [p \in Products |-> <<>>]
    /\ request = [r \in Visits |-> NotStarted]
    /\ cache = NoList
    /\ overlapped = {}
    /\ cut = {}

At(r, place) == request[r].at = place
Open(r) == request[r].tx = "open"
Wrote(r) == request[r].wrote # NotWritten

(* The request that has changed p and not ended holds the lock of its row. *)
Unlocked(p) == \A r \in Visits : ~ (Open(r) /\ Wrote(r) /\ request[r].of = p)

Upgrading(r, p) ==
    /\ request[r].op = "upgrade" /\ request[r].of = p
    /\ Open(r) /\ request[r].at # "find"

(* findMany, as a set: the products not deleted, with their category.      *)
Listed == {<<p, product[p].rank>> : p \in {q \in Products : product[q].state = "live"}}

-----------------------------------------------------------------------------
(* tenantMiddleware opens the transaction and calls the handler.           *)
Begin(r, op, p, to, place) ==
    /\ request[r] = NotStarted
    /\ request' = [request EXCEPT ![r].op = op, ![r].of = p, ![r].to = to,
                                  ![r].at = place, ![r].tx = "open"]

StartCreate(r, p) ==
    /\ product[p] = Absent
    /\ \A s \in Visits :
         request[s].op = "create" /\ request[s].of = p => At(s, "done")
    /\ Begin(r, "create", p, 0, "write")
    /\ UNCHANGED <<product, upgradeLog, cache, overlapped, cut>>

StartUpgrade(r, p, to) ==
    /\ Begin(r, "upgrade", p, to, "find")
    /\ UNCHANGED <<product, upgradeLog, cache, overlapped, cut>>

StartDelete(r, p) ==
    /\ Begin(r, "delete", p, 0, "find")
    /\ UNCHANGED <<product, upgradeLog, cache, overlapped, cut>>

StartList(r) ==
    /\ Begin(r, "list", NoProduct, 0, "get")
    /\ UNCHANGED <<product, upgradeLog, cache, overlapped, cut>>

(* A status other than ACTIVE or an empty stock refuse as well.            *)
MayUpgrade(p, to) == product[p].state = "live" /\ to > product[p].rank

(* findById, and the checks of upgradeProduct and deleteProduct.           *)
Find(r) ==
    /\ At(r, "find") /\ Open(r)
    /\ LET p == request[r].of IN
       /\ IF request[r].op = "upgrade" THEN MayUpgrade(p, request[r].to)
                                       ELSE product[p].state = "live"
       /\ request' = [request EXCEPT ![r].at = "write", ![r].from = product[p].rank]
       /\ overlapped' = IF /\ request[r].op = "upgrade"
                           /\ \E s \in Visits \ {r} : Upgrading(s, p)
                        THEN overlapped \cup {p} ELSE overlapped
    /\ UNCHANGED <<product, upgradeLog, cache, cut>>

(* The product is not there, or the requester or its state forbids it.     *)
Refuse(r) ==
    /\ At(r, "find") /\ Open(r)
    /\ request' = [request EXCEPT ![r].at = "answer"]
    /\ UNCHANGED <<product, upgradeLog, cache, overlapped, cut>>

(* What create, applyUpgrade and delete make of the row: an UPDATE by id   *)
(* alone, which changes one column of whatever the row is by then.         *)
Updated(r, p) ==
    CASE request[r].op = "create"  -> New
      [] request[r].op = "upgrade" -> [product[p] EXCEPT !.rank = request[r].to]
      [] request[r].op = "delete"  -> [product[p] EXCEPT !.state = "deleted"]

(* Lists being filled are no longer sure to show what is committed.        *)
WriteRow(r) ==
    /\ At(r, "write") /\ Open(r)
    /\ LET p == request[r].of IN
       /\ Unlocked(p)
       /\ request' = [s \in Visits |->
            IF s = r
            THEN [request[r] EXCEPT !.wrote = Updated(r, p),
                    !.at = IF request[r].op = "upgrade" THEN "log" ELSE "invalidate"]
            ELSE [request[s] EXCEPT !.clean = FALSE]]
    /\ UNCHANGED <<product, upgradeLog, cache, overlapped, cut>>

InsertLog(r) ==
    /\ At(r, "log") /\ Open(r)
    /\ request' = [request EXCEPT ![r].logged = TRUE, ![r].at = "invalidate"]
    /\ UNCHANGED <<product, upgradeLog, cache, overlapped, cut>>

(* Mutant: the cached lists are left to expire.                            *)
InvalidateNothing(r) ==
    /\ At(r, "invalidate")
    /\ request' = [request EXCEPT ![r].at = "answer"]
    /\ UNCHANGED <<product, upgradeLog, cache, overlapped, cut>>

(* invalidateByPattern: Redis may fail, which is only logged.              *)
Invalidate(r) ==
    /\ At(r, "invalidate")
    /\ request' = [request EXCEPT ![r].at = "answer"]
    /\ cache' \in {NoList, [cache EXCEPT !.clean = FALSE]}
    /\ UNCHANGED <<product, upgradeLog, overlapped, cut>>

-----------------------------------------------------------------------------
(* getOrSetCache: a hit, or a miss, which an unreachable Redis is too.     *)
ListGet(r) ==
    /\ At(r, "get")
    /\ \/ cache.cached /\ request' = [request EXCEPT ![r].at = "answer"]
       \/ request' = [request EXCEPT ![r].at = "fetch"]
    /\ UNCHANGED <<product, upgradeLog, cache, overlapped, cut>>

Fetch(r) ==
    /\ At(r, "fetch") /\ Open(r)
    /\ request' = [request EXCEPT ![r].at = "store", ![r].seen = Listed,
         ![r].clean = \A s \in Visits : ~ (Open(s) /\ Wrote(s))]
    /\ UNCHANGED <<product, upgradeLog, cache, overlapped, cut>>

Filled(r) == [cached |-> TRUE, list |-> request[r].seen,
              clean |-> request[r].clean, expires |-> TRUE]

Store(r) ==
    /\ At(r, "store")
    /\ request' = [request EXCEPT ![r].at = "answer"]
    /\ cache' \in {cache, Filled(r)}
    /\ UNCHANGED <<product, upgradeLog, overlapped, cut>>

(* The 60 seconds of the list are over.                                    *)
Expire ==
    /\ cache.expires
    /\ cache' = NoList
    /\ UNCHANGED <<product, upgradeLog, request, overlapped, cut>>

-----------------------------------------------------------------------------
(* The transaction of r commits what it has done so far.                   *)
Apply(r) ==
    LET p == request[r].of IN
    /\ product' = IF Wrote(r) THEN [product EXCEPT ![p] = request[r].wrote] ELSE product
    /\ upgradeLog' = IF request[r].logged
         THEN [upgradeLog EXCEPT ![p] =
                 Append(@, [from |-> request[r].from, to |-> request[r].to])]
         ELSE upgradeLog

(* The response has been sent: only now is the transaction committed.      *)
CommitOnFinish(r) ==
    /\ At(r, "answer") /\ Open(r)
    /\ Apply(r)
    /\ request' = [request EXCEPT ![r] = Done]
    /\ UNCHANGED <<cache, overlapped, cut>>

(* The client hangs up: 'close' ends the wait as well, so that half of the *)
(* handler's statements commit while the handler goes on.                  *)
HangUp(r) ==
    /\ Open(r) /\ ~ At(r, "answer")
    /\ Apply(r)
    /\ request' = [request EXCEPT ![r].tx = "over"]
    /\ cut' = IF At(r, "log") THEN cut \cup {request[r].of} ELSE cut
    /\ cache' = IF Wrote(r) THEN [cache EXCEPT !.clean = FALSE] ELSE cache
    /\ UNCHANGED overlapped

(* The 30 seconds are over or the database fails: nothing is kept, even    *)
(* when the response has been sent.                                        *)
RollBack(r) ==
    /\ Open(r)
    /\ request' = [request EXCEPT ![r].tx = "over", ![r].wrote = NotWritten,
                                  ![r].logged = FALSE]
    /\ UNCHANGED <<product, upgradeLog, cache, overlapped, cut>>

(* A statement throws when the transaction is over.                        *)
Throw(r) ==
    /\ request[r].tx = "over"
    /\ request[r].at \in {"find", "write", "log", "fetch", "answer"}
    /\ request' = [request EXCEPT ![r] = Done]
    /\ UNCHANGED <<product, upgradeLog, cache, overlapped, cut>>

(* The process dies.                                                       *)
Die(r) ==
    /\ request[r].tx # "none" /\ ~ At(r, "done")
    /\ request' = [request EXCEPT ![r] = Done]
    /\ UNCHANGED <<product, upgradeLog, cache, overlapped, cut>>

Advance(r) ==
    \/ Find(r) \/ Refuse(r) \/ WriteRow(r) \/ InsertLog(r) \/ Invalidate(r)
    \/ ListGet(r) \/ Fetch(r) \/ Store(r) \/ CommitOnFinish(r) \/ Throw(r)

Enter(r) ==
    \/ StartList(r)
    \/ \E p \in Products :
         \/ StartCreate(r, p) \/ StartDelete(r, p)
         \/ \E to \in 1 .. TopRank : StartUpgrade(r, p, to)

CatalogNext ==
    \/ \E r \in Visits : Enter(r) \/ Advance(r) \/ HangUp(r) \/ RollBack(r) \/ Die(r)
    \/ Expire

CatalogSpec == CatalogInit /\ [][CatalogNext]_catalogVars

-----------------------------------------------------------------------------
(* Every variable keeps its type.                                          *)
CatalogTypeOK ==
    /\ product \in [Products -> [state : {"absent", "live", "deleted"}, rank : Ranks]]
    /\ upgradeLog \in [Products -> Seq([from : Ranks, to : Ranks])]
    /\ request \in [Visits -> [
         op : {"none", "create", "upgrade", "delete", "list"},
         at : {"start", "find", "write", "log", "invalidate", "get", "fetch", "store",
               "answer", "done"},
         of : Products \cup {NoProduct}, from : Ranks, to : Ranks,
         tx : {"none", "open", "over"},
         wrote : [state : {"not written", "live", "deleted"}, rank : Ranks],
         logged : BOOLEAN, seen : SUBSET (Products \X Ranks), clean : BOOLEAN]]
    /\ cache \in [cached : BOOLEAN, list : SUBSET (Products \X Ranks),
                  clean : BOOLEAN, expires : BOOLEAN]
    /\ overlapped \subseteq Products
    /\ cut \subseteq Products

(* The category is the one the last upgrade was logged with                *)
(* (product.repository.ts:162-166, "kategori produk berubah tapi           *)
(* riwayatnya tidak tercatat"), and every upgrade in it rises              *)
(* (product.service.ts:113-115); it has no gap when the upgrades did not   *)
(* overlap, so that the category itself never falls then.  Excepted is a   *)
(* product whose connection was lost between the two writes.               *)
UpgradesAreLogged ==
    \A p \in Products \ cut :
        LET log == upgradeLog[p] IN
        /\ product[p].rank = IF log = <<>> THEN 0 ELSE log[Len(log)].to
        /\ \A i \in 1 .. Len(log) : log[i].from < log[i].to
        /\ p \notin overlapped =>
             \A i \in 1 .. Len(log) - 1 : log[i + 1].from = log[i].to

(* "A failure in the middle never leaves the product's category changed    *)
(* without the history of it" (product.repository.ts:162-166, 181-185).    *)
UpgradeIsOneTransaction ==
    \A p \in Products :
        product[p].rank = IF upgradeLog[p] = <<>> THEN 0
                          ELSE upgradeLog[p][Len(upgradeLog[p])].to

(* A list cached while no write was under way shows what is committed: the *)
(* write after it has removed it before it commits.                        *)
CleanListIsFresh == cache.cached /\ cache.clean => cache.list = Listed

(* What the upgrades leave behind and what the list shows agree with the   *)
(* rows.                                                                   *)
CatalogIsCoherent == UpgradesAreLogged /\ CleanListIsFresh

=============================================================================
