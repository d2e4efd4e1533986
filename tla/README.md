# A verification of backend-foundation in TLA+

This directory holds a formal model of the server in `src/`: TLA+ modules of its
stateful parts, TLC configurations that check them on small instances, and
theorems about them that TLAPS proves for every value of the constants.
`PROJECT.json` is the index: components, runs, mutants, theorems, hazards and, for
every definition that models code, the lines it models. Paths below are relative to
`src/src/` unless they start with another directory.

Contents: 1 the system · 2 its parts, one by one · 3 modules and code · 4 the runs ·
5 fairness · 6 proofs · 7 what the work found · 8 what is left out · 9 the plan.

## 1. The system

A multi-tenant HTTP backend in TypeScript. An **API process** (`server.ts`, Express)
serves requests; **worker processes** (`worker.ts`) run BullMQ queues and cron jobs.
Several instances of both run at once. They share **PostgreSQL** (through Prisma) and
**Redis** (locks, counters, cache, queues), an S3-like **object storage**, and external
**providers** of e-mail, payment and webhooks behind HTTP.

How the parts meet:

* *Database rows* are shared between requests, workers and clean-up jobs. A request of a
  tenant runs in one transaction that `tenant.middleware.ts` opens before the handler and
  ends after the response. The auth module runs outside it, one statement at a time or in
  short transactions of its own.
* *Redis keys* are shared between all processes: `withLock` (scheduler, idempotency), the
  login counters, cached lists, BullMQ's jobs.
* *Calls*: `resilientCall` puts bulkhead, retry, circuit breaker and time-out around each
  call of a provider; breaker and bulkhead are records in the memory of one process.
* *Messages*: a request sends a job with `tryEnqueue`; a worker takes it, possibly twice.
* *Callbacks*: `finish` and `close` of a response release the idempotency lock and end the
  tenant transaction.

JavaScript is single-threaded, so what stands between two `await`s is atomic within a
process. The models take exactly one step per awaited command, and let every other
process take its steps in between.

## 2. The parts: state, operations, what is hard, what makes them right

| Part | State | Operations | What is hard | Correct when |
|---|---|---|---|---|
| Sessions (`modules/auth/auth.service.ts`, `auth.repository.ts`) | refresh-token rows in families, access tokens and their blacklist, MFA challenges, reset tokens, passwords | login in one or two steps, refresh, logout, revoke one/all, forgot, reset, clean-up jobs | two requests with one token; reuse detection, reset or deletion in the middle of a rotation; a challenge that outlives the password it was given for | one live token per login; a session that is over stays over; one reset token, one reset |
| MFA (`mfa.*.ts`) | flag, secret, recovery codes | setup, confirm, disable, second step of a login | check and use are two steps; two changes at once; half a change | a used code is used up; MFA is enforced with a secret that was proven and one set of codes, and where changes met, the next one alone mends it |
| Login lock-out (`shared/security/login-attempt-tracker.ts`) | a counter and a lock in Redis, each with an expiry | check, record a failure, reset | three commands that are not one; parallel guesses; Redis away (fails open) | guesses per window are bounded; a full counter is locked; every lock ends |
| Resilience (`shared/reliability/*`) | breaker record, semaphore, FIFO of waiters | enter, retry, succeed, fail, time out, leave | late answers, microtask order, probe in half open | one probe; no waiter forgotten; every call returns |
| Lock (`shared/concurrency/distributed-lock.ts`) | one Redis key with a token and a TTL | acquire (fails open), run, release by compare-and-delete | holder outlives its TTL; crash; Redis away | nobody takes away another's key; no two within their time |
| Scheduler (`shared/scheduler/job-runner.ts`) | cron timers of each worker, attempts | fire, attempt, pause, retry, release | timers of instances fire apart; all fail open | no window without a run; every run ends |
| Idempotency (`shared/reliability/idempotency.middleware.ts`) | stored answer, lock | look up, lock, handle, store unawaited, release on `finish` | retry during and after; connection lost | only good answers are replayed; handlers exclude; late retries are replayed |
| Audit (`modules/audit/audit.repository.ts`) | chain of hashed rows, last hash | append in a transaction, verify | writers serialise on a row that may not exist yet; damage | the chain is linear; verification tells the truth |
| Exports (`modules/exports`, `shared/queue`, `workers/export.worker.ts`) | job row, BullMQ job, files, dead letters | request, enqueue or run inline, process, retry, stall | time-out of an add that arrives, stalled worker still running, crash or hang-up anywhere | status tells the truth; each export settles |
| Products (`modules/products`, `shared/utils/cache.ts`, `shared/tenant`) | rows, upgrade log, cached list, request transaction | create, upgrade, delete, list | commit after the response, invalidation before the commit, half a transaction on a lost connection | category = log; lists are fresh or die out |
| Accounts (`modules/auth/{auth,oauth,sso}.service.ts`) | users, verification tokens, linked identities, SSO states and codes in Redis | register, verify, callback of a provider, link, exchange a code, delete, erase | look up by e-mail and write later; several first logins at once; a flow that comes back twice; an erasure in the middle | one identity enters one account, of its own tenant, as long as that is not erased; one flow opens one session; nobody is left without a link unnoticed |
| Gate (`tenant.middleware.ts`, `rate-limiter.ts`, `api-key-*.ts`, `auth.middleware.ts`) | status of a tenant and its two cached copies, window counters, the key | resolve the tenant, limit, authenticate, count, refund, suspend, revoke | stale caches filled late; two counters, one given back later; Redis away (fails open) | a key acts in its tenant; quotas are kept and come to an end; a suspension takes hold |
| Rights (`permissions.ts`, `tenant-binding.ts`, `stats-scope.middleware.ts`) | role and tenant of a user, tokens that carry the role, scopes of a key | sign, authenticate, bind, permit, create and revoke a key | the token is older than the row | a right that is lost is lost with the last token, and at once for keys |
| Files and erasure (`modules/upload`, `modules/privacy`, `modules/users`) | objects, their rows, the cached profile, the state of an account | upload, delete, erase (self, administrator, daily job), read a profile | two stores without a transaction; overlaps; one account that cannot be erased | every orphan has a cause; every account that is due is erased; an erased profile leaves the cache |
| Webhooks (`modules/webhooks`, `webhook-delivery.queue.ts`, `webhook.worker.ts`) | endpoints, tasks, BullMQ jobs, what the receiver got | trigger, enqueue or deliver directly, retry, stall, revoke | dispatched before the commit; late adds; death of the process | no delivery is lost or repeated without a cause; each comes through or ends as a dead letter |
| Cache helpers (`shared/cache/cache-manager.ts`) | entries, the set of a tag, the lock of a key | get with tags, invalidate a tag, get with protection | two lives that must fit; a lock that runs out | the set outlives its keys; one caller fetches for all, until another tires of waiting |
| Keys (`encryption.service.ts`, `jwt.ts`, `env.ts`) | values deployed, values each process has read, tokens, stored secrets | sign, verify, encrypt, decrypt, rotate, restart, retire | processes restart one by one | no valid token is refused by a process that knows its key; what is stored stays readable |
| Processes (`server.ts`, `worker.ts`, `shutdown-guard.ts`, `redis-shutdown.ts`, `tenant-context.ts`) | phase of the shutdown, requests, the pool's connections, heartbeats | signal, close, disconnect, quit, force; begin, nest, commit; beat | nested transactions on a small pool; idle connections; stores that do not answer | nobody waits for ever; only the last deadline cuts a request; the process ends |
| Health (`modules/monitoring/health`, `queue.metrics.ts`) | probes, failures in a row, the gauge | check three dependencies, time out, scrape | time-outs that race; a heartbeat another process reads | what is optional does not take a pod away; trouble is noticed; the gauge follows the workers |
| Feature flags, dashboards, reporting, wiring, … | | | | not modelled: section 8 and `PROJECT.json` "components" |

## 3. Modules and code

A module is one component; its actions carry the names of the code's functions where
there is one, and its variables the names of its fields. Variables marked *history* in a
module are not state of the program: they remember what a property speaks about, and do
not influence what the program's actions do (`damaged` also bounds the damage to one row).

**AuthSession** (abstract: **SessionLifecycle**). A request is a process; `req` is the
repository call it awaits, with the values it has read. The actions `Login…`, `Refresh…`, `Logout…`,
`Revoke…`, `Forgot…` and `Reset…` are the awaited calls of the functions of those
names; the statements that look again (`revokeRefreshTokenIfActive`, and
`deletePasswordResetToken`, which throws when the row is gone) decide races as they
do in PostgreSQL. `Abort` is a request that dies between two calls, `Tick` is the clock,
`Cleanup…` are the scheduled deletions. A password is its version number; `password` in a
refresh row is the version its login was made with (a ghost: the row has no such column;
it is what `OldPasswordsDieOut` asks about). A login of an account with MFA ends in a `challenge`
(`LoginChallenge`), a signed token of five minutes that opens sessions as often as it is presented with a
good code (`VerifyMfaLogin`, `MfaUser`); which codes are good is the business of MfaEnrollment, so any attempt
may succeed. `SwitchMfa` turns the second factor of an account on or off. *SessionLifecycle* says: a session is unborn,
then live, then over. It is implemented with one family per session, live while it has an
active token **or** a rotation between its two writes.

**AccountEntry**. `user`, `link` and `token` are the rows of users, of linked identities and of
verification tokens; `states` and `exchange` the Redis keys of the SSO flow, which are taken once
(`GETDEL`). `Register` → `CreateUser` → `IssueToken` → `SendToken` is a registration;
`LoginWithProvider` and `HandleCallback` begin the path `FindByIdentity` → `FindByEmail` →
`LinkIdentity` → `IssueTokens` of OAuth and SSO. A unique index makes the second of two equal
inserts fail (`BreaksOff`). `DeleteUser` leaves the row with its address and its links; `EraseUserData` is the transaction
of `privacy.repository.ts` as far as the ways into an account go: the address is given up, links and tokens go (what it
does to files and profiles is in UserData).

**CircuitBreaker**, **Bulkhead**, composed in **ResilientCall** (constant of both:
**Callers**). The breaker's `Admit`, `Succeed` and `Fail` are the synchronous parts before
and after `await fn()`; the bulkhead's `EnterFree`, `Wait`, `Resume` and `Leave` the parts
around its promise. `woken` are the waiters whose promise is resolved and whose
continuation is still queued: a new caller may come in between. ResilientCall adds the loop of
`withRetry`. It implements both modules, with their fairness (`ImplementsItsParts`).

**DistributedLock**, extended by **JobRunner**, **Idempotency** and **CacheStampede**. Time is what is left of
the key's TTL and of each holder's own time, so no clock has to be bounded.
`AcquireFailsOpen` is `acquireLock` when Redis throws: the caller runs without the key.
`Release` covers an answer from Redis, an error, and a key that has passed on. JobRunner
adds the cron windows and `MAX_ATTEMPTS`; Idempotency the look-up, the handler, the
unawaited `SET` (which leaves on the same connection before the release, hence the
order of `Store` and `Complete`) and the connection that closes without `finish` (`Hang`).

**CacheTags** and **CacheStampede** are the two helpers of `cache-manager.ts`: in the first a call
stores its entry and registers its key in the set of the tag in a later step (the pipeline of
`SADD` and `EXPIRE` is one), while `InvalidateTag` finds, deletes and drops in three; in the second
the callers that miss take the lock, look again, fetch, or wait `STAMPEDE_MAX_WAIT_RETRIES` times
and then fetch by themselves, whatever the holder of the lock is doing (`gaveUp`). Both are complete, although no route uses them yet; **CacheManager** is the two together.

**MfaEnrollment**. Each Prisma statement is an action. An array passed to `$transaction`
runs at READ COMMITTED, so `deleteMany` removes the rows it saw when it ran: the two
halves of `replaceRecoveryCodes` and of `disableMfa` are a `…Delete` that reads and a
`…Commit` that applies. A confirmation (`ConfirmRead`, `Replace…`, `ActivateMfa`) has `proven` the secret it read;
`swapped` says that a setup has since put another one in its place, and `disturbed` which changes have met: a
disable and a confirmation (*crossed*), two confirmations (*doubled*), or a death between two steps (*cut*).

**LoginAttempts**. Each Redis command is an action: `CheckLock`, the comparison, `INCR`,
`EXPIRE`, `SET … EX`, `DEL`. `CheckFailsOpen` and `GiveUp` are Redis or the process failing.
The in-memory variant for a server without Redis runs synchronously in one process and is left out.

**RequestGate**. A request is `plain`, `key` or `keyed` and walks through `tenant`, `limit`,
`auth`, `status`, `gateway` to `handling`, in the order of the middlewares. A cached read is three
steps (`CacheHit`, or `CacheMiss` and `CacheFill`); `UpdateStatus` changes the row and leaves two
entries to `Invalidate`. `Finish` gives a hit back, into whatever window is current by then (`late`).

**AccessRights**. A login or refresh reads the role (`ReadUser`) and signs it into a token later
(`SignToken`); `Bind` and `FindOwner` read the row again, `Permitted` looks at the role of the token
and the scopes of the key, `PlatformScope` decides about statistics of the whole platform.
`ChangeRow` is external: no code changes role or tenant of a user, operators do.

**AuditChain** (abstract: **AppendOnlyLog**). `SelectForUpdate` takes the lock of the state
row if the row exists (on an empty table nothing is locked, as in the code),
`Insert` stands for the two inserts, `Commit` publishes, `Rollback` undoes. A hash is the
sequence of entries it covers, which is what "no collisions" means. `Verify` is
`verifyChainIntegrity`: forked, broken or unvisited rows fail it. `Alter` and `Lose` damage
a row behind the trigger's back.

**TaskQueue**, extended by **ExportJobs** and **WebhookDelivery**. TaskQueue is BullMQ as the code configures it:
arrival, taking, stalls up to `maxStalledCount`, attempts, dead letters. `Exports` and `Hooks` are the tasks that
belong to the one and to the other: a webhook's task is a change and an endpoint. ExportJobs has
the request (`Create`, `Add…`, inline fallback in the request's transaction: `draft`),
the steps of `processExportJob` run by a worker or by the request, and the deaths of both. When the client hangs up
during the inline run (`HangUp`), the middleware commits what the request has written so far, and the run goes on with a
transaction that is `Closed`, as it does when the transaction is rolled back after its time-out (`RollBack`): its later
writes fail (`CutOff`).
WebhookDelivery has the transaction of the change (`WriteChange`, `CommitChange`), the dispatch nobody waits for, the
tasks of the endpoints found (`Enqueue…`: an add may be skipped, arrive, be refused, wait, and time out although it
arrives), their delivery by a worker or (`DeliverDirectly`) by the API process, and the deaths of both.

**UserData**. The keys of the object storage and the rows of `FileUpload` are two sets that
two steps of one handler change; `listed` are the files an erasure found at its
beginning, `todo` the objects it has still to delete. The daily job is a process of its own that goes
through the accounts that are due (`batch`) and passes over those that fail.

**ProductCatalog**. A request holds a transaction from `Begin` to `CommitOnFinish`/`RollBack`; its
writes are visible to others only after, and lock the row until then. `HangUp` is the
`close` event, on which the middleware commits what has been written so far. The cache is
one key of `getOrSetCache`, filled in three steps (get, fetch, store) that others interleave.

**ServerProcess** follows `shutdownImpl` (`draining`, `disconnecting`, exit) among requests that
hold a connection of the pool (`outer`), want a second one (`inner`, `runInTenantTransaction`), and
answer before they commit. **WorkerHealth** has the beats of `worker.ts`, the shared key, and the gauge of
`queue.metrics.ts`; **Readiness** the three checks of `/ready` with their time-outs inside the one of
the probe of the Helm chart.

**KeyRotation**. `deployed` is what the operator has set, `env` what each process has read when it
started; a token has the key that signed it and an age. `Rotate`, `Start` and `Retire` are the steps
of the runbook.

The modules `MC…` give TLC its small instances. Each holds the modules that answer one kind of question; a
behaviour of a suite is a behaviour of **one** of them (the variable `part` says which, and never changes), and the
variables of the others keep their initial values. A suite extends the modules it holds, so that what TLC checks is the very
definition the proofs are about; where it needs a second instance of one it takes that with `INSTANCE` (MCAuthSession
for all parts but *sessions*, MCTasks for the daily erasures of UserData), and a property of the suite with the name of a
module's property is then that property of that part. Fairness
is stated per part. The modules `…Proofs` hold the theorems, each for components that belong together.

Operators named in a comment "Mutant: …" are plausible bugs of the definition below them
(a dropped guard, an off-by-one, a swapped order). They are used by no specification;
`PROJECT.json` "mutants" lists which property each one breaks, which is how we know the
properties look at the code.

## 4. The runs

| Run | Asks | Instance | States |
|---|---|---|---|
| `auth_sessions` | Is each login one chain of tokens with one live end that never comes back, does each password change consume a reset token of its own, do sessions of old passwords die out? | 1 account, 3 token rows, 2 links, 1 challenge, 2 requests; part *sessions* with the absolute deadline before the refresh token's, part *passwords* with the reverse and one row fewer, part *factors* with logins in two steps and changes of password, part *signOuts* with a clock that goes past the life of access tokens, logouts and the clean-up of the blacklist | 573 436 |
| `auth_reuse_race` | (violation) Does reuse detection kill the family? | 3 rows, 2 requests, logins and refreshes only | finding 1 |
| `resilient` | Do bulkhead, retry, breaker and time-out keep their own protocols when composed, and does each call return? Does a server serve and end? | *calls*: 3 callers, 1 slot, queue of 1, 2 attempts, threshold 2, time-out 1 < reset 2, clock to 4; *server*: 2 clients, pool of 2 | 74 807 |
| `resilient_status` | (violation) Does a provider that only answers errors open the breaker? | the same calls, clock to 3 | finding 2 |
| `changes` | Do readers, caches, tokens, storage and monitors follow what changes? | *audit*: 4 writers on an empty table, one damaged row; *catalog*: 3 requests on 1 product, 3 categories (all there are); *keys*: 3 processes, 2 columns, 3 values; *rights*: 1 request, 1 tenant, tokens of 2 ticks; *workers*: 2, stale after 3 beats; *ready*: time-outs and threshold of the code and the chart; *files*: 1 user, 2 files, 2 requests | 640 319 |
| `upgrade_cut` | (violation) Is an upgrade one transaction? | 3 requests, 1 product | finding 4 |
| `key_rotation` | (violation) Do stored secrets stay readable? | 2 processes, 1 column | finding 6 |
| `limits` | Are guesses and requests limited, locks and windows ended, keys kept to their tenant, suspensions effective? | *attempts*: 2 at a time, limit 3, window and lock of 2 ticks; *counting*: 2 requests, quotas of 1, no command of a counter refused; *suspending*: 2 requests with a key, both statuses, Redis failing | 147 681 |
| `tasks` | Does work that outlasts its request end, and do rows and receivers agree about it? | *exports*: 1, 2 worker slots, 2 attempts, 1 stall (the code's values); *webhooks*: 1 change, 1 endpoint, the same queue; *accounts*: 2 users, one of whom cannot be erased | 154 963 |
| `webhook_facts` | (violation) Are receivers told what has been committed? | 1 change, 1 endpoint | finding 3 |
| `requests` | When several want the same thing: are answers replayed rightly, runs exclusive, windows served, fetches shared, codes used up, enrolments whole, identities one account? | *idempotency* and *jobs*: 3 processes, TTL 2, 2 windows, 2 attempts; *stampede*: 3 calls, TTL 2, 2 retries; *tags*: 2 calls, 1 invalidation, 2 keys with lives of 1 and 2; *mfa*: 3 requests, 2 secrets, 2 sets of 1 code; 2 requests, 2 addresses, 2 accounts, with 1 identity of a provider (*consuming*) or with 1 of a tenant (*provisioning*) | 473 347 |
| `idempotent_twice` | (violation) Is a handler run once when nothing fails? | 2 requests with one key | finding 5 |

State counts are distinct states over all parts, up to symmetry where the configuration declares it (only in suites
whose properties need no fairness: `changes`, `requests`, `auth_sessions`). Every passing run ends with nothing left
on the queue.

**What each property says** is the comment above it. In short:

* sessions: `OneLiveTokenPerFamily`, `FamilyAgrees` (no chain of refreshes moves account, authentication or
  absolute deadline), `LoggedOutStaysOut` (clean-up of the blacklist never readmits a token), `ImplementsLifecycle`;
  `EveryResetUsesItsToken`, `OldPasswordsDieOut` (what rests on an old password never becomes more, but by the second
  step of a login whose challenge is still good);
* accounts: `LoginsStayApart` (one identity, one account that is not erased, of its tenant; one flow, one session),
  `UnverifiedHasALink`;
* resilience: `HalfOpenIsOneProbe`, `NobodyIsStranded`, `AttemptsAreOrderly` (attempts of one call follow each other
  inside its slot; only calls from before a breaker opened close it early), `ImplementsItsParts`, `EveryCallReturns`;
  `ServerServesAndEnds` (only the last deadline cuts a request, nobody waits for ever for a connection that others
  hold, the process ends);
* lock: `MutualExclusion` (of two runs within their TTL); jobs: `NoWindowIsSkipped`; idempotency: `ReplaysAreGood`, `LateRetryIsReplayed`;
* second factor: `SpentCodeIsRefused`, `EnrolmentIsWhole` (each part of an enrolment is whole unless the one kind of
  overlap that can break it has happened, and a change that meets no other mends everything); lock-out: `GuessesAreLimited` (a bound on guesses, and a
  full counter is locked), `LocksAreBrief` (only a burst locks out, and each lock ends);
* gate: `KeyActsInItsTenant`, `QuotasAreFair` (no address gets more than its quota, no key is shut out for ever),
  `SuspensionTakesHold`; `RightsFollowTheRow`; `RotationLogsNobodyOut`;
* audit: `VerificationTells` (accepts what is whole at each moment, rejects what is damaged), `ImplementsLog`;
* tasks: `OneRunAtATime`, `RowsTellTheTruth`, `EveryExportSettles`; `DeliveriesAreAccountedFor`, `EveryWebhookSettles`;
  `NoFileIsForgotten`, `ErasureComesToAnEnd`;
* caches and monitors: `CatalogIsCoherent`, `CacheHelpersHold`, `GaugeFollowsWorkers`, `RoutingFollowsReadiness`.

The `TypeOK` of a module documents its variables. The strengthenings (`RotationInvariant`, `LockInvariant`,
`DeliveryInvariant` and the others that section 6 names) and the bounds `QueueIsBounded` and `ClosedBelowThreshold`
are proved and need no run.

**Why the bounds are enough.** Each is the smallest that contains the case the property is about and one more
actor to disturb it. Two requests that rotate and a third row for the heir; two links so that one reset can
lag behind another; three callers for one slot and a queue of one, so that one runs, one waits, and one comes
in between or is refused; a reset time beyond the time-out by one; a clock that opens, probes and reopens
once; two requests on a pool of two, so that each holds what the other wants; three workers, so that one outlives its
lock, one takes it, and one comes after; limit three with two attempts in flight, so that the limit can be overshot;
four writers, so that a chain of two is extended by two that contend; three processes and three values, so that one is
restarted late, one early and one never, in two rotations; two users, so that the one who cannot be erased stands
before the one who can; two accounts and two addresses, so that an identity may come with either; a clock that goes one
tick past the life of an access token, so that a blacklist entry is dropped and its token presented again. Exports, webhooks,
products and readiness use the code's own numbers. `MaxTime`, `MaxWindow`, `MaxCount`, `MaxHits`, `MaxKey`, `MaxSecrets`
and `MaxSets` only cut off counters that grow for ever; `CHECK_DEADLOCK FALSE` is set where such a cut, or the end of all
requests, stops the model.

## 5. Fairness, and why the code justifies it

Weak fairness, where nothing else is said.

* *ResilientCall*: an attempt's end (every attempt is inside `withTimeout`),
  the retry after its pause (`setTimeout`), a woken waiter (a queued microtask), the return.
  None is assumed of new callers or of the clock. The fairness of the abstract breaker and bulkhead is *shown*.
* *ServerProcess*: the end of a wait for a connection (`maxWait`), the end of a transaction that is answered or too old
  (`timeout`), the time-out of `QUIT`, `$disconnect`, and the exit after both. No handler has to answer: what does
  not is ended by the two deadlines.
* *JobRunner* has a fair specification (an attempt that has begun goes on, time passes) for what its invariant does not need.
* *LoginAttempts*: time passes, and a recording attempt gets its Redis answers (the client
  bounds them, and a refusal is the `GiveUp` action). No user has to stop guessing.
* *RequestGate*: a request goes on or its client hangs up; Redis expires what it has set an expiry for. No administrator
  has to do anything, and no deletion from the cache has to succeed.
* *ExportJobs*, *WebhookDelivery*: requests and runs in progress, a worker's verdict and the
  stall check of an abandoned job (BullMQ's periodic check); strong fairness of a free worker
  taking a waiting job, as each worker polls but others may take it first. No death or failure is fair.
* *UserData*: the job is started (cron) and goes on, requests in progress go on, and a cached profile expires. The erasure
  of a stubborn account fails for ever.

All other modules make no liveness claim: nothing in them has to happen without a client.

## 6. What is proved

All theorems hold for every value of the constants that meets the named assumptions of
its module (lifetimes are naturals, thresholds positive, identities distinct); the
bounds of section 4 play no role in them. `MaxTime` only restricts the clock, and no proof
uses it.

* **AuthSessionProofs** — `TypeCorrect`, `RotationCorrect` (`RotationInvariant`),
  `SingleLiveToken`, `DeadlineIsAbsolute`, `SessionsImplementLifecycle`. That a family has one live token
  is not inductive: a rotation that has revoked its token and not yet stored the
  next would be free to meet another. `OneHeirPerFamily` is the missing part: the right
  to store the next token lies with one active token *or* one pending rotation.
  `RotationsKnowTheirToken` and `RotationsAgree` say that what a request read before its
  `await` still fits the rows after it, also when clean-up has deleted them. The refinement
  maps each step to the birth of a session, to the end of a set of them, or to a stutter.
  `RevokedFamiliesEnd` says how far the claim that `auth_reuse_race` refutes does hold: who revokes a family ends
  it for good, unless a rotation of it is in transit between its two writes, and while the family has an active
  token none is (`OneHeirPerFamily` again). "For good" is the refinement.

  `LogoutIsFinal`: an entry leaves the blacklist only when its token has expired.
  `ResetsUseTokens` (`ResetInvariant`): a request between the look-up of a reset token and its commit
  holds a token of the account it will change, if the token is still there; the count of used tokens
  then moves with the password. `OldSessionsFade`: sessions, challenges and requests that rest on an old
  password never become more, except that a challenge given before the change may be redeemed (`SecondStepOfOld`): a step that stores
  such a session takes a request of the old password away, a rotation the other way round (`RequestToSession`,
  `SessionToRequest`), and a challenge comes only from a request that has checked the old password; a change of password revokes
  all sessions of the account. The last two count, and need finitely many tokens and requests (`RowsAreFinite`) and
  the library's theorems on cardinality.
* **ResilientCallProofs** (CircuitBreaker, Bulkhead, ResilientCall, ServerProcess). Of the breaker `ProbeCorrect`, `OneProbe` and
  `ClosedIsBelowThreshold`: one probe rests on `CallTimeout < ResetTimeout`, which every preset of `policies.ts` meets
  and nothing in the code enforces; calls admitted before the breaker opened have timed out
  by the time it probes. Without the assumption the property fails. Of the bulkhead `CounterCorrect`, `QueueBounded`
  and `NoLostWakeUp`: the counter is the number of running calls and the two queues hold the waiting and the woken
  callers, each once. The invariant deliberately does not bound the counter by `maxConcurrent`: see 7.
  `CallsKeepBothProtocols` shows that each step of the composition is a step of each module or leaves it alone, which
  gives it their invariants; `ResilientCorrect` (`ResilientInvariant`) ties a caller's place in the bulkhead to its
  attempt, and `AttemptsStayOrderly` follows. `RequestsAreNotCutShort` (`ShutdownInvariant`): before the process ends
  nobody has been cut, and once the stores are being closed every connection of a client is closed and none opens again.
  `NoConnectionLeaks` (`PoolInvariant`, for any pool, `PoolIsNumber`): who is served no more holds no connection of
  the database, a nested one is held only beside an outer one, and no more are held than the pool has.
* **LockProofs** (DistributedLock, Idempotency, JobRunner, CacheStampede, CacheTags). `LeaseIsSafe`, `LockExcludes`:
  `LockInvariant` adds to the lease that a key that exists has time left; two leases would both own the key. The steps
  of the three users are steps of the lock or leave it alone (`…StepsOfTheLock`), so `LockInvariant`, and with it
  `LockExcludesUsers`, come from there. `OnlySuccessIsReplayed` and `RetriesAreReplayed` follow an answer: as long as
  nothing was lost, that of each success is in Redis or its request is about to send it (`AnswersArrive`), and then it
  still holds its call of `withLock` (`HandlersRun`); so whoever begins after a success is over finds an answer, and
  never comes near the handler (`LateRetriesSkip`). `EveryWindowIsTaken` (`JobInvariant`): whoever holds the key in a
  window, or has fired in it and let it go, vouches for a run in it (`WindowsAreTaken`); it needs a worker (`Clients # {}`).
  `CacheHelpersAreRight`: while nothing goes wrong in a round, those who look or fetch under the lock hold a lease,
  whoever fetches under it is the only one that began to, and when it is no longer at it the value is cached
  (`RoundIsSound`); whoever fetches without the lock has waited in vain, and the round knows it (`Counted`);
  the set of a tag outlives its entries under `TagOptions`, that the lives of the keys of one tag differ by no more than
  the spare 60 s, which the code leaves to callers it does not have yet.
* **AccountProofs** (MfaEnrollment, AccountEntry). `SpentCodesAreRefused` (`SpentInvariant`): a used code is marked or
  its row is gone, and it never comes back (`SpentIsGone`); what a search under way remembers as used has been used
  (`SearchesRemember`). `EnrolmentsAreWhole`: `Parts` says for each kind of trouble what it cannot
  break: without a crossing the secret in force was proven or swapped by a setup (`NotCrossed`), without doubling the
  codes are of one set (`NotDoubled`), without a crossing or a cut the factor is enabled exactly when it has codes
  (`NotCut`). Each step is one of ten kinds that say what becomes of the changes under way (`WhatAStepIs`: `Checked`,
  `Seen`, `Replaced`, `SwitchedOn`, …), and a change that meets no other ends with everything in order, whatever
  came before it. `LoginsEnterOneAccount` (`LoginInvariant`): calls know what they have found (`CallsAreSound`), links
  stay in their tenant, each code and each session stands for an account that exists, admits its identity, and is the one
  that identity is linked to or is erased (`Stands`); nothing but an erasure takes away what a login has found (`RowsStay`);
  and a flow is in one place, its state, its call, its code, or spent (`FlowsAreInOnePlace`).
  `UnverifiedKeepALink`: who has no link is a registration under way or `stuck`.
* **ChangeProofs** (KeyRotation, AccessRights, WorkerHealth, Readiness). `RotationIsSeamless` (`RotationPhase`): between
  rotations one value is in use, during a rotation two, and each process has what is deployed or has yet to restart.
  `SecretsOfDeployedKeys` draws the line that finding 6 crosses: a secret whose key is deployed, as active or as
  previous, is readable to every process with that key or a newer one, and the oldest deployed key changes only when
  the previous values are taken away.
  `RightsStayCurrent` (`RightsInvariant`): what the history says of now is the row (`NowIsNow`), whoever has or is about to
  get an administrator's token was one no longer ago than its life (`TokensAreRecent`), and a request is handled for a
  reason that the row gave when it was asked (`RequestsAreSound`).
  `GaugeIsRight` (`WorkersInvariant`): a beat is at least as old as the last running worker, in Redis or on its way
  (`BeatsAreOfRunners`); when a worker has been steady for a tick nothing old is on its way, and when it has been
  steady for longer than since its last beat, that beat has arrived or is about to (`SteadyHasBeaten`); it needs a stale
  time longer than the pause between beats. `RoutingIsRight` (`ReadyInvariant`): a probe that has seen nothing amiss has
  spent no time on the database and no more than the optional time-out on the rest (`ProbesAreInTime`), and each probe
  with a reason to fail has failed (`FailuresAreCounted`); it needs the optional time-out below that of the probe, which
  is what the constants of `health.controller.ts` are for.
* **QueueProofs** (TaskQueue, ExportJobs, WebhookDelivery). `ExportsCorrect` (`ExportInvariant`): who runs an export,
  where its BullMQ job is and what its row says fit together at each of their steps; a row that a hang-up has committed
  while its request works on it is owed that work, and no longer when the work ends (`Owing`); `OneRunUnlessRepeated`,
  `RowsAreTrue` and, of steps, `CompletedForGood` follow. `ExportsAreInHand` (`QueuedInvariant`) is the safe half of
  `EveryExportSettles`: an accepted export that is not settled, and that nothing hit that nobody retries, is with its
  request, with its job or with a runner. While a row says QUEUED no worker is past its first step, so none can have
  given the job back (`QueuedIsDue`). `DeliveryIsInvariant` (`DeliveryInvariant`) is the same for
  webhooks: jobs and calls are sound and have a hook of their change (`CallsHaveHooks`), a change goes through its
  transaction and its dispatch in order (`ChangesAreOrdered`), hooks that were not found are idle, what has ended has
  come through or is a dead letter (`EndsAreTrue`), and what was found is in hand: with a job, with a call, or on its
  way (`FoundAreInHand`; a job that is only sent is not relied on, its arrival may be late). `OneSideDelivers` keeps the
  two paths apart unless an add timed out. `DeliveriesStayAccountedFor` follows.
* **DataProofs** (AuditChain, UserData, ProductCatalog). `ChainCorrect` (`ChainInvariant`), `ChainNeverForks`,
  `ChainImplementsLog`: at most one writer is past its SELECT and has read the state that still stands; every row is a
  prefix of what the state stands for; this holds until two writers have both found an empty table.
  `VerifyAcceptsChains`: whatever finite table there is, verification accepts it exactly if it is one chain of sound rows
  from the first hash on, none left over (`IsChain`). `Walked` is a recursive function; what a walk does is proved from
  its equation and, where an induction would be, from the least number at which it would go wrong (`LeastNumber`, from
  the library's well-founded order of the numbers): a walk goes on as long as it meets a sound row (`VisitGoesOn`)
  and, since a hash names one prefix, meets each row once (`WalkCovers`). `DamageIsTold` follows with
  `ChainInvariant`: an intact table is a chain (`IntactIsChain`), and each way of damaging it leaves a row that is not
  sound or a place of the chain that no row has (`DamageShows`); the loss of the last row counts once the chain has gone on.
  `FilesAreRemembered` (`DataInvariant`): a file in the storage has a row, a request or an erasure that is about to deal
  with it, or one of the causes that the property names (`WalksAreSound` says what the erasures have in hand).
  `ErasureIsOneWay` is the safe half of `ErasureComesToAnEnd`: the retention job erases only accounts that are due,
  drops none it could erase when others fail, no account comes back, and once one is gone its profile enters the
  cache only by using up a request that was reading it. It needs that the job is not one of the requests (`JobIsNoRequest`).
  `CatalogStaysCoherent` (`CatalogInvariant`): locks exclude (`LocksExclude`, `CreatesExclude`), so a request changes what
  it read (`ReadsHold`) and the log has what the row shows (`UpgradesAreLogged`); a list that is about to be
  stored, and that no write came across, is the committed one, and nobody has changes to commit (`ListsAreFresh`), and as long as a
  list no write came across is cached, no writer has passed its answer without invalidating it (`ChangesInvalidate`).
* **LimitsProofs** (LoginAttempts, RequestGate). `TrackerTypes`, `GuessesStayLimited`: while nothing fails,
  `CounterEnds` (a counter has a TTL or is about to get one) and `LockOutlives` (a full counter that nobody is about
  to lock is locked for at least as long as it lives, also when its `EXPIRE` comes after the lock) carry the lock over
  the ticks; it needs `LOCK_DURATION_SECONDS >= ATTEMPT_WINDOW_SECONDS`, which the constants of the code meet.
  `CountIsPaid` is the bound: beyond the limit, each guess is one of an attempt that is on its way to lock, and under
  the lock one of an attempt let in before it. `LocksHaveAReason` (`BurstInvariant`): what a counter counts is no
  older than the counter (`CountIsRecent`), and whoever is on the way to lock has seen it full (`LockersSawBurst`).
  `KeysStayInTheirTenant` and `QuotaOfAddressHolds` come from `GateInvariant`: a key that has been authenticated is
  bound to the tenant of its request (`KeysAreBound`), and what an address has been charged in a window is at most
  what its counter says and what refunds of earlier windows took off it (`ChargesAreCounted`).
  `SuspensionWearsOff` is about the steps `SuspensionTakesHold` rests on: while a tenant stays suspended, the stale
  reads of its status only get fewer, a cached status turns stale only by using one up, and nobody enters
  the tenant without a stale read or a stale entry.

Of the properties that the passing runs check, every invariant and every action property is proved, and so are
the safety parts of those that also promise liveness. Only model-checked is liveness, for which the prover has no rule
with fairness. What is proved of each such property:

| property | proved of it | left to TLC |
|---|---|---|
| `EveryCallReturns` | `ResilientCorrect`, `NoLostWakeUp`: while one waits, another is inside or on the way in and will wake it | that it ends |
| `ImplementsItsParts` | `CallsKeepBothProtocols`: the steps | the fairness that is passed on |
| `ServerServesAndEnds` | `RequestsAreNotCutShort`, `NoConnectionLeaks` | that nobody waits for ever, and that a quiet shutdown ends |
| `LocksAreBrief` | `LocksHaveAReason` | that a lock ends |
| `QuotasAreFair` | `QuotaOfAddressHolds` | that a quota is renewed |
| `SuspensionTakesHold` | `SuspensionWearsOff`: what could let a request in only gets used up | that it is used up |
| `EveryExportSettles` | `CompletedForGood`, `ExportsAreInHand` | that whoever has it in hand goes on |
| `EveryWebhookSettles` | `DeliveriesStayAccountedFor`, `DeliveryIsInvariant` (`FoundAreInHand`) | the same |
| `ErasureComesToAnEnd` | `ErasureIsOneWay` | that the job runs and the cache expires |

## 7. What the work found

Six claims of the repository's own comments and documents are refuted, each by a run:

1. `auth_reuse_race`: "cabut seluruh RANGKAIAN (family)" (auth.service.ts:468). A reuse that is
   detected between the two writes of a rotation (auth.service.ts:512 and :522) revokes a family
   that has no active row at that moment; the rotation then stores one, and the family
   lives on. What does hold: the family has one live token at most, it can end again, and a detected reuse
   ends it for good in every other case (`RevokedFamiliesEnd`).
2. `resilient_status`: the breaker opens after `failureThreshold` failures in a row
   (circuit-breaker.ts:18, policies.ts:57-58). The providers call `resilientCall` around `fetch`
   alone and look at `response.ok` afterwards (resend-email.provider.ts:49), so a provider that answers
   each call with an error status is a success to breaker and retry.
3. `webhook_facts`: a webhook tells of what "SUDAH terjadi dan SUDAH sukses" (webhook.service.ts:88-93). It is dispatched
   before the transaction of its request commits (product.service.ts:164), which may yet roll back.
4. `upgrade_cut`: category and log of an upgrade are atomic (product.repository.ts:162-185). A client that hangs up between
   the two statements makes the middleware commit the first alone (tenant.middleware.ts:143).
5. `idempotent_twice`: a second request is answered "TANPA menjalankan handler lagi" (idempotency.middleware.ts:16-21). The cache
   is read before the lock and not again under it, so a retry that missed it just before the first one finished runs the handler.
6. `key_rotation`: "token/data lama tetap valid" (docs/runbook.md:87-91). Nothing encrypts stored columns anew, so what was
   stored before a rotation is unreadable once `ENCRYPTION_KEY_PREVIOUS` is emptied, or after the next rotation
   (encryption.service.ts:94; docs/security-guide.md:111-118 says so, the runbook does not).

Behaviours the code allows, which the models have and the properties therefore state their limits with:

*Sessions and accounts*
* two requests for a forgotten password may leave two valid links (auth.service.ts:678);
* a challenge of the second step outlives a change of password: whoever had the old password and has the second factor may
  open sessions with it for up to five minutes after a reset, which revokes the sessions there are and not the
  challenges (auth.service.ts:250-252, 266-304); it is not used up (jwt.ts:98-102 speaks of one use), so it may open several;
* an access token stays good after its account is erased, so that an upload may create rows for an erased
  account (`tardy` in UserData), and an erasure leaves the cached profile to expire (up to 300 s) and exported files where they are;
* a registration whose mail or token fails leaves an account without a link (`stuck`): the schema speaks of
  `AuthService.resendVerification`, which does not exist; the address of a deleted user cannot be registered again until
  the account is erased, which frees it (privacy.repository.ts:46);
* an erasure deletes the links of the account (privacy.repository.ts:64-65), so its identities come to another account with
  their next login; one whose login is under way may still get a session of the erased account, or be linked to
  it, and is then locked out, as the account it belongs to is never found again (oauth.service.ts:195, sso.service.ts:332-339);
* the doc of `refresh` says a reuse revokes all sessions of the user, the code revokes the family only;
* `verifyMfaChallenge` has no fallback to the previous secret, and a process that is not yet restarted refuses tokens of those that are;
* "the secret is proven before MFA is enforced" (mfa.service.ts:31-43) holds of an account that enables it; a setup over
  an active second factor puts a secret in force that nobody has proven (:58-59, `swapped`);
* a disable in the middle of a confirmation leaves MFA enabled without a secret, or codes without MFA (:90-97); two
  confirmations may leave two sets of codes (mfa.repository.ts:61); a death between the steps of a confirmation leaves
  codes without MFA. `EnrolmentIsWhole` names these as the only ways, and that the next confirmation or
  disable that meets no other mends it;
* two overlapping logins may both use one recovery code (mfa.service.ts:126-132);
* a process that dies between `INCR` and `EXPIRE` leaves a counter that never expires
  (login-attempt-tracker.ts:110);
* routes that decide by ownership do not consult the scopes of a key; a key that was created in a tenant a (former)
  administrator had chosen stays bound to that tenant.

*Concurrency and time*
* a late success of a call admitted before the breaker opened closes it at once (circuit-breaker.ts:108);
* a caller that arrives between a wake-up and its continuation takes a slot too, so
  `maxConcurrent` may be exceeded (bulkhead.ts:69);
* a job may run twice in one window, when one timer fires after the other's run has released
  the lock (job-runner.ts:49; the jobs are idempotent deletions);
* a request whose connection closes holds its idempotency lock to the end of the TTL (idempotency.middleware.ts:122);
* requests that each hold a connection and want a second may exhaust the pool; `maxWait` (10 s) resolves it by failing one of them
  (tenant-context.ts:182);
* a key registered between `SMEMBERS` and `DEL` of an invalidation loses its tag, and a shorter TTL shortens the life of the set
  of a tag, below that of keys it lists if they differ by more than the spare 60 s (cache-manager.ts:58-62, where the
  comment says otherwise; `TagOptions` rules it out);
* a caller that has waited 2 seconds for the value of another fetches it too, although that one may be at it well within the
  time of the lock, which is that of the entry (cache-manager.ts:151-170): one fetch for all (23-30) is a promise for
  fetches of less than 2 seconds;
* the comments of retry.ts and policies.ts speak of minutes between BullMQ's attempts; the configured back-off is 2, 4, 8 and 16 s.

*Data and messages*
* the first two writers of an empty audit table may fork the chain (audit.repository.ts:86), and the
  loss of the last row shows only once another is appended (:180);
* the tenant middleware commits after the response, also after an error response, and on `close` what the handler has
  written so far; caches are invalidated before (product.service.ts:161);
* an upgrade that is checked against a category that another is about to raise may lower it
  (product.service.ts:148);
* a client that hangs up while its export runs inline makes the middleware commit the row as it is (tenant.middleware.ts:141-145);
  the run's later writes meet a closed transaction (tenant-context.ts:201-210), so that the row stays QUEUED or PROCESSING for
  good, against export.service.ts:134-138. The properties of exports exclude it by name (`lost`, set in `CutOff`);
* an export whose process dies between the commit of its row and the add of its job stays
  QUEUED (export.service.ts:82); a webhook whose process exits before its add, or in a direct delivery, is lost;
* a file uploaded between the listing and the deletion of an erasure stays in the storage without a row (privacy.service.ts:76).

*Processes*
* `server.ts` stops listening right after it is set to shut down, so that `/ready` hardly ever answers 503 for that reason;
* a worker neither waits for a cron job in progress nor closes the export worker before its Prisma client;
* a hung job does not stop the heartbeat of its process, although a comment speaks of workers that are dead *or hanging*; the gauge keeps its
  value while Redis is away; the stale time is three intervals exactly, not more.

## 8. What is not modelled

`PROJECT.json` "components" lists every part with its status and reason. In short:

* *external, modelled from its use*: PostgreSQL's isolation and row locks, Redis commands and
  expiry, BullMQ's delivery, object storage, operators, each marked external in the map;
* *one statement each*: creation and plans of tenants, feature flags, profiles, registration of webhook endpoints,
  listings; they read or write one row and invalidate one key in the way the modelled ones do;
* *the same again*: events (as products), limiters of tenants and logins (as that of an address), the e-mail and
  notification queues (as the webhook queue without its fallback's duties);
* *out of scope*: cryptography (a hash has no collisions, a TOTP matches or does not, a key fits or does not),
  row-level security, rendering of files, e-mail texts, read-only aggregates, logging,
  metrics other than the gauge, validation of input shapes, wiring, OpenAPI, deployment;
* *not reached*: the in-memory variant of the login attempt tracker, clocks of processes that differ, a Redis that loses
  keys it has confirmed, discovery and signature checks of identity providers.

Abstractions that apply everywhere: identities are model values; durations keep their order but not
their size; a Redis or database command either happens or fails, at most once;
each model has one tenant, one key, one account or one product, as the code's records with different
keys do not interact.

## 9. Plan

Order of importance, done: sessions → resilience → lock, scheduler, idempotency →
MFA and lock-out → audit → exports → products → gate, rights, accounts → files and erasure → webhooks → caches →
keys → processes and health.

What is left, in the order in which it would add most:

1. the queues of e-mail and notifications on top of TaskQueue, as WebhookDelivery is;
2. the limiters of a tenant and of the login routes, composed with that of an address in RequestGate;
3. a composition of MfaEnrollment and LoginAttempts with the two steps of the login of AuthSession, so that a
   session says which code opened it;
4. clocks that differ between processes, for the lifetimes that one process writes and another reads.
