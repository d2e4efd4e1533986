----------------------------- MODULE Readiness -----------------------------
(***************************************************************************)
(* GET /ready (modules/monitoring/health) and the orchestrator that asks   *)
(* it and routes requests to the process accordingly.  PostgreSQL is       *)
(* required, Redis is not, and has two connections: that of the cache      *)
(* refuses commands while it is down, that of the queues lets them wait.   *)
(*                                                                         *)
(* The time-outs race: those of the checks, and that of the probe, which   *)
(* has the Helm chart's timeoutSeconds.                                    *)
(***************************************************************************)
EXTENDS Naturals

CONSTANTS RequiredTimeout,   \* REQUIRED_DEPENDENCY_TIMEOUT_MS, in seconds
          OptionalTimeout,   \* OPTIONAL_DEPENDENCY_TIMEOUT_MS
          ProbeTimeout,      \* readinessProbe.timeoutSeconds
          Threshold          \* readinessProbe.failureThreshold

(* The slowest answer that may be given without Redis is in time, and the  *)
(* database has a moment to answer in.                                     *)
ASSUME ProbeOptions ==
    /\ RequiredTimeout \in Nat \ {0} /\ OptionalTimeout \in Nat
    /\ ProbeTimeout \in Nat /\ OptionalTimeout < ProbeTimeout
    /\ Threshold \in Nat \ {0}

VARIABLES process,   \* the API process; isShuttingDown is set while it drains
          db, store, \* whether PostgreSQL and Redis answer
          probe,     \* a probe is under way
          waiting,   \* the checks it waits for
          healthy,   \* what the check of the database has found
          elapsed,   \* seconds since the probe began
          fails,     \* failed probes in a row
          routed,    \* requests are routed to the process
          seen,      \* history: what the process lacked during the probe
          bad        \* history: probes in a row it had no answer for

outside == <<process, db, store>>
check == <<probe, waiting, healthy, elapsed>>
readyVars == <<outside, check, fails, routed, seen, bad>>

Dependencies == {"postgresql", "redis", "queue"}

ReadyTypeOK ==
    /\ process \in {"serving", "draining", "exited"}
    /\ db \in {"up", "failing", "hung"} /\ store \in {"up", "down", "hung"}
    /\ probe \in BOOLEAN /\ waiting \subseteq Dependencies /\ healthy \in BOOLEAN
    /\ elapsed \in 0..ProbeTimeout
    /\ fails \in 0..Threshold /\ routed \in BOOLEAN
    /\ seen \subseteq {"database", "life", "nothing"} /\ bad \in 0..Threshold

ReadyInit ==
    /\ process = "serving" /\ db = "up" /\ store = "up"
    /\ probe = FALSE /\ waiting = {} /\ healthy = FALSE /\ elapsed = 0
    /\ fails = 0 /\ routed = FALSE
    /\ seen = {} /\ bad = 0

(* What the process lacks to answer requests.                              *)
Lacks == IF db # "up" THEN "database" ELSE IF process # "serving" THEN "life" ELSE "nothing"

(* The probe ends; one that is refused at once has seen nothing.           *)
End ==
    /\ probe' = FALSE /\ waiting' = {} /\ healthy' = FALSE /\ elapsed' = 0
    /\ seen' = {}
    /\ bad' = IF seen \subseteq {"database"} THEN (IF bad < Threshold THEN bad + 1 ELSE bad) ELSE 0
    /\ UNCHANGED outside

Succeed == End /\ fails' = 0 /\ routed' = TRUE

Fail ==
    /\ End
    /\ fails' = IF fails < Threshold THEN fails + 1 ELSE fails
    /\ routed' = (routed /\ fails' < Threshold)

(* The process or the database has turned into something else.             *)
Watch ==
    /\ seen' = IF probe THEN seen \cup {Lacks'} ELSE seen
    /\ UNCHANGED <<check, fails, routed, bad>>

-----------------------------------------------------------------------------
(* getReadiness runs its checks at once.                                   *)
Ask ==
    /\ process = "serving" /\ ~ probe
    /\ probe' = TRUE /\ waiting' = Dependencies
    /\ seen' = {Lacks}
    /\ UNCHANGED <<outside, healthy, elapsed, fails, routed, bad>>

(* isShuttingDown, or nobody listens any more.                             *)
RefuseProbe == process # "serving" /\ ~ probe /\ Fail

(* enableOfflineQueue: false and maxRetriesPerRequest: 0 make a command    *)
(* fail at once while the connection is away.                              *)
RefusesAtOnce(d) == d = "redis" /\ store = "down"

(* On the connection of BullMQ it would wait until Redis is back.          *)
RepliesOnceBack(d) == d = "queue" /\ store = "up"

Settles(d) ==
    \/ d = "postgresql" /\ db # "hung"
    \/ d = "redis" /\ store = "up"
    \/ RefusesAtOnce(d) \/ RepliesOnceBack(d)

Settled(d, found) ==
    /\ waiting' = waiting \ {d}
    /\ healthy' = IF d = "postgresql" THEN found ELSE healthy
    /\ UNCHANGED <<outside, probe, elapsed, fails, routed, seen, bad>>

Answer(d) ==
    /\ process # "exited" /\ d \in waiting /\ Settles(d)
    /\ Settled(d, db = "up")

(* Mutant: one time-out for all dependencies.                              *)
SameTimeout(d) == RequiredTimeout

TimeoutOf(d) == IF d = "postgresql" THEN RequiredTimeout ELSE OptionalTimeout

(* checkDependency: the race is won by the timer.                          *)
TimeOut(d) ==
    /\ process # "exited" /\ d \in waiting /\ elapsed >= TimeoutOf(d)
    /\ Settled(d, FALSE)

(* 200 when the database has answered, 503 otherwise.                      *)
Respond ==
    /\ process # "exited" /\ probe /\ waiting = {}
    /\ IF healthy THEN Succeed ELSE Fail

(* The orchestrator waits no longer, or the process has died.              *)
GiveUp ==
    /\ probe
    /\ elapsed = ProbeTimeout \/ process = "exited"
    /\ Fail

Second ==
    /\ probe /\ waiting # {} /\ elapsed < ProbeTimeout
    /\ \A d \in waiting : elapsed < TimeoutOf(d) /\ ~ Settles(d)
    /\ elapsed' = elapsed + 1
    /\ UNCHANGED <<outside, probe, waiting, healthy, fails, routed, seen, bad>>

-----------------------------------------------------------------------------
(* setShuttingDown; a probe that has passed the flag is answered all the   *)
(* same.                                                                   *)
Signal ==
    /\ process = "serving" /\ process' = "draining"
    /\ UNCHANGED <<db, store>> /\ Watch

Exit ==
    /\ process # "exited" /\ process' = "exited"
    /\ UNCHANGED <<db, store>> /\ Watch

(* Another process in its place is not routed to before it is ready.       *)
Replace ==
    /\ process = "exited" /\ ~ probe /\ process' = "serving"
    /\ fails' = 0 /\ routed' = FALSE /\ bad' = 0
    /\ UNCHANGED <<db, store, check, seen>>

DatabaseTurns(state) ==
    /\ db # state /\ db' = state
    /\ UNCHANGED <<process, store>> /\ Watch

RedisTurns(state) ==
    /\ store # state /\ store' = state
    /\ UNCHANGED <<process, db>> /\ Watch

ReadyNext ==
    \/ Ask \/ RefuseProbe \/ Respond \/ GiveUp \/ Second
    \/ \E d \in Dependencies : Answer(d) \/ TimeOut(d)
    \/ Signal \/ Exit \/ Replace
    \/ \E state \in {"up", "failing", "hung"} : DatabaseTurns(state)
    \/ \E state \in {"up", "down", "hung"} : RedisTurns(state)

ReadySpec == ReadyInit /\ [][ReadyNext]_readyVars

-----------------------------------------------------------------------------
(* A probe during which the process served and its database answered       *)
(* succeeds, whatever became of Redis meanwhile: what is optional does not *)
(* take a process out of service (health.controller.ts:38-49).             *)
OptionalStaysOptional ==
    [][probe /\ ~ probe' /\ seen = {"nothing"} => routed']_readyVars

(* A process is routed to no more once as many probes in a row as the      *)
(* threshold have come when it was draining or gone, or have seen it       *)
(* without its database from beginning to end; a probe from before it      *)
(* began to drain may still succeed (health.controller.ts:124-136).        *)
TroubleIsNoticed == bad = Threshold => ~routed

(* Requests go where they can be answered.                                 *)
RoutingFollowsReadiness == OptionalStaysOptional /\ []TroubleIsNoticed
=============================================================================
