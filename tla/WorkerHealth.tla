---------------------------- MODULE WorkerHealth ----------------------------
(***************************************************************************)
(* What /metrics tells of the worker processes (worker.ts,                 *)
(* shared/queue/queue.metrics.ts): each writes the time into one key of    *)
(* Redis, which all workers share and which never expires, and a scrape of *)
(* an API process compares it with its own clock.                          *)
(*                                                                         *)
(* The module has one queue; the four beat alike.  A tick is               *)
(* HEARTBEAT_INTERVAL_MS.  A job that hangs does not stop the beats: what  *)
(* the gauge is about is the process.                                      *)
(***************************************************************************)
EXTENDS Naturals, FiniteSets

CONSTANTS Workers,   \* worker processes
          Stale,     \* WORKER_HEARTBEAT_STALE_MS, in ticks
          MaxGap     \* bound: ticks between two beats of a running worker; the
                     \* third would be too late, however little

ASSUME HeartbeatOptions == MaxGap \in Nat /\ Stale \in Nat /\ MaxGap < Stale

VARIABLES proc,      \* each worker process
          gap,       \* ticks since its last beat
          sent,      \* ages of its beats that have not reached Redis
          redis,     \* Redis answers
          beat,      \* age of worker:heartbeat:<queue>, in ticks up to Stale
          up,        \* queue_worker_up in the registry of the API process
          idle,      \* history: ticks since a worker was running, up to Stale
          steady     \* history: ticks each has been running and Redis answering

history == <<idle, steady>>
workerVars == <<proc, gap, sent, redis, beat, up, history>>

Never == Stale + 1   \* the key is not there
Unset == 2           \* the gauge has no value yet

WorkersTypeOK ==
    /\ proc \in [Workers -> {"running", "stopping", "dead"}]
    /\ gap \in [Workers -> 0..MaxGap]
    /\ sent \in [Workers -> SUBSET (0..Stale)]
    /\ redis \in BOOLEAN
    /\ beat \in 0..Never
    /\ up \in {0, 1, Unset}
    /\ idle \in 0..Stale /\ steady \in [Workers -> 0..MaxGap + 1]

WorkersInit ==
    /\ proc = [w \in Workers |-> "running"]
    /\ gap = [w \in Workers |-> 0]
    /\ sent = [w \in Workers |-> {}]
    /\ redis = TRUE /\ beat = Never /\ up = Unset
    /\ idle = 0 /\ steady = [w \in Workers |-> 0]

Older(age) == IF age < Stale THEN age + 1 ELSE Stale

-----------------------------------------------------------------------------
(* sendWorkerHeartbeat: the time is taken now; the command waits on the    *)
(* connection for as long as it takes (maxRetriesPerRequest: null).        *)
Beat(w) ==
    /\ proc[w] = "running" /\ gap[w] > 0
    /\ gap' = [gap EXCEPT ![w] = 0]
    /\ sent' = [sent EXCEPT ![w] = @ \cup {0}]
    /\ UNCHANGED <<proc, redis, beat, up, history>>

(* One of its commands reaches Redis, the oldest first.                    *)
BeatArrives(w) ==
    /\ redis
    /\ \E age \in sent[w] :
         /\ \A a \in sent[w] : a <= age
         /\ sent' = [sent EXCEPT ![w] = @ \ {age}]
         /\ beat' = age
    /\ UNCHANGED <<proc, gap, redis, up, history>>

(* Mutant: a heartbeat is a heartbeat, however old.                        *)
Recorded(age) == age # Never

(* isAlive                                                                 *)
Recent(age) == age # Never /\ age < Stale

(* A scrape that Redis answers within METRICS_REDIS_TIMEOUT_MS.  Otherwise *)
(* the gauge keeps its value.                                              *)
Collect ==
    /\ redis
    /\ up' = IF Recent(beat) THEN 1 ELSE 0
    /\ UNCHANGED <<proc, gap, sent, redis, beat, history>>

-----------------------------------------------------------------------------
(* SIGTERM, SIGINT, an uncaught exception or an unhandled rejection: the   *)
(* intervals are cleared first, the jobs under way go on.                  *)
StopWorker(w) ==
    /\ proc[w] = "running"
    /\ proc' = [proc EXCEPT ![w] = "stopping"]
    /\ gap' = [gap EXCEPT ![w] = 0]
    /\ steady' = [steady EXCEPT ![w] = 0]
    /\ UNCHANGED <<sent, redis, beat, up, idle>>

(* The workers and their pool are closed or one of them cannot be, or      *)
(* SHUTDOWN_TIMEOUT_MS is over, or the process is killed.                  *)
EndWorker(w) ==
    /\ proc[w] # "dead"
    /\ proc' = [proc EXCEPT ![w] = "dead"]
    /\ gap' = [gap EXCEPT ![w] = 0]
    /\ steady' = [steady EXCEPT ![w] = 0]
    /\ sent' = [sent EXCEPT ![w] = {}]
    /\ UNCHANGED <<redis, beat, up, idle>>

Restart(w) ==
    /\ proc[w] = "dead"
    /\ proc' = [proc EXCEPT ![w] = "running"]
    /\ idle' = 0
    /\ UNCHANGED <<gap, sent, redis, beat, up, steady>>

(* Connections come and go; isRedisConnectionDown spares a scrape the wait *)
(* for what would time out.                                                *)
ConnectionTurns ==
    /\ redis' = ~ redis
    /\ steady' = [w \in Workers |-> 0]
    /\ UNCHANGED <<proc, gap, sent, beat, up, idle>>

(* Time passes.  Commands take less than a tick while Redis answers.       *)
IntervalPasses ==
    /\ \A w \in Workers : proc[w] = "running" => gap[w] < MaxGap
    /\ redis => \A w \in Workers : sent[w] = {}
    /\ gap' = [w \in Workers |-> IF proc[w] = "running" THEN gap[w] + 1 ELSE 0]
    /\ sent' = [w \in Workers |-> {Older(a) : a \in sent[w]}]
    /\ beat' = IF beat = Never THEN Never ELSE Older(beat)
    /\ idle' = IF \E w \in Workers : proc[w] = "running" THEN 0 ELSE Older(idle)
    /\ steady' = [w \in Workers |->
                     IF proc[w] = "running" /\ redis /\ steady[w] <= MaxGap
                     THEN steady[w] + 1 ELSE steady[w]]
    /\ UNCHANGED <<proc, redis, up>>

WorkersNext ==
    \/ \E w \in Workers :
         Beat(w) \/ BeatArrives(w) \/ StopWorker(w) \/ EndWorker(w) \/ Restart(w)
    \/ Collect \/ ConnectionTurns \/ IntervalPasses

WorkersSpec == WorkersInit /\ [][WorkersNext]_workerVars

-----------------------------------------------------------------------------
(* A scrape reports the workers as up only when one of them was running    *)
(* less than the stale time ago, be it by a beat that was held up, and as  *)
(* down only when none has run and been able to write for longer than      *)
(* there is between two beats, although the last to write wins             *)
(* (queue.metrics.ts:97-108, worker.ts:58-64).                             *)
GaugeFollowsWorkers ==
    [][Collect => /\ up' = 1 => idle < Stale
                  /\ up' = 0 => \A w \in Workers : steady[w] <= MaxGap]_workerVars
=============================================================================
