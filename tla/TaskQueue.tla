----------------------------- MODULE TaskQueue -----------------------------
(***************************************************************************)
(* One BullMQ queue of src/shared/queue, as tryEnqueue and the workers of  *)
(* src/workers use it: at-least-once delivery.  A job whose worker stops   *)
(* renewing its lock has stalled and is handed to another worker; the old  *)
(* one may still be running it, but its verdict no longer counts.          *)
(***************************************************************************)
EXTENDS Naturals

CONSTANTS
    Tasks,        \* what is enqueued, one job for each
    Workers,      \* the job slots of the worker processes
    Nobody,       \* the owner of a job that no worker has
    MaxAttempts,  \* defaultJobOptions.attempts
    MaxStalls     \* maxStalledCount

ASSUME QueueOptions ==
    /\ Nobody \notin Workers
    /\ MaxAttempts \in Nat \ {0}
    /\ MaxStalls \in Nat

VARIABLES
    job,   \* the job of each task
    dead   \* the tasks recorded in the dead-letter queue

queueVars == <<job, dead>>

JobStates ==
    {"none", "sent", "waiting", "active", "delayed", "completed", "failed"}

NoJob == [state |-> "none", owner |-> Nobody, made |-> 0, stalls |-> 0]

QueueTypeOK ==
    /\ job \in [Tasks -> [state : JobStates, owner : Workers \cup {Nobody},
                          made : 0 .. MaxAttempts, stalls : 0 .. MaxStalls]]
    /\ dead \subseteq Tasks

QueueInit ==
    /\ job = [t \in Tasks |-> NoJob]
    /\ dead = {}

Owns(w, t) == job[t].state = "active" /\ job[t].owner = w

-----------------------------------------------------------------------------
(* queue.add: the command leaves the process ...                           *)
Send(t) ==
    /\ job[t].state = "none"
    /\ job' = [job EXCEPT ![t].state = "sent"]
    /\ UNCHANGED dead

(* ... and reaches Redis, perhaps long after tryEnqueue has given it up.   *)
Arrive(t) ==
    /\ job[t].state = "sent"
    /\ job' = [job EXCEPT ![t].state = "waiting"]
    /\ UNCHANGED dead

(* It is refused, or its process dies with it.                             *)
DropSent(t) ==
    /\ job' = [job EXCEPT ![t].state = IF @ = "sent" THEN "none" ELSE @]
    /\ UNCHANGED dead

Take(w, t) ==
    /\ job[t].state \in {"waiting", "delayed"}
    /\ job' = [job EXCEPT ![t].state = "active", ![t].owner = w]
    /\ UNCHANGED dead

(* The processor resolves.                                                 *)
JobCompletes(w, t) ==
    /\ job' = IF Owns(w, t)
              THEN [job EXCEPT ![t].state = "completed", ![t].owner = Nobody]
              ELSE job
    /\ UNCHANGED dead

GaveUp(made) == made >= MaxAttempts

(* The processor rejects: the job is retried after a pause, or has failed  *)
(* for good and the worker's 'failed' handler records it as a dead letter, *)
(* which may fail itself and is then only logged.                          *)
JobFails(w, t) ==
    IF ~ Owns(w, t) THEN UNCHANGED queueVars ELSE
    LET made == job[t].made + 1 IN
    /\ job' = [job EXCEPT ![t].made = made, ![t].owner = Nobody,
                   ![t].state = IF GaveUp(made) THEN "failed" ELSE "delayed"]
    /\ dead' \in IF GaveUp(made) THEN {dead, dead \cup {t}} ELSE {dead}

(* The job's lock runs out (lockDuration); a job that stalls too often has *)
(* failed, without another attempt having been counted.                    *)
Stalls(t) ==
    /\ job[t].state = "active"
    /\ job' = [job EXCEPT
         ![t].owner = Nobody,
         ![t].stalls = IF @ < MaxStalls THEN @ + 1 ELSE @,
         ![t].state = IF job[t].stalls < MaxStalls THEN "waiting" ELSE "failed"]
    /\ UNCHANGED dead
=============================================================================
