----------------------------- MODULE JobRunner -----------------------------
(***************************************************************************)
(* One job of src/shared/scheduler on several instances of the worker.     *)
(* Each instance has its own cron timer, which fires once in each window   *)
(* of the schedule, at a moment of its own; runJobWithRetry then runs the  *)
(* job with up to MaxAttempts attempts under one DistributedLock.          *)
(***************************************************************************)
EXTENDS DistributedLock

CONSTANTS
    MaxAttempts,  \* MAX_ATTEMPTS
    MaxWindow     \* bound on the windows of the schedule

ASSUME JobOptions == MaxAttempts \in Nat \ {0} /\ MaxWindow \in Nat

VARIABLES
    window,        \* current window of the cron schedule
    fired,         \* last window in which the timer of an instance fired
    attempt,       \* the loop of runAttempts of each instance
    runs           \* history: instances that have run the job, by window

jobVars == <<lockVars, window, fired, attempt, runs>>

NoAttempt == [number |-> 0, state |-> "none"]
SetAttempt(i, n, s) == attempt' = [attempt EXCEPT ![i] = [number |-> n, state |-> s]]

-----------------------------------------------------------------------------
(* The schedules are hours apart, the TTL is ten minutes: a key of one     *)
(* window is gone in the next one.                                         *)
NextWindow ==
    /\ window < MaxWindow
    /\ Free
    /\ window' = window + 1
    /\ UNCHANGED <<lockVars, fired, attempt, runs>>

Started(i) ==
    /\ SetAttempt(i, 1, "running")
    /\ runs' = [runs EXCEPT ![window] = @ \cup {i}]

(* Mutant: an error of Redis is taken as a lock held by somebody else.     *)
FireFailingClosed(i) ==
    /\ fired[i] < window
    /\ ~Active(i)
    /\ fired' = [fired EXCEPT ![i] = window]
    /\ \/ Acquire(i) /\ Started(i)
       \/ UNCHANGED <<lockVars, attempt, runs>>
    /\ UNCHANGED window

(* The timer fires: the job is run under the lock, or skipped because      *)
(* another instance holds the lock.  A job that runs for a whole period is *)
(* not modelled.                                                           *)
Fire(i) ==
    /\ fired[i] < window
    /\ ~Active(i)
    /\ fired' = [fired EXCEPT ![i] = window]
    /\ \/ (Acquire(i) \/ AcquireFailsOpen(i)) /\ Started(i)
       \/ Refused(i) /\ UNCHANGED <<lockVars, attempt, runs>>
    /\ UNCHANGED window

(* job.run resolves.                                                       *)
Succeed(i) ==
    /\ attempt[i].state = "running"
    /\ Finish(i)
    /\ SetAttempt(i, attempt[i].number, "none")
    /\ UNCHANGED <<window, fired, runs>>

(* job.run rejects: another attempt after a pause, or none is left and the *)
(* error is only logged.                                                   *)
Fail(i) ==
    /\ attempt[i].state = "running"
    /\ IF attempt[i].number = MaxAttempts
       THEN Finish(i) /\ SetAttempt(i, attempt[i].number, "none")
       ELSE UNCHANGED lockVars /\ SetAttempt(i, attempt[i].number, "pausing")
    /\ UNCHANGED <<window, fired, runs>>

Retry(i) ==
    /\ attempt[i].state = "pausing"
    /\ SetAttempt(i, attempt[i].number + 1, "running")
    /\ UNCHANGED <<lockVars, window, fired, runs>>

HandBack(i) ==
    /\ Release(i)
    /\ attempt' = [attempt EXCEPT ![i] = NoAttempt]
    /\ UNCHANGED <<window, fired, runs>>

(* The worker dies and is started again.                                   *)
JobDies(i) ==
    /\ Crash(i)
    /\ attempt' = [attempt EXCEPT ![i] = NoAttempt]
    /\ UNCHANGED <<window, fired, runs>>

JobTimePasses == Tick /\ UNCHANGED <<window, fired, attempt, runs>>

JobInit ==
    /\ LockInit
    /\ window = 0
    /\ fired = [i \in Clients |-> 0]
    /\ attempt = [i \in Clients |-> NoAttempt]
    /\ runs = [w \in 1 .. MaxWindow |-> {}]

Work(i) == Succeed(i) \/ Fail(i) \/ Retry(i) \/ HandBack(i)

JobNext ==
    \/ NextWindow
    \/ \E i \in Clients : Fire(i) \/ Work(i) \/ JobDies(i)
    \/ JobTimePasses

JobSpec == JobInit /\ [][JobNext]_jobVars

(* Every attempt settles, timers fire, and time goes on.                   *)
JobFairSpec ==
    /\ JobSpec
    /\ \A i \in Clients : WF_jobVars(Work(i))
    /\ WF_jobVars(JobTimePasses)

-----------------------------------------------------------------------------
(* Every variable keeps its type.                                          *)
JobTypeOK ==
    /\ LockTypeOK
    /\ window \in 0 .. MaxWindow
    /\ fired \in [Clients -> 0 .. MaxWindow]
    /\ attempt \in [Clients -> [number : 0 .. MaxAttempts,
                                  state : {"none", "running", "pausing"}]]
    /\ runs \in [1 .. MaxWindow -> SUBSET Clients]

(* No window goes by without a run: whatever Redis does and whoever        *)
(* crashes, a window in which every timer has fired has been taken by one. *)
NoWindowIsSkipped ==
    (window > 0 /\ \A i \in Clients : fired[i] = window) => runs[window] # {}

=============================================================================
