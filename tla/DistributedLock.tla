-------------------------- MODULE DistributedLock --------------------------
(***************************************************************************)
(* acquireLock, releaseLock and withLock of src/shared/concurrency for one *)
(* key: the lock key in Redis with its time to live, and the processes     *)
(* that run something under it.  Redis may fail at each call, in which     *)
(* case acquireLock fails open; a process may crash at any time; what runs *)
(* under the lock may outlive the key.  Time is what is left of the key's  *)
(* and of each process's own TTL.                                          *)
(***************************************************************************)
EXTENDS Naturals, FiniteSets

CONSTANTS
    Clients,  \* processes that call withLock with this key
    Nobody,   \* a token no process has
    TTL       \* ttlMs

ASSUME LockOptions ==
    /\ TTL \in Nat \ {0}
    /\ Nobody \notin Clients

VARIABLES
    lock,   \* the key in Redis: whose token it holds and what is left of its TTL
    client  \* the withLock call of each process

lockVars == <<lock, client>>

Idle == [status |-> "idle", token |-> FALSE, left |-> 0]

(* token: acquireLock returned a token of its own and not a fallback.      *)
(* left: history, what is left of the TTL the process asked for.           *)
ClientStates ==
    [status : {"idle", "running", "releasing"}, token : BOOLEAN, left : 0 .. TTL]

Free == lock.ttl = 0
Active(c) == client[c].status # "idle"

(* The process holds the lock and its time is not over.                    *)
Leased(c) == Active(c) /\ client[c].token /\ client[c].left > 0

-----------------------------------------------------------------------------
NoKey == [owner |-> Nobody, ttl |-> 0]
Run(c, token) ==
    client' = [client EXCEPT ![c] =
        [status |-> "running", token |-> token, left |-> IF token THEN TTL ELSE 0]]

(* SET key token PX ttlMs NX answers OK.                                   *)
Acquire(c) ==
    /\ ~Active(c)
    /\ Free
    /\ lock' = [owner |-> c, ttl |-> TTL]
    /\ Run(c, TRUE)

(* The command fails; Redis may have executed it all the same, and then    *)
(* the key holds a token nobody knows.  The process runs without lock.     *)
AcquireFailsOpen(c) ==
    /\ ~Active(c)
    /\ \/ UNCHANGED lock
       \/ Free /\ lock' = [owner |-> Nobody, ttl |-> TTL]
    /\ Run(c, FALSE)

(* Another process holds the lock: withLock answers {ran: false}.          *)
Refused(c) == ~Active(c) /\ ~Free

(* fn resolves or rejects; finally releases the lock.                      *)
Finish(c) ==
    /\ client[c].status = "running"
    /\ client' = [client EXCEPT ![c].status = "releasing"]
    /\ UNCHANGED lock

(* Mutant: DEL without comparing the token.                                *)
ReleaseAny(c) ==
    /\ client[c].status = "releasing"
    /\ client' = [client EXCEPT ![c] = Idle]
    /\ \/ UNCHANGED lock
       \/ client[c].token /\ lock' = NoKey

(* The compare-and-delete script, only for a token of one's own; it may    *)
(* fail, and the key then waits for its TTL.                               *)
Release(c) ==
    /\ client[c].status = "releasing"
    /\ client' = [client EXCEPT ![c] = Idle]
    /\ \/ UNCHANGED lock
       \/ client[c].token /\ lock.owner = c /\ lock' = NoKey

(* The process dies, and comes back without memory of its call.            *)
Crash(c) ==
    /\ Active(c)
    /\ client' = [client EXCEPT ![c] = Idle]
    /\ UNCHANGED lock

Less(n) == IF n = 0 THEN 0 ELSE n - 1

(* Time passes; Redis drops the key when its TTL is over.                  *)
Tick ==
    /\ lock' = IF lock.ttl <= 1 THEN NoKey ELSE [lock EXCEPT !.ttl = @ - 1]
    /\ client' = [c \in Clients |-> [client[c] EXCEPT !.left = Less(@)]]

LockInit ==
    /\ lock = NoKey
    /\ client = [c \in Clients |-> Idle]

LockNext ==
    \/ \E c \in Clients :
         \/ Acquire(c) \/ AcquireFailsOpen(c)
         \/ Finish(c) \/ Release(c) \/ Crash(c)
    \/ Tick

LockSpec == LockInit /\ [][LockNext]_lockVars

-----------------------------------------------------------------------------
(* Every variable keeps its type.                                          *)
LockTypeOK ==
    /\ lock \in [owner : Clients \cup {Nobody}, ttl : 0 .. TTL]
    /\ client \in [Clients -> ClientStates]

(* While its time is not over, the key in Redis is still that of the       *)
(* process: nobody has deleted or overwritten it, be it a process that     *)
(* comes back late to release a lock that has passed on.                   *)
LeaseIsBacked ==
    \A c \in Clients :
        Leased(c) => lock.owner = c /\ lock.ttl = client[c].left

(* Within their time two processes never both run under the lock.          *)
MutualExclusion ==
    \A c, d \in Clients : Leased(c) /\ Leased(d) => c = d

(* The inductive invariant.                                                *)
LockInvariant ==
    /\ LockTypeOK
    /\ LeaseIsBacked
    /\ lock.owner # Nobody => lock.ttl > 0
=============================================================================
