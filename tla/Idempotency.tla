---------------------------- MODULE Idempotency ----------------------------
(***************************************************************************)
(* idempotencyMiddleware of src/shared/reliability for one cache key: all  *)
(* requests here carry the same Idempotency-Key, user and scope.  A        *)
(* request looks for a stored answer, takes the DistributedLock of the key *)
(* and runs the handler; the answer is stored by a Redis command that      *)
(* nobody awaits but that goes out before the release of the lock.  The    *)
(* expiry of stored answers after 24 hours is left out.                    *)
(***************************************************************************)
EXTENDS DistributedLock

CONSTANT NoAnswer   \* no stored answer, or no answer yet

ASSUME AnswersAreClients == NoAnswer \notin Clients

VARIABLES
    stored,        \* the answer in Redis, named by the request that computed it
    step,          \* how far each request is
    answer,        \* the answer each request has given, by the same names
    succeeded,     \* history: requests whose handler answered below 400
    before,        \* history: successful requests that were over when this one began
    unread         \* history: an answer was not stored, or the cache not read

idempotencyVars == <<lockVars, stored, step, answer, succeeded, before, unread>>

Steps == {"new", "missed", "handling", "storing", "failed", "finishing", "hung",
          "answered", "replayed", "conflict", "lost"}

To(r, s) == step' = [step EXCEPT ![r] = s]
OverNow == {r \in succeeded : ~Active(r)}

-----------------------------------------------------------------------------
(* The request arrives and reads the cache; an error counts as a miss.     *)
Lookup(r) ==
    /\ step[r] = "new"
    /\ before' = [before EXCEPT ![r] = OverNow]
    /\ \/ /\ stored # NoAnswer
          /\ answer' = [answer EXCEPT ![r] = stored]
          /\ To(r, "replayed")
          /\ UNCHANGED unread
       \/ /\ To(r, "missed")
          /\ unread' = (unread \/ stored # NoAnswer)
          /\ UNCHANGED answer
    /\ UNCHANGED <<lockVars, stored, succeeded>>

(* withLock: the handler runs, or the request is refused with 409.  The    *)
(* cache is not looked at again under the lock.                            *)
Enter(r) ==
    /\ step[r] = "missed"
    /\ \/ (Acquire(r) \/ AcquireFailsOpen(r)) /\ To(r, "handling")
       \/ Refused(r) /\ To(r, "conflict") /\ UNCHANGED lockVars
    /\ UNCHANGED <<stored, answer, succeeded, before, unread>>

(* The handler calls res.json.  Only an answer below 400 is to be stored.  *)
Answer(r) ==
    /\ step[r] = "handling"
    /\ answer' = [answer EXCEPT ![r] = r]
    /\ \/ To(r, "storing") /\ succeeded' = succeeded \cup {r}
       \/ To(r, "failed") /\ UNCHANGED succeeded
    /\ UNCHANGED <<lockVars, stored, before, unread>>

(* Mutant: the status of the answer is not looked at.                      *)
StoreAny(r) ==
    /\ step[r] \in {"storing", "failed"}
    /\ stored' = r
    /\ To(r, "finishing")
    /\ UNCHANGED <<lockVars, answer, succeeded, before, unread>>

(* The SET reaches Redis, or fails, or was not sent for a failed answer.   *)
Store(r) ==
    /\ \/ step[r] = "storing" /\ stored' = r /\ UNCHANGED unread
       \/ step[r] = "storing" /\ unread' = TRUE /\ UNCHANGED stored
       \/ step[r] = "failed" /\ UNCHANGED <<stored, unread>>
    /\ To(r, "finishing")
    /\ UNCHANGED <<lockVars, answer, succeeded, before>>

(* Mutant: the lock is released before the SET has gone out.               *)
CompleteFirst(r) ==
    /\ \/ /\ step[r] \in {"storing", "failed"}
          /\ client[r].status = "running"
          /\ Finish(r)
          /\ UNCHANGED step
       \/ /\ Release(r)
          /\ To(r, IF step[r] \in {"storing", "failed"} THEN step[r] ELSE "answered")
       \/ /\ step[r] = "finishing" /\ ~Active(r)
          /\ To(r, "answered") /\ UNCHANGED lockVars
    /\ UNCHANGED <<stored, answer, succeeded, before, unread>>

(* 'finish' fires and the lock is released ...                             *)
Complete(r) ==
    /\ \/ step[r] = "finishing" /\ Finish(r) /\ UNCHANGED step
       \/ Release(r) /\ To(r, "answered")
    /\ UNCHANGED <<stored, answer, succeeded, before, unread>>

(* ... or the connection closes first, 'finish' never fires, and the       *)
(* request keeps its lock until the TTL is over.                           *)
Hang(r) ==
    /\ step[r] = "finishing" /\ client[r].status = "running"
    /\ To(r, "hung")
    /\ UNCHANGED <<lockVars, stored, answer, succeeded, before, unread>>

(* The process that serves the request dies, before the SET or after it.   *)
Die(r) ==
    /\ Crash(r)
    /\ To(r, "lost")
    /\ unread' = (unread \/ step[r] = "storing")
    /\ UNCHANGED <<stored, answer, succeeded, before>>

TimePasses == Tick /\ UNCHANGED <<stored, step, answer, succeeded, before, unread>>

Init ==
    /\ LockInit
    /\ stored = NoAnswer
    /\ step = [r \in Clients |-> "new"]
    /\ answer = [r \in Clients |-> NoAnswer]
    /\ succeeded = {}
    /\ before = [r \in Clients |-> {}]
    /\ unread = FALSE

Next ==
    \/ \E r \in Clients :
         \/ Lookup(r) \/ Enter(r) \/ Answer(r) \/ Store(r)
         \/ Complete(r) \/ Hang(r) \/ Die(r)
    \/ TimePasses

Spec == Init /\ [][Next]_idempotencyVars

(* The behaviours in which Redis answers and nobody dies or outlives its   *)
(* lock.                                                                   *)
Calm ==
    /\ ~unread
    /\ \A r \in Clients : step[r] # "lost" /\ (Active(r) => Leased(r))

CalmSpec == Init /\ [][Next /\ Calm']_idempotencyVars

-----------------------------------------------------------------------------
(* Every variable keeps its type.                                          *)
TypeOK ==
    /\ LockTypeOK
    /\ stored \in Clients \cup {NoAnswer}
    /\ step \in [Clients -> Steps]
    /\ answer \in [Clients -> Clients \cup {NoAnswer}]
    /\ succeeded \in SUBSET Clients
    /\ before \in [Clients -> SUBSET Clients]
    /\ unread \in BOOLEAN

(* A replayed answer is one that a handler really gave, and a good one:    *)
(* a failure is never replayed, so a client may always try again.          *)
ReplaysAreGood ==
    \A r \in Clients : step[r] = "replayed" => answer[r] \in succeeded

(* "With the same Idempotency-Key the server returns the same answer       *)
(* without running the handler again" (idempotency.middleware.ts:16-21;    *)
(* docs/security-guide.md:192-195): it is not run when an answer is there. *)
AnsweredOnce ==
    [][stored # NoAnswer =>
         \A r \in Clients : step'[r] = "handling" => step[r] = "handling"]_idempotencyVars

(* A retry that is sent after a request has succeeded and has released its *)
(* lock does not run the handler again, unless Redis lost the answer or    *)
(* could not be read: the SET nobody awaits is ahead of the release.       *)
LateRetryIsReplayed ==
    ~unread => \A r \in Clients : before[r] # {} => answer[r] # r
=============================================================================
