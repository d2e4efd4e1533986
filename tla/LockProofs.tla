------------------------------ MODULE LockProofs ------------------------------
(***************************************************************************)
(* Proofs about DistributedLock and about the three modules whose          *)
(* processes run something under it, Idempotency, JobRunner and            *)
(* CacheStampede, for any number of processes, any TTL, any number of      *)
(* attempts and of windows; and about the neighbour of the last one,       *)
(* CacheTags.  What the lock promises holds of the three because their     *)
(* steps are steps of the lock, or leave it alone.                         *)
(***************************************************************************)
EXTENDS Idempotency, JobRunner, CacheManager, FiniteSetTheorems, TLAPS

-----------------------------------------------------------------------------
(* The lock.                                                               *)

(* The state of the process that moves, and of the others.                 *)
LEMMA MoveFrame ==
    ASSUME client \in [Clients -> ClientStates], NEW c \in Clients,
           NEW s \in ClientStates, client' = [client EXCEPT ![c] = s]
    PROVE  /\ client' \in [Clients -> ClientStates]
           /\ client'[c] = s
           /\ \A d \in Clients \ {c} : client'[d] = client[d]
  OBVIOUS

LEMMA IdleIsAState == Idle \in ClientStates
  BY LockOptions DEF Idle, ClientStates

(* The inductive invariant holds at the start.                             *)
LEMMA LockStarts == LockInit => LockInvariant
  BY LockOptions, IdleIsAState
  DEF LockInit, LockInvariant, LockTypeOK, LeaseIsBacked, Leased, Active, NoKey, Idle

(* Every step keeps it.                                                    *)
LEMMA LockStep == ASSUME LockInvariant, [LockNext]_lockVars PROVE LockInvariant'
  <1> USE LockOptions
  <1>1. /\ lock \in [owner : Clients \cup {Nobody}, ttl : 0 .. TTL]
        /\ client \in [Clients -> ClientStates]
        /\ \A c \in Clients : Leased(c) => lock.owner = c /\ lock.ttl = client[c].left
        /\ lock.owner # Nobody => lock.ttl > 0
    BY DEF LockInvariant, LockTypeOK, LeaseIsBacked
  <1>2. ASSUME Free, NEW d \in Clients PROVE ~Leased(d)
    BY <1>1, <1>2 DEF Free, Leased, ClientStates
  <1>3. ASSUME NEW c \in Clients, Acquire(c) PROVE LockInvariant'
    <2> DEFINE s == [status |-> "running", token |-> TRUE, left |-> TTL]
    <2>1. client' = [client EXCEPT ![c] = s] /\ s \in ClientStates
      BY <1>3 DEF Acquire, Run, ClientStates
    <2>2. /\ client' \in [Clients -> ClientStates]
          /\ client'[c] = s /\ \A d \in Clients \ {c} : client'[d] = client[d]
      BY <1>1, <2>1, MoveFrame
    <2>3. lock' = [owner |-> c, ttl |-> TTL] /\ Free
      BY <1>3 DEF Acquire
    <2>4. \A d \in Clients \ {c} : ~Leased(d)'
      BY <1>2, <2>2, <2>3 DEF Leased, Active
    <2> QED
      BY <2>2, <2>3, <2>4 DEF LockInvariant, LockTypeOK, LeaseIsBacked
  <1>4. ASSUME NEW c \in Clients, AcquireFailsOpen(c) PROVE LockInvariant'
    <2> DEFINE s == [status |-> "running", token |-> FALSE, left |-> 0]
    <2>1. client' = [client EXCEPT ![c] = s] /\ s \in ClientStates
      BY <1>4 DEF AcquireFailsOpen, Run, ClientStates
    <2>2. /\ client' \in [Clients -> ClientStates]
          /\ client'[c] = s /\ \A d \in Clients \ {c} : client'[d] = client[d]
      BY <1>1, <2>1, MoveFrame
    <2>3. \A d \in Clients : Leased(d)' => Leased(d) /\ client'[d] = client[d]
      BY <2>2 DEF Leased, Active
    <2>4. CASE UNCHANGED lock
      BY <1>1, <2>2, <2>3, <2>4 DEF LockInvariant, LockTypeOK, LeaseIsBacked
    <2>5. CASE Free /\ lock' = [owner |-> Nobody, ttl |-> TTL]
      BY <1>2, <2>2, <2>3, <2>5 DEF LockInvariant, LockTypeOK, LeaseIsBacked
    <2> QED BY <1>4, <2>4, <2>5 DEF AcquireFailsOpen
  <1>5. ASSUME NEW c \in Clients, Finish(c) PROVE LockInvariant'
    <2>1. /\ client' \in [Clients -> ClientStates] /\ lock' = lock
          /\ client'[c] = [client[c] EXCEPT !.status = "releasing"]
          /\ \A d \in Clients \ {c} : client'[d] = client[d]
      BY <1>1, <1>5 DEF Finish, ClientStates
    <2>2. \A d \in Clients : Leased(d)' => Leased(d) /\ client'[d].left = client[d].left
      BY <1>1, <1>5, <2>1 DEF Leased, Active, Finish, ClientStates
    <2> QED BY <1>1, <2>1, <2>2 DEF LockInvariant, LockTypeOK, LeaseIsBacked
  <1>6. ASSUME NEW c \in Clients, client' = [client EXCEPT ![c] = Idle]
        PROVE  /\ client' \in [Clients -> ClientStates] /\ ~Leased(c)'
               /\ \A d \in Clients :
                    Leased(d)' => d # c /\ Leased(d) /\ client'[d] = client[d]
    <2>1. /\ client' \in [Clients -> ClientStates] /\ client'[c] = Idle
          /\ \A d \in Clients \ {c} : client'[d] = client[d]
      BY <1>1, <1>6, IdleIsAState, MoveFrame
    <2>2. ~Leased(c)'
      BY <2>1 DEF Leased, Active, Idle
    <2> QED BY <2>1, <2>2 DEF Leased, Active
  <1>7. ASSUME NEW c \in Clients, Release(c) PROVE LockInvariant'
    <2>1. /\ client' \in [Clients -> ClientStates] /\ ~Leased(c)'
          /\ \A d \in Clients :
                Leased(d)' => d # c /\ Leased(d) /\ client'[d] = client[d]
      BY <1>6, <1>7 DEF Release
    <2>2. CASE UNCHANGED lock
      BY <1>1, <2>1, <2>2 DEF LockInvariant, LockTypeOK, LeaseIsBacked
    <2>3. CASE lock.owner = c /\ lock' = NoKey
      <3>1. \A d \in Clients : ~Leased(d)'
        BY <1>1, <2>1, <2>3
      <3> QED BY <2>1, <2>3, <3>1 DEF LockInvariant, LockTypeOK, LeaseIsBacked, NoKey
    <2> QED BY <1>7, <2>2, <2>3 DEF Release
  <1>8. ASSUME NEW c \in Clients, Crash(c) PROVE LockInvariant'
    <2>1. /\ client' \in [Clients -> ClientStates] /\ lock' = lock
          /\ \A d \in Clients : Leased(d)' => Leased(d) /\ client'[d] = client[d]
      BY <1>6, <1>8 DEF Crash
    <2> QED BY <1>1, <2>1 DEF LockInvariant, LockTypeOK, LeaseIsBacked
  <1>9. ASSUME Tick PROVE LockInvariant'
    <2>1. /\ client' = [c \in Clients |-> [client[c] EXCEPT !.left = Less(@)]]
          /\ lock' = IF lock.ttl <= 1 THEN NoKey ELSE [lock EXCEPT !.ttl = @ - 1]
      BY <1>9 DEF Tick
    <2>2. ASSUME NEW c \in Clients
          PROVE  /\ client'[c] \in ClientStates
                 /\ client'[c].left = Less(client[c].left)
                 /\ client'[c].token = client[c].token
                 /\ client'[c].status = client[c].status
      BY <1>1, <2>1 DEF Less, ClientStates
    <2>3. client' \in [Clients -> ClientStates]
      BY <2>1, <2>2
    <2>4. ASSUME NEW c \in Clients, Leased(c)'
          PROVE  Leased(c) /\ client[c].left > 1 /\ client'[c].left = client[c].left - 1
      BY <1>1, <2>2, <2>4 DEF Leased, Active, Less, ClientStates
    <2>5. LeaseIsBacked'
      <3> SUFFICES ASSUME NEW c \in Clients, Leased(c)'
                   PROVE  lock'.owner = c /\ lock'.ttl = client'[c].left
        BY DEF LeaseIsBacked
      <3>1. lock.owner = c /\ lock.ttl > 1 /\ client'[c].left = lock.ttl - 1
        BY <1>1, <2>4
      <3> QED BY <1>1, <2>1, <3>1
    <2>6. /\ lock' \in [owner : Clients \cup {Nobody}, ttl : 0 .. TTL]
          /\ lock'.owner # Nobody => lock'.ttl > 0
      <3>1. CASE lock.ttl <= 1
        BY <2>1, <3>1 DEF NoKey
      <3>2. CASE ~(lock.ttl <= 1)
        BY <1>1, <2>1, <3>2
      <3> QED BY <3>1, <3>2
    <2> QED BY <2>3, <2>5, <2>6 DEF LockInvariant, LockTypeOK
  <1>10. ASSUME UNCHANGED lockVars PROVE LockInvariant'
    BY <1>10 DEF lockVars, LockInvariant, LockTypeOK, LeaseIsBacked, Leased, Active
  <1> QED BY <1>3, <1>4, <1>5, <1>7, <1>8, <1>9, <1>10 DEF LockNext

LEMMA LockCorrect == LockSpec => []LockInvariant
  BY LockStarts, LockStep, PTL DEF LockSpec

(* A process's key is untouched while its time is not over.                *)
THEOREM LeaseIsSafe == LockSpec => []LeaseIsBacked
  <1>1. LockInvariant => LeaseIsBacked
    BY DEF LockInvariant
  <1> QED BY <1>1, LockCorrect, PTL

(* Two processes never both run under the lock within their time.          *)
THEOREM LockExcludes == LockSpec => []MutualExclusion
  <1>1. LockInvariant => MutualExclusion
    BY DEF LockInvariant, LeaseIsBacked, MutualExclusion
  <1> QED BY <1>1, LockCorrect, PTL

-----------------------------------------------------------------------------
(* Requests with one Idempotency-Key.                                      *)

(* A request whose handler is at work holds its call of withLock, so it is *)
(* not over.                                                               *)
HandlersRun ==
    \A r \in Clients :
        step[r] \in {"handling", "storing", "failed"} => client[r].status = "running"

(* Only a handler makes a request succeed.                                 *)
SuccessIsHandled ==
    \A r \in Clients :
        /\ step[r] \in {"new", "missed", "handling"} => r \notin succeeded
        /\ step[r] = "storing" => r \in succeeded

(* The answer of a success is in Redis or is about to be sent there.       *)
AnswersArrive ==
    ~unread => \A r \in succeeded : step[r] = "storing" \/ stored # NoAnswer

(* A late retry does not come near the handler.                            *)
LateRetriesSkip ==
    ~unread => \A r \in Clients : before[r] # {} => step[r] \notin {"missed", "handling"}

(* The inductive invariant.                                                *)
IdempotencyInvariant ==
    /\ LockInvariant
    /\ TypeOK
    /\ stored \in succeeded \cup {NoAnswer}
    /\ HandlersRun
    /\ SuccessIsHandled
    /\ AnswersArrive
    /\ LateRetriesSkip
    /\ ReplaysAreGood
    /\ LateRetryIsReplayed

USE AnswersAreClients

(* Every step of the middleware is one of the lock's, or leaves it alone.  *)
LEMMA StepsOfTheLock == [Next]_idempotencyVars => [LockNext]_lockVars
  BY DEF Next, idempotencyVars, lockVars, LockNext, Lookup, Enter, Answer, Store,
         Complete, Hang, Die, TimePasses

LEMMA IdempotencyStarts == Init => IdempotencyInvariant
  <1> SUFFICES ASSUME Init PROVE IdempotencyInvariant
    OBVIOUS
  <1>1. LockInvariant /\ LockTypeOK
    BY LockStarts DEF Init, LockInvariant
  <1>2. TypeOK
    BY <1>1 DEF Init, TypeOK, Steps
  <1> QED
    BY <1>1, <1>2 DEF Init, IdempotencyInvariant, HandlersRun, SuccessIsHandled,
      AnswersArrive, LateRetriesSkip, ReplaysAreGood, LateRetryIsReplayed

(* Other requests stay where they are, and so do their calls of withLock.  *)
LEMMA Others ==
    ASSUME IdempotencyInvariant, NEW r \in Clients, NEW s \in Steps, To(r, s)
    PROVE  /\ step' \in [Clients -> Steps] /\ step'[r] = s
           /\ \A d \in Clients \ {r} : step'[d] = step[d]
  BY DEF To, IdempotencyInvariant, TypeOK

LEMMA LookupKeeps ==
    ASSUME IdempotencyInvariant, NEW r \in Clients, Lookup(r), LockInvariant'
    PROVE  IdempotencyInvariant'
  <1>0. LockTypeOK' /\ "missed" \in Steps /\ "replayed" \in Steps
    BY DEF LockInvariant, Steps
  <1>1. CASE stored # NoAnswer /\ answer' = [answer EXCEPT ![r] = stored]
             /\ To(r, "replayed") /\ UNCHANGED unread
    <2>1. /\ step' \in [Clients -> Steps] /\ step'[r] = "replayed"
          /\ \A d \in Clients \ {r} : step'[d] = step[d]
      BY <1>0, <1>1, Others
    <2>2. /\ UNCHANGED <<client, stored, succeeded, unread>>
          /\ before' = [before EXCEPT ![r] = OverNow]
          /\ step[r] = "new" /\ stored \in succeeded
      BY <1>1 DEF Lookup, lockVars, IdempotencyInvariant
    <2>3. r \notin succeeded
      BY <2>2 DEF IdempotencyInvariant, SuccessIsHandled
    <2>4. TypeOK'
      BY <1>0, <1>1, <2>1, <2>2 DEF IdempotencyInvariant, TypeOK, OverNow
    <2>5. /\ answer'[r] \in succeeded /\ answer'[r] # r
          /\ \A d \in Clients \ {r} : answer'[d] = answer[d] /\ before'[d] = before[d]
      BY <1>1, <2>2, <2>3 DEF IdempotencyInvariant, TypeOK
    <2> QED
      BY <2>1, <2>2, <2>3, <2>4, <2>5
      DEF IdempotencyInvariant, HandlersRun, SuccessIsHandled, AnswersArrive,
          LateRetriesSkip, ReplaysAreGood, LateRetryIsReplayed, TypeOK
  <1>2. CASE To(r, "missed") /\ unread' = (unread \/ stored # NoAnswer) /\ UNCHANGED answer
    <2>1. /\ step' \in [Clients -> Steps] /\ step'[r] = "missed"
          /\ \A d \in Clients \ {r} : step'[d] = step[d]
      BY <1>0, <1>2, Others
    <2>2. /\ UNCHANGED <<client, stored, succeeded, answer>>
          /\ before' = [before EXCEPT ![r] = OverNow]
          /\ step[r] = "new"
      BY <1>2 DEF Lookup, lockVars
    <2>3. before'[r] = OverNow /\ \A d \in Clients \ {r} : before'[d] = before[d]
      BY <2>2 DEF IdempotencyInvariant, TypeOK
    <2>4. TypeOK'
      BY <1>0, <1>2, <2>1, <2>2 DEF IdempotencyInvariant, TypeOK, OverNow
    <2>5. ~unread' => ~unread /\ stored = NoAnswer
      BY <1>2
    <2>6. ~unread' => before'[r] = {}
      BY <2>3, <2>5
      DEF OverNow, Active, IdempotencyInvariant, AnswersArrive, HandlersRun, TypeOK
    <2>7. r \notin succeeded
      BY <2>2 DEF IdempotencyInvariant, SuccessIsHandled
    <2> QED
      BY <2>1, <2>2, <2>3, <2>4, <2>5, <2>6, <2>7
      DEF IdempotencyInvariant, HandlersRun, SuccessIsHandled, AnswersArrive,
          LateRetriesSkip, ReplaysAreGood, LateRetryIsReplayed, TypeOK
  <1> QED
    BY <1>1, <1>2 DEF Lookup

(* Steps that touch only the lock and the step of one request, which does  *)
(* not lead back to the cache or into the handler.                         *)
LEMMA LeavingKeeps ==
    ASSUME IdempotencyInvariant, NEW r \in Clients, NEW s \in Steps, To(r, s),
           LockInvariant', UNCHANGED <<stored, answer, succeeded, before>>,
           s \notin {"new", "missed", "handling", "storing", "failed", "replayed"},
           unread' \in BOOLEAN, ~unread' => ~unread /\ step[r] # "storing",
           \A d \in Clients \ {r} : client'[d].status = client[d].status
    PROVE  IdempotencyInvariant'
  <1>1. /\ step' \in [Clients -> Steps] /\ step'[r] = s
        /\ \A d \in Clients \ {r} : step'[d] = step[d]
    BY Others
  <1>2. TypeOK'
    BY <1>1 DEF IdempotencyInvariant, TypeOK, LockInvariant
  <1> QED
    BY <1>1, <1>2
    DEF IdempotencyInvariant, HandlersRun, SuccessIsHandled, AnswersArrive,
        LateRetriesSkip, ReplaysAreGood, LateRetryIsReplayed, TypeOK

(* What a step of the lock does to the calls of withLock.                  *)
LEMMA LockFrame ==
    ASSUME LockInvariant, NEW r \in Clients,
           Acquire(r) \/ AcquireFailsOpen(r) \/ Finish(r) \/ Release(r) \/ Crash(r)
    PROVE  /\ \A d \in Clients \ {r} : client'[d].status = client[d].status
           /\ Acquire(r) \/ AcquireFailsOpen(r) => client'[r].status = "running"
  BY DEF LockInvariant, LockTypeOK, Acquire, AcquireFailsOpen, Run, Finish, Release, Crash

LEMMA EnterKeeps ==
    ASSUME IdempotencyInvariant, NEW r \in Clients, Enter(r), LockInvariant'
    PROVE  IdempotencyInvariant'
  <1>0. /\ "handling" \in Steps /\ "conflict" \in Steps /\ step[r] = "missed"
        /\ UNCHANGED <<stored, answer, succeeded, before, unread>>
    BY DEF Enter, Steps
  <1>1. CASE (Acquire(r) \/ AcquireFailsOpen(r)) /\ To(r, "handling")
    <2>1. /\ step' \in [Clients -> Steps] /\ step'[r] = "handling"
          /\ \A d \in Clients \ {r} : step'[d] = step[d]
      BY <1>0, <1>1, Others
    <2>2. /\ client'[r].status = "running"
          /\ \A d \in Clients \ {r} : client'[d].status = client[d].status
      BY <1>1, LockFrame DEF IdempotencyInvariant
    <2>3. TypeOK'
      BY <1>0, <2>1 DEF IdempotencyInvariant, TypeOK, LockInvariant
    <2> QED
      BY <1>0, <2>1, <2>2, <2>3
      DEF IdempotencyInvariant, HandlersRun, SuccessIsHandled, AnswersArrive,
          LateRetriesSkip, ReplaysAreGood, LateRetryIsReplayed, TypeOK
  <1>2. CASE To(r, "conflict") /\ UNCHANGED lockVars
    BY <1>0, <1>2, LeavingKeeps DEF lockVars, IdempotencyInvariant, TypeOK
  <1> QED
    BY <1>1, <1>2 DEF Enter

LEMMA AnswerKeeps ==
    ASSUME IdempotencyInvariant, NEW r \in Clients, Answer(r), LockInvariant'
    PROVE  IdempotencyInvariant'
  <1>0. /\ "storing" \in Steps /\ "failed" \in Steps /\ step[r] = "handling"
        /\ UNCHANGED <<client, stored, before, unread>>
        /\ answer' = [answer EXCEPT ![r] = r]
    BY DEF Answer, Steps, lockVars
  <1>1. PICK s \in {"storing", "failed"} :
          /\ To(r, s)
          /\ succeeded' = IF s = "storing" THEN succeeded \cup {r} ELSE succeeded
    BY DEF Answer
  <1>2. /\ step' \in [Clients -> Steps] /\ step'[r] = s
        /\ \A d \in Clients \ {r} : step'[d] = step[d]
    BY <1>0, <1>1, Others
  <1>3. /\ answer'[r] = r /\ \A d \in Clients \ {r} : answer'[d] = answer[d]
        /\ client[r].status = "running" /\ r \notin succeeded
        /\ ~unread => before[r] = {}
    BY <1>0 DEF IdempotencyInvariant, TypeOK, HandlersRun, SuccessIsHandled, LateRetriesSkip
  <1>4. TypeOK'
    BY <1>0, <1>1, <1>2 DEF IdempotencyInvariant, TypeOK, LockInvariant
  <1> QED
    BY <1>0, <1>1, <1>2, <1>3, <1>4
    DEF IdempotencyInvariant, HandlersRun, SuccessIsHandled, AnswersArrive,
        LateRetriesSkip, ReplaysAreGood, LateRetryIsReplayed, TypeOK

LEMMA StoreKeeps ==
    ASSUME IdempotencyInvariant, NEW r \in Clients, Store(r), LockInvariant'
    PROVE  IdempotencyInvariant'
  <1>0. /\ "finishing" \in Steps /\ To(r, "finishing")
        /\ UNCHANGED <<client, answer, succeeded, before>>
    BY DEF Store, Steps, lockVars
  <1>1. CASE step[r] = "storing" /\ stored' = r /\ UNCHANGED unread
    <2>1. /\ step' \in [Clients -> Steps] /\ step'[r] = "finishing"
          /\ \A d \in Clients \ {r} : step'[d] = step[d]
      BY <1>0, Others
    <2>2. r \in succeeded /\ stored' # NoAnswer
      BY <1>1 DEF IdempotencyInvariant, SuccessIsHandled
    <2>3. TypeOK'
      BY <1>0, <1>1, <2>1 DEF IdempotencyInvariant, TypeOK, LockInvariant
    <2> QED
      BY <1>0, <1>1, <2>1, <2>2, <2>3
      DEF IdempotencyInvariant, HandlersRun, SuccessIsHandled, AnswersArrive,
          LateRetriesSkip, ReplaysAreGood, LateRetryIsReplayed, TypeOK
  <1>2. CASE /\ UNCHANGED stored
             /\ \/ step[r] = "storing" /\ unread' = TRUE
                \/ step[r] = "failed" /\ UNCHANGED unread
    BY <1>0, <1>2, LeavingKeeps DEF IdempotencyInvariant, TypeOK
  <1> QED
    BY <1>1, <1>2 DEF Store

LEMMA CompleteKeeps ==
    ASSUME IdempotencyInvariant, NEW r \in Clients, Complete(r) \/ Hang(r) \/ Die(r),
           LockInvariant'
    PROVE  IdempotencyInvariant'
  <1>0. /\ {"answered", "hung", "lost"} \subseteq Steps
        /\ unread \in BOOLEAN /\ LockInvariant
    BY DEF Steps, IdempotencyInvariant, TypeOK
  <1>1. CASE /\ step[r] = "finishing" /\ Finish(r)
             /\ UNCHANGED <<stored, step, answer, succeeded, before, unread>>
    <2>1. \A d \in Clients \ {r} : client'[d].status = client[d].status
      BY <1>0, <1>1, LockFrame
    <2>2. TypeOK'
      BY <1>1 DEF IdempotencyInvariant, TypeOK, LockInvariant
    <2> QED
      BY <1>1, <2>1, <2>2
      DEF IdempotencyInvariant, HandlersRun, SuccessIsHandled, AnswersArrive,
          LateRetriesSkip, ReplaysAreGood, LateRetryIsReplayed
  <1>2. CASE /\ Release(r) /\ To(r, "answered")
             /\ UNCHANGED <<stored, answer, succeeded, before, unread>>
    <2>1. step[r] # "storing"
      BY <1>2 DEF Release, IdempotencyInvariant, HandlersRun
    <2> QED
      BY <1>0, <1>2, <2>1, LockFrame, LeavingKeeps
  <1>3. CASE Hang(r)
    BY <1>0, <1>3, LeavingKeeps DEF Hang, lockVars
  <1>4. CASE Die(r)
    BY <1>0, <1>4, LockFrame, LeavingKeeps DEF Die
  <1> QED
    BY <1>1, <1>2, <1>3, <1>4 DEF Complete

LEMMA IdempotencyStep ==
    ASSUME IdempotencyInvariant, [Next]_idempotencyVars
    PROVE  IdempotencyInvariant'
  <1>1. LockInvariant'
    BY StepsOfTheLock, LockStep DEF IdempotencyInvariant
  <1>2. ASSUME UNCHANGED <<stored, step, answer, succeeded, before, unread>>,
               \A r \in Clients : client'[r].status = client[r].status
        PROVE  IdempotencyInvariant'
    <2>1. TypeOK'
      BY <1>1, <1>2 DEF IdempotencyInvariant, TypeOK, LockInvariant
    <2> QED
      BY <1>1, <1>2, <2>1
      DEF IdempotencyInvariant, HandlersRun, SuccessIsHandled, AnswersArrive,
          LateRetriesSkip, ReplaysAreGood, LateRetryIsReplayed
  <1>3. CASE TimePasses
    <2>1. \A r \in Clients : client'[r].status = client[r].status
      BY <1>3 DEF TimePasses, Tick, IdempotencyInvariant, LockInvariant, LockTypeOK,
                  ClientStates
    <2> QED
      BY <1>2, <1>3, <2>1 DEF TimePasses
  <1>4. CASE UNCHANGED idempotencyVars
    BY <1>2, <1>4 DEF idempotencyVars, lockVars
  <1> QED
    BY <1>1, <1>3, <1>4, LookupKeeps, EnterKeeps, AnswerKeeps, StoreKeeps, CompleteKeeps
    DEF Next

LEMMA IdempotencyCorrect == Spec => []IdempotencyInvariant
  BY IdempotencyStarts, IdempotencyStep, PTL DEF Spec

(* A failure is never replayed: what a client gets back in the name of an  *)
(* earlier request is the answer of a handler that succeeded.              *)
THEOREM OnlySuccessIsReplayed == Spec => []ReplaysAreGood
  <1>1. IdempotencyInvariant => ReplaysAreGood
    BY DEF IdempotencyInvariant
  <1> QED BY <1>1, IdempotencyCorrect, PTL

(* The SET that nobody awaits is ahead of the release, so a retry that     *)
(* comes after a success does not run the handler again, unless Redis      *)
(* failed it.                                                              *)
THEOREM RetriesAreReplayed == Spec => []LateRetryIsReplayed
  <1>1. IdempotencyInvariant => LateRetryIsReplayed
    BY DEF IdempotencyInvariant
  <1> QED BY <1>1, IdempotencyCorrect, PTL

-----------------------------------------------------------------------------
(* A job of the scheduler on several workers.                              *)

(* An attempt that pauses is not the last.                                 *)
LoopsAreSound ==
    /\ attempt \in [Clients -> [number : 0 .. MaxAttempts,
                                state : {"none", "running", "pausing"}]]
    /\ \A i \in Clients : attempt[i].state = "pausing" => attempt[i].number < MaxAttempts

(* A timer does not fire ahead of its window; and whoever holds the key,   *)
(* or has fired, in a window vouches for a run in it: the one who was      *)
(* refused saw the key of one who has run, and a key left over from an     *)
(* earlier window is gone.                                                 *)
WindowsAreTaken ==
    /\ \A i \in Clients : fired[i] <= window
    /\ window > 0 /\ (~Free \/ \E i \in Clients : fired[i] = window) => runs[window] # {}

(* The inductive invariant.                                                *)
JobInvariant == LockInvariant /\ JobTypeOK /\ LoopsAreSound /\ WindowsAreTaken

(* Every step of the scheduler is one of the lock's, or leaves it alone.   *)
LEMMA JobStepsOfTheLock == [JobNext]_jobVars => [LockNext]_lockVars
  BY DEF JobNext, jobVars, lockVars, LockNext, NextWindow, Fire, Work, Succeed, Fail, Retry,
         HandBack, JobDies, JobTimePasses

LEMMA JobStarts == Clients # {} /\ JobInit => JobInvariant
  <1> SUFFICES ASSUME Clients # {}, JobInit PROVE JobInvariant
    OBVIOUS
  <1>1. LockInvariant /\ LockTypeOK
    BY LockStarts DEF JobInit, LockInvariant
  <1>2. JobTypeOK /\ LoopsAreSound /\ WindowsAreTaken
    BY <1>1, JobOptions DEF JobInit, JobTypeOK, LoopsAreSound, WindowsAreTaken, NoAttempt
  <1> QED BY <1>1, <1>2 DEF JobInvariant

(* The loop of runAttempts of i, and no other one, changes.                *)
LEMMA AttemptOf ==
    ASSUME NEW i \in Clients, NEW n \in 0 .. MaxAttempts,
           NEW s \in {"none", "running", "pausing"},
           attempt' = [attempt EXCEPT ![i] = [number |-> n, state |-> s]],
           s = "pausing" => n < MaxAttempts, LoopsAreSound
    PROVE  LoopsAreSound'
  BY DEF LoopsAreSound

(* Steps after the timer has fired: the key is released at most.           *)
LEMMA WorkKeeps ==
    ASSUME JobInvariant, LockInvariant', UNCHANGED <<window, fired, runs>>,
           Free => Free',
           LoopsAreSound'
    PROVE  JobInvariant'
  BY DEF JobInvariant, JobTypeOK, LoopsAreSound, WindowsAreTaken, LockInvariant

LEMMA FireKeeps ==
    ASSUME JobInvariant, LockInvariant', NEW i \in Clients, Fire(i)
    PROVE  JobInvariant'
  <1> USE JobOptions
  <1>1. /\ window \in 1 .. MaxWindow /\ window' = window
        /\ fired' \in [Clients -> 0 .. MaxWindow]
        /\ \A j \in Clients : fired'[j] <= window
    BY DEF Fire, JobInvariant, JobTypeOK, WindowsAreTaken
  <1>2. CASE Started(i)
    <2>1. LoopsAreSound'
      <3>1. attempt' = [attempt EXCEPT ![i] = [number |-> 1, state |-> "running"]]
        BY <1>2 DEF Started, SetAttempt
      <3>2. 1 \in 0 .. MaxAttempts
        OBVIOUS
      <3> QED BY <3>1, <3>2, AttemptOf DEF JobInvariant
    <2>2. i \in runs'[window] /\ runs' \in [1 .. MaxWindow -> SUBSET Clients]
      BY <1>1, <1>2 DEF Started, JobInvariant, JobTypeOK
    <2> QED
      BY <1>1, <2>1, <2>2
      DEF JobInvariant, JobTypeOK, LoopsAreSound, WindowsAreTaken, LockInvariant
  <1>3. CASE Refused(i) /\ UNCHANGED <<lockVars, attempt, runs>>
    <2>1. runs[window] # {}
      BY <1>1, <1>3 DEF Refused, JobInvariant, WindowsAreTaken
    <2> QED
      BY <1>1, <1>3, <2>1
      DEF JobInvariant, JobTypeOK, LoopsAreSound, WindowsAreTaken, LockInvariant
  <1> QED BY <1>2, <1>3 DEF Fire

LEMMA JobStep == ASSUME JobInvariant, [JobNext]_jobVars PROVE JobInvariant'
  <1> USE JobOptions
  <1>1. LockInvariant'
    BY JobStepsOfTheLock, LockStep DEF JobInvariant
  <1>2. JobTypeOK /\ LoopsAreSound /\ WindowsAreTaken
    BY DEF JobInvariant
  <1>3. CASE NextWindow
    <2>1. /\ window' = window + 1 /\ window' \in 1 .. MaxWindow /\ Free'
          /\ UNCHANGED <<lock, client, fired, attempt, runs>>
      BY <1>2, <1>3 DEF NextWindow, lockVars, JobTypeOK, Free
    <2>2. \A i \in Clients : fired'[i] < window'
      BY <1>2, <2>1 DEF WindowsAreTaken, JobTypeOK
    <2> QED
      BY <1>1, <1>2, <2>1, <2>2
      DEF JobInvariant, JobTypeOK, LoopsAreSound, WindowsAreTaken, LockInvariant
  <1>4. ASSUME NEW i \in Clients, Succeed(i) \/ Fail(i) \/ Retry(i) PROVE JobInvariant'
    <2>1. UNCHANGED <<lock, window, fired, runs>> /\ attempt[i].number \in 0 .. MaxAttempts
      BY <1>2, <1>4 DEF Succeed, Fail, Retry, Finish, lockVars, JobTypeOK
    <2>2. PICK n \in 0 .. MaxAttempts, s \in {"none", "running", "pausing"} :
            /\ attempt' = [attempt EXCEPT ![i] = [number |-> n, state |-> s]]
            /\ s = "pausing" => n < MaxAttempts
      <3>1. CASE Retry(i)
        <4>1. attempt[i].number + 1 \in 0 .. MaxAttempts
          BY <1>2, <2>1, <3>1 DEF Retry, LoopsAreSound
        <4> QED BY <3>1, <4>1 DEF Retry, SetAttempt
      <3>2. CASE Succeed(i)
        BY <2>1, <3>2 DEF Succeed, SetAttempt
      <3>3. CASE Fail(i)
        BY <2>1, <3>3 DEF Fail, SetAttempt
      <3> QED BY <1>4, <3>1, <3>2, <3>3
    <2>3. LoopsAreSound'
      BY <1>2, <2>2, AttemptOf
    <2> QED BY <1>1, <2>1, <2>3, WorkKeeps DEF Free
  <1>5. ASSUME NEW i \in Clients, HandBack(i) \/ JobDies(i) PROVE JobInvariant'
    <2>1. /\ UNCHANGED <<window, fired, runs>> /\ (Free => Free')
          /\ attempt' = [attempt EXCEPT ![i] = [number |-> 0, state |-> "none"]]
      BY <1>5 DEF HandBack, JobDies, Release, Crash, Free, NoKey, NoAttempt
    <2>2. LoopsAreSound'
      <3>1. 0 \in 0 .. MaxAttempts
        OBVIOUS
      <3> QED BY <1>2, <2>1, <3>1, AttemptOf
    <2> QED BY <1>1, <2>1, <2>2, WorkKeeps
  <1>6. CASE JobTimePasses \/ UNCHANGED jobVars
    <2>1. UNCHANGED <<window, fired, runs, attempt>> /\ (Free => Free')
      BY <1>6 DEF JobTimePasses, jobVars, lockVars, Tick, Free, NoKey
    <2>2. LoopsAreSound'
      BY <1>2, <2>1 DEF LoopsAreSound
    <2> QED BY <1>1, <2>1, <2>2, WorkKeeps
  <1> QED BY <1>3, <1>4, <1>5, <1>6, FireKeeps, <1>1 DEF JobNext, Work

(* A window in which the timer of every worker has fired has been taken by *)
(* one of them, whatever Redis does and whoever crashes: a job is skipped  *)
(* only for another worker's run (job-runner.ts:49).                       *)
THEOREM EveryWindowIsTaken ==
    ASSUME Clients # {} PROVE JobSpec => []NoWindowIsSkipped
  <1>1. JobSpec => []JobInvariant
    BY JobStarts, JobStep, PTL DEF JobSpec
  <1>2. JobInvariant => NoWindowIsSkipped
    BY DEF JobInvariant, WindowsAreTaken, NoWindowIsSkipped
  <1> QED BY <1>1, <1>2, PTL

(* Within the TTL of the lock no two workers run the job, and no two       *)
(* requests with one key are in the handler.                               *)
THEOREM LockExcludesUsers == (Spec => []MutualExclusion) /\ (JobSpec => []MutualExclusion)
  <1>1. Spec => LockSpec
    BY StepsOfTheLock, PTL DEF Spec, LockSpec, Init
  <1>2. JobSpec => LockSpec
    BY JobStepsOfTheLock, PTL DEF JobSpec, LockSpec, JobInit
  <1> QED BY <1>1, <1>2, LockExcludes

-----------------------------------------------------------------------------
(* The callers of one key.                                                 *)

Working(r) == reader[r] \in {"check", "fetch"}

(* While nothing has gone wrong in a round, those who look at the cache    *)
(* under the lock, or fetch, hold a lease; whoever fetches is the one that *)
(* has begun to, and when it is no longer at it, its value is cached.      *)
RoundIsSound ==
    ~ blamed =>
        /\ \A r \in Clients : Working(r) => Leased(r)
        /\ \A r \in Clients : reader[r] = "fetch" => began = {r}
        /\ began = {} \/ \E b \in Clients : began = {b} /\ (Cached \/ reader[b] = "fetch")

(* Whoever fetches without the lock has waited in vain.                    *)
Counted == gaveUp \in BOOLEAN /\ \A r \in Clients : reader[r] = "alone" => gaveUp

(* Who has time left has it from the lock.                                 *)
TimeIsLeased == \A r \in Clients : client[r].left > 0 => Leased(r)

StampedeInvariant ==
    /\ LockInvariant /\ TimeIsLeased
    /\ entry \in Nat /\ TTL \in Nat
    /\ reader \in [Clients -> {"out", "missed", "check", "fetch", "free", "wait", "alone"}]
    /\ blamed \in BOOLEAN
    /\ RoundIsSound /\ Counted

(* The lock sees nothing but its own steps.                                *)
LEMMA StampedeStepsOfTheLock == [StampedeNext]_stampedeVars => [LockNext]_lockVars
  BY DEF StampedeNext, stampedeVars, lockVars, LockNext, Read, Lock, Check, Fetched, Return,
         LookAgain, FetchedAlone, ReaderDies, Invalidate, EntryAges

LEMMA StampedeStarts == StampedeInit => StampedeInvariant
  <1> SUFFICES ASSUME StampedeInit PROVE StampedeInvariant
    OBVIOUS
  <1>1. LockInvariant /\ TimeIsLeased
    BY LockStarts DEF StampedeInit, LockInit, Idle, TimeIsLeased
  <1>2. /\ reader = [r \in Clients |-> "out"] /\ began = {} /\ blamed = FALSE /\ gaveUp = FALSE
        /\ entry \in Nat /\ TTL \in Nat
    BY LockOptions DEF StampedeInit
  <1>3. RoundIsSound /\ Counted
    BY <1>2 DEF RoundIsSound, Working, Counted
  <1> QED BY <1>1, <1>2, <1>3 DEF StampedeInvariant

LEMMA TimeStaysLeased ==
    ASSUME LockInvariant, TimeIsLeased, [LockNext]_lockVars PROVE TimeIsLeased'
  <1> USE LockOptions DEF TimeIsLeased, LockInvariant, LockTypeOK, Leased, Active
  <1>1. ASSUME NEW r \in Clients, Acquire(r) \/ AcquireFailsOpen(r) PROVE TimeIsLeased'
    BY <1>1 DEF Acquire, AcquireFailsOpen, Run
  <1>2. ASSUME NEW r \in Clients, Finish(r) PROVE TimeIsLeased'
    BY <1>2 DEF Finish, ClientStates
  <1>3. ASSUME NEW r \in Clients, Release(r) \/ Crash(r) PROVE TimeIsLeased'
    BY <1>3 DEF Release, Crash, Idle
  <1>4. CASE Tick
    BY <1>4 DEF Tick, Less, ClientStates
  <1>5. CASE UNCHANGED lockVars
    BY <1>5 DEF lockVars
  <1> QED BY <1>1, <1>2, <1>3, <1>4, <1>5 DEF LockNext

(* Only the caller that takes a step turns elsewhere.                      *)
LEMMA OneTurns ==
    ASSUME StampedeInvariant, NEW r \in Clients,
           NEW s \in {"out", "missed", "check", "fetch", "free", "wait", "alone"}, Turns(r, s)
    PROVE  /\ reader' \in [Clients -> {"out", "missed", "check", "fetch", "free", "wait",
                                       "alone"}]
           /\ reader'[r] = s /\ \A d \in Clients \ {r} : reader'[d] = reader[d]
  BY DEF StampedeInvariant, Turns

(* What the lock does for one caller leaves the others their leases.       *)
LEMMA OthersKeepLeases ==
    ASSUME LockInvariant, NEW r \in Clients,
           Acquire(r) \/ AcquireFailsOpen(r) \/ Finish(r) \/ Release(r) \/ Crash(r)
    PROVE  /\ \A d \in Clients \ {r} : client'[d] = client[d] /\ (Leased(d) => Leased(d)')
           /\ Acquire(r) => Leased(r)'
  BY LockOptions
  DEF LockInvariant, LockTypeOK, Acquire, AcquireFailsOpen, Run, Finish, Release, Crash,
      Leased, Active

(* Leases exclude each other.                                              *)
LEMMA OneWorks ==
    ASSUME StampedeInvariant, ~ blamed, NEW r \in Clients, NEW d \in Clients,
           Working(r), Working(d)
    PROVE  r = d
  BY LockOptions DEF StampedeInvariant, RoundIsSound, LockInvariant, LeaseIsBacked

(* A step of one caller that begins no fetch, and leaves the cache alone   *)
(* or fills it.                                                            *)
LEMMA TurnKeeps ==
    ASSUME StampedeInvariant, LockInvariant', TimeIsLeased', NEW r \in Clients,
           NEW s \in {"out", "missed", "check", "free", "wait", "alone"}, Turns(r, s),
           UNCHANGED began, blamed' \in BOOLEAN, ~ blamed' => ~ blamed,
           entry' = entry \/ entry' = TTL,
           ~ blamed' => entry' = TTL \/ reader[r] # "fetch",
           \A d \in Clients \ {r} : Leased(d) => Leased(d)',
           ~ blamed' /\ s = "check" => Leased(r)',
           gaveUp' = IF s = "alone" THEN TRUE ELSE gaveUp
    PROVE  StampedeInvariant'
  <1>1. /\ reader' \in [Clients -> {"out", "missed", "check", "fetch", "free", "wait", "alone"}]
        /\ reader'[r] = s /\ \A d \in Clients \ {r} : reader'[d] = reader[d]
    BY OneTurns
  <1>2. entry' \in Nat /\ TTL \in Nat /\ TTL > 0 /\ (Cached => Cached')
    BY LockOptions DEF StampedeInvariant, Cached
  <1>3. ASSUME ~ blamed' PROVE RoundIsSound'
    <2>1. \A d \in Clients : Working(d)' => Leased(d)'
      BY <1>1, <1>3 DEF StampedeInvariant, RoundIsSound, Working
    <2>2. \A d \in Clients : reader'[d] = "fetch" => began' = {d}
      BY <1>1, <1>3 DEF StampedeInvariant, RoundIsSound
    <2>3. ASSUME NEW b \in Clients, began = {b}, Cached \/ reader[b] = "fetch"
          PROVE  began' = {b} /\ (Cached' \/ reader'[b] = "fetch")
      BY <1>1, <1>2, <1>3, <2>3 DEF Cached
    <2> QED BY <1>3, <2>1, <2>2, <2>3 DEF StampedeInvariant, RoundIsSound
  <1>4. Counted'
    BY <1>1 DEF StampedeInvariant, Counted
  <1> QED BY <1>1, <1>2, <1>3, <1>4 DEF StampedeInvariant, RoundIsSound

LEMMA CheckKeeps ==
    ASSUME StampedeInvariant, LockInvariant', TimeIsLeased', NEW r \in Clients, Check(r)
    PROVE  StampedeInvariant'
  <1>1. CASE Cached /\ Finish(r) /\ Turns(r, "free") /\ UNCHANGED <<round, entry>>
    <2>1. \A d \in Clients \ {r} : Leased(d) => Leased(d)'
      BY <1>1, OthersKeepLeases DEF StampedeInvariant
    <2>2. reader[r] = "check" /\ UNCHANGED <<began, gaveUp, blamed>> /\ blamed \in BOOLEAN
      BY <1>1 DEF Check, round, StampedeInvariant
    <2> QED BY <1>1, <2>1, <2>2, TurnKeeps
  <1>2. CASE /\ Turns(r, "fetch") /\ began' = began \cup {r}
             /\ blamed' = (blamed \/ Cached) /\ UNCHANGED <<lockVars, gaveUp, entry>>
    <2>1. /\ reader' \in [Clients -> {"out", "missed", "check", "fetch", "free", "wait",
                                      "alone"}]
          /\ reader'[r] = "fetch" /\ \A d \in Clients \ {r} : reader'[d] = reader[d]
      BY <1>2, OneTurns
    <2>2. reader[r] = "check" /\ blamed' \in BOOLEAN
      BY <1>2 DEF Check, StampedeInvariant
    <2>3. ASSUME ~ blamed' PROVE RoundIsSound'
      <3>1. ~ blamed /\ ~ Cached
        BY <1>2, <2>3
      <3>2. \A d \in Clients : Working(d) => d = r
        BY <2>2, <3>1, OneWorks DEF Working
      <3>3. began' = {r}
        BY <1>2, <2>2, <3>1, <3>2 DEF StampedeInvariant, RoundIsSound, Working
      <3>4. Leased(r)'
        BY <1>2, <2>2, <3>1
        DEF StampedeInvariant, RoundIsSound, Working, lockVars, Leased, Active
      <3>5. \A d \in Clients : Working(d)' => d = r
        BY <2>1, <3>2 DEF Working
      <3> QED BY <2>1, <3>3, <3>4, <3>5 DEF RoundIsSound, Working
    <2>4. Counted'
      BY <1>2, <2>1 DEF StampedeInvariant, Counted
    <2> QED BY <1>2, <2>1, <2>2, <2>3, <2>4 DEF StampedeInvariant, RoundIsSound
  <1> QED BY <1>1, <1>2 DEF Check, round

(* A new round begins with nobody fetching and all who work holding        *)
(* leases, or is blamed.                                                   *)
LEMMA RoundKeeps ==
    ASSUME StampedeInvariant, LockInvariant', TimeIsLeased', NewRound, UNCHANGED reader,
           entry' \in Nat
    PROVE  StampedeInvariant'
  <1>1. blamed' \in BOOLEAN
    BY DEF NewRound
  <1>2. ASSUME ~ blamed'
        PROVE  \A r \in Clients : /\ reader[r] # "fetch"
                                  /\ reader[r] = "check" => client'[r].left # 0
    BY <1>2 DEF NewRound
  <1>3. \A r \in Clients : client'[r].left \in Nat
    BY LockOptions DEF LockInvariant, LockTypeOK, ClientStates
  <1>4. ASSUME ~ blamed' PROVE began' = {} /\ \A r \in Clients : Working(r)' => Leased(r)'
    BY <1>2, <1>3, <1>4 DEF NewRound, Working, TimeIsLeased
  <1>5. RoundIsSound'
    BY <1>2, <1>4 DEF RoundIsSound
  <1>6. Counted'
    BY DEF NewRound, Counted
  <1> QED BY <1>1, <1>5, <1>6 DEF StampedeInvariant

(* Time passes in a round: whoever loses its lease is to blame.            *)
LEMMA AgeKeeps ==
    ASSUME StampedeInvariant, LockInvariant', TimeIsLeased', EntryAges
    PROVE  StampedeInvariant'
  <1>1. /\ UNCHANGED reader /\ entry' = Less(entry) /\ entry \in Nat /\ entry' \in Nat
        /\ \A r \in Clients : client'[r].left = Less(client[r].left)
        /\ \A r \in Clients : client[r].left \in Nat
    BY LockOptions
    DEF EntryAges, Tick, Less, StampedeInvariant, LockInvariant, LockTypeOK, ClientStates
  <1>2. CASE entry = 1
    BY <1>1, <1>2, RoundKeeps DEF EntryAges
  <1>3. CASE entry # 1
    <2>1. /\ began' = began /\ gaveUp' = gaveUp /\ (Cached => Cached')
          /\ blamed' = (blamed \/ \E r \in Clients : client[r].left = 1)
      BY <1>1, <1>3 DEF EntryAges, Cached, Less
    <2>2. ASSUME ~ blamed', NEW r \in Clients, Working(r) PROVE Leased(r)'
      <3>1. Leased(r) /\ client[r].left # 1
        BY <2>1, <2>2 DEF StampedeInvariant, RoundIsSound
      <3>2. client'[r].left > 0
        BY <1>1, <3>1 DEF Leased, Less
      <3> QED BY <3>2 DEF TimeIsLeased
    <2>3. RoundIsSound' /\ Counted'
      BY <1>1, <2>1, <2>2 DEF StampedeInvariant, RoundIsSound, Working, Counted
    <2> QED BY <1>1, <2>1, <2>3 DEF StampedeInvariant
  <1> QED BY <1>2, <1>3

(* Every step keeps the invariant.                                         *)
LEMMA StampedeStep ==
    ASSUME StampedeInvariant, [StampedeNext]_stampedeVars PROVE StampedeInvariant'
  <1>1. LockInvariant' /\ TimeIsLeased' /\ blamed \in BOOLEAN
    BY StampedeStepsOfTheLock, LockStep, TimeStaysLeased DEF StampedeInvariant
  <1>2. ASSUME UNCHANGED lockVars, NEW r \in Clients, Leased(r) PROVE Leased(r)'
    BY <1>2 DEF lockVars, Leased, Active
  <1>3. ASSUME NEW r \in Clients, Read(r) PROVE StampedeInvariant'
    <2>0. blamed' = blamed \/ blamed' = TRUE
      BY <1>3, Zenon DEF Read
    <2>1. /\ blamed' \in BOOLEAN /\ (~ blamed' => ~ blamed) /\ entry' = entry
          /\ reader[r] # "fetch" /\ Turns(r, "missed") /\ UNCHANGED <<lockVars, began, gaveUp>>
      <3>1. /\ entry' = entry /\ reader[r] = "out" /\ Turns(r, "missed")
            /\ UNCHANGED <<lockVars, began, gaveUp>>
        BY <1>3 DEF Read
      <3> QED BY <1>1, <2>0, <3>1
    <2> QED BY <1>1, <1>2, <2>1, TurnKeeps
  <1>4. ASSUME NEW r \in Clients, Lock(r) PROVE StampedeInvariant'
    BY <1>1, <1>2, <1>4, TurnKeeps, OthersKeepLeases DEF Lock, StampedeInvariant
  <1>5. ASSUME NEW r \in Clients, Check(r) PROVE StampedeInvariant'
    BY <1>1, <1>5, CheckKeeps
  <1>6. ASSUME NEW r \in Clients, Fetched(r) PROVE StampedeInvariant'
    <2>0. \/ entry' = TTL /\ blamed' = blamed
          \/ entry' = entry /\ blamed' = TRUE
      BY <1>6, Zenon DEF Fetched
    <2>1. /\ blamed' \in BOOLEAN /\ (~ blamed' => ~ blamed /\ entry' = TTL)
          /\ entry' = entry \/ entry' = TTL
          /\ Finish(r) /\ Turns(r, "free") /\ UNCHANGED <<began, gaveUp>>
      BY <1>1, <1>6, <2>0 DEF Fetched
    <2>2. \A d \in Clients \ {r} : Leased(d) => Leased(d)'
      BY <2>1, OthersKeepLeases DEF StampedeInvariant
    <2> QED BY <1>1, <2>1, <2>2, TurnKeeps
  <1>7. ASSUME NEW r \in Clients, Return(r) PROVE StampedeInvariant'
    BY <1>1, <1>7, TurnKeeps, OthersKeepLeases DEF Return, round, StampedeInvariant
  <1>8. ASSUME NEW r \in Clients, LookAgain(r) PROVE StampedeInvariant'
    <2>1. /\ reader[r] = "wait" /\ UNCHANGED <<lockVars, entry, began, blamed>>
          /\ \/ Turns(r, "out") /\ gaveUp' = gaveUp
             \/ Turns(r, "alone") /\ gaveUp' = TRUE
             \/ Turns(r, "wait") /\ gaveUp' = gaveUp
      BY <1>8 DEF LookAgain, StampedeInvariant, Turns
    <2> QED BY <1>1, <1>2, <2>1, TurnKeeps
  <1>9. ASSUME NEW r \in Clients, FetchedAlone(r) PROVE StampedeInvariant'
    BY <1>1, <1>2, <1>9, TurnKeeps DEF FetchedAlone, round
  <1>10. ASSUME NEW r \in Clients, ReaderDies(r) PROVE StampedeInvariant'
    BY <1>1, <1>10, TurnKeeps, OthersKeepLeases DEF ReaderDies, StampedeInvariant
  <1>11. CASE Invalidate
    BY <1>1, <1>11, RoundKeeps DEF Invalidate
  <1>12. CASE EntryAges
    BY <1>1, <1>12, AgeKeeps
  <1>13. CASE UNCHANGED stampedeVars
    BY <1>1, <1>2, <1>13
    DEF stampedeVars, round, StampedeInvariant, RoundIsSound, Working, Cached, Counted
  <1> QED
    BY <1>3, <1>4, <1>5, <1>6, <1>7, <1>8, <1>9, <1>10, <1>11, <1>12, <1>13
    DEF StampedeNext

(* Of the calls that miss the cache one begins to fetch under the lock;    *)
(* who else fetches has waited in vain.                                    *)
LEMMA OneBegins == StampedeInvariant => OneFetchesForAll
  <1> SUFFICES ASSUME StampedeInvariant, ~ blamed
               PROVE  Cardinality(began) <= 1 /\ (gaveUp \/ Fetching \subseteq began)
    BY DEF OneFetchesForAll
  <1>0. gaveUp \/ Fetching \subseteq began
    BY DEF Fetching, StampedeInvariant, RoundIsSound, Counted
  <1>1. ASSUME began = {} PROVE Cardinality(began) = 0
    BY <1>1, FS_EmptySet
  <1>2. ASSUME NEW b \in Clients, began = {b} PROVE Cardinality(began) = 1
    BY <1>2, FS_Singleton
  <1>3. began = {} \/ \E b \in Clients : began = {b}
    BY DEF StampedeInvariant, RoundIsSound
  <1> QED BY <1>0, <1>1, <1>2, <1>3

-----------------------------------------------------------------------------
(* The keys of a tag.                                                      *)

(* No entry lives longer than it was given, and what a call that is not    *)
(* over has in hand is a key.                                              *)
EntriesLive ==
    /\ ttlOf \in [Keys -> Nat] /\ setTtl \in Nat
    /\ \A k \in Keys : ttlOf[k] <= Ttl[k]
    /\ members \subseteq Keys /\ known \subseteq Keys
    /\ getter \in [Calls -> [step : {"out", "store", "register"},
                             key : Keys \cup {NoEntry}]]
    /\ \A c \in Calls : getter[c].step # "out" => getter[c].key \in Keys

TagsInvariant == EntriesLive /\ SetOutlivesItsKeys

LEMMA TagsStart == TagsInit => TagsInvariant
  BY TagOptions
  DEF TagsInit, TagsInvariant, EntriesLive, SetOutlivesItsKeys, NoGetter

(* Every step keeps the invariant.                                         *)
LEMMA TagsStep == ASSUME TagsInvariant, [TagsNext]_tagVars PROVE TagsInvariant'
  <1> USE TagOptions DEF TagsInvariant
  <1>1. ASSUME NEW c \in Calls, NEW k \in Keys, Get(c, k) PROVE TagsInvariant'
    BY <1>1 DEF Get, setVars, EntriesLive, SetOutlivesItsKeys
  <1>2. ASSUME NEW c \in Calls, StoreValue(c) PROVE TagsInvariant'
    <2> DEFINE k == getter[c].key
    <2>1. k \in Keys /\ UNCHANGED setVars /\ getter' = [getter EXCEPT ![c].step = "register"]
      BY <1>2 DEF StoreValue, EntriesLive
    <2>2. \/ ttlOf' = [ttlOf EXCEPT ![k] = Ttl[k]] /\ known' = known \ {k}
          \/ UNCHANGED <<ttlOf, known>>
      BY <1>2 DEF StoreValue
    <2>3. Ttl[k] \in Nat
      BY <2>1
    <2> HIDE DEF k
    <2>4. /\ ttlOf' \in [Keys -> Nat] /\ \A j \in Keys : ttlOf'[j] <= Ttl[j]
          /\ known' \subseteq known /\ \A j \in known' : ttlOf'[j] = ttlOf[j]
      BY <2>1, <2>2, <2>3 DEF EntriesLive
    <2>5. /\ getter' \in [Calls -> [step : {"out", "store", "register"},
                                    key : Keys \cup {NoEntry}]]
          /\ \A d \in Calls : getter'[d].step # "out" => getter'[d].key \in Keys
      BY <1>2, <2>1 DEF EntriesLive, StoreValue
    <2> QED BY <2>1, <2>4, <2>5 DEF setVars, EntriesLive, SetOutlivesItsKeys
  <1>3. ASSUME NEW c \in Calls, RegisterKey(c) PROVE TagsInvariant'
    <2> DEFINE k == getter[c].key
    <2>1. k \in Keys /\ UNCHANGED ttlOf /\ getter' = [getter EXCEPT ![c] = NoGetter]
      BY <1>3 DEF RegisterKey, EntriesLive
    <2>2. \/ /\ members' = members \cup {k} /\ setTtl' = Ttl[k] + Spare
             /\ known' = known \cup {j \in {k} : Stored(j)}
          \/ UNCHANGED <<setVars, known>>
      BY <1>3 DEF RegisterKey, SetLives
    <2>3. Ttl[k] \in Nat /\ \A j \in Keys : Ttl[j] \in Nat /\ Ttl[j] <= Ttl[k] + Spare
      BY <2>1
    <2> HIDE DEF k
    <2>4. /\ getter' \in [Calls -> [step : {"out", "store", "register"},
                                    key : Keys \cup {NoEntry}]]
          /\ \A d \in Calls : getter'[d].step # "out" => getter'[d].key \in Keys
      BY <2>1 DEF EntriesLive, NoGetter
    <2> QED BY <2>1, <2>2, <2>3, <2>4 DEF setVars, EntriesLive, SetOutlivesItsKeys
  <1>4. ASSUME NEW w \in Writers, InvalidateTag(w) \/ FindKeys(w) \/ GiveUp(w)
        PROVE  TagsInvariant'
    BY <1>4
    DEF InvalidateTag, FindKeys, GiveUp, setVars, EntriesLive, SetOutlivesItsKeys
  <1>5. ASSUME NEW w \in Writers, DropKeys(w) PROVE TagsInvariant'
    BY <1>5 DEF DropKeys, setVars, EntriesLive, SetOutlivesItsKeys
  <1>6. ASSUME NEW w \in Writers, DropTag(w) PROVE TagsInvariant'
    BY <1>6 DEF DropTag, EntriesLive, SetOutlivesItsKeys
  <1>7. CASE TagsExpire
    BY <1>7 DEF TagsExpire, Lower, EntriesLive, SetOutlivesItsKeys
  <1>8. CASE UNCHANGED tagVars
    BY <1>8 DEF tagVars, setVars, EntriesLive, SetOutlivesItsKeys
  <1> QED BY <1>1, <1>2, <1>3, <1>4, <1>5, <1>6, <1>7, <1>8 DEF TagsNext

(* The two helpers of the cache keep what they are for: the set of a tag   *)
(* outlives the entries it is there to find (cache-manager.ts:58-61), and  *)
(* of the calls that miss the cache one fetches under the lock, and no     *)
(* other until a wait for it has run out (23-30, 147-170), as long as      *)
(* nothing fails and the work is done in the time of the lock.             *)
THEOREM CacheHelpersAreRight == TagsSpec /\ StampedeSpec => []CacheHelpersHold
  <1>1. TagsSpec => []TagsInvariant
    BY TagsStart, TagsStep, PTL DEF TagsSpec
  <1>2. StampedeSpec => []StampedeInvariant
    BY StampedeStarts, StampedeStep, PTL DEF StampedeSpec
  <1>3. TagsInvariant /\ StampedeInvariant => CacheHelpersHold
    BY OneBegins DEF TagsInvariant, CacheHelpersHold
  <1> QED BY <1>1, <1>2, <1>3, PTL
=============================================================================
