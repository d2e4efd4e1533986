--------------------------- MODULE LoginAttempts ---------------------------
(***************************************************************************)
(* The lock-out of one identifier (an e-mail, or mfa:<userId>), as         *)
(* login-attempt-tracker.ts keeps it in Redis: a counter of failures that  *)
(* expires, and a lock that expires.  AuthService.login and verifyMfaLogin *)
(* ask for the lock, compare the credential and then record the failure or *)
(* reset.  Each Redis command is one step; the steps of the attempts on    *)
(* all instances of the server interleave, and time passes in ticks.       *)
(***************************************************************************)
EXTENDS Integers, FiniteSets, FiniteSetsExt

CONSTANTS Attempts,     \* the attempts that can be in flight at once
          MaxFailed,    \* MAX_FAILED_ATTEMPTS
          Window,       \* ATTEMPT_WINDOW_SECONDS, in ticks
          LockFor,      \* LOCK_DURATION_SECONDS, in ticks
          MaxCount      \* bound: how far the counter is followed

ASSUME TrackerConstants ==
    /\ IsFiniteSet(Attempts)
    /\ MaxFailed \in Nat \ {0}
    /\ Window \in Nat \ {0}
    /\ LockFor \in Nat /\ LockFor >= Window
    /\ MaxCount \in Nat

VARIABLES count,    \* login_attempts:<id>; 0 when there is no such key
          ttl,      \* the ticks it has left, or Never
          lock,     \* the ticks login_lock:<id> has left; 0 when there is none
          pc,       \* where each attempt stands
          seen,     \* the count its INCR returned
          recent,   \* history: failures counted within so many ticks
          fault     \* history: Redis or a process has failed in between, or the
                    \* commands that record one failure took a tick

vars == <<count, ttl, lock, pc, seen, recent, fault>>

Never == -1
Ages == 0..(Window - 1)

TypeOK ==
    /\ count \in 0..MaxCount
    /\ ttl \in {Never} \cup 1..Window
    /\ lock \in 0..LockFor
    /\ pc \in [Attempts -> {"idle", "compare", "expire", "lock"}]
    /\ seen \in [Attempts -> 0..MaxCount]
    /\ recent \in [Ages -> 0..MaxFailed]
    /\ fault \in BOOLEAN

Init ==
    /\ count = 0 /\ ttl = Never /\ lock = 0
    /\ pc = [a \in Attempts |-> "idle"]
    /\ seen = [a \in Attempts |-> 0]
    /\ recent = [k \in Ages |-> 0]
    /\ fault = FALSE

Goto(a, step) == pc' = [pc EXCEPT ![a] = step]
Recording == {a \in Attempts : pc[a] \in {"expire", "lock"}}

-----------------------------------------------------------------------------
(* checkAccountLock: a locked identifier is refused, nothing else happens. *)
CheckLock(a) ==
    /\ pc[a] = "idle" /\ lock = 0
    /\ Goto(a, "compare")
    /\ UNCHANGED <<count, ttl, lock, seen, recent, fault>>

(* It fails open: when Redis does not answer, the attempt goes on.         *)
CheckFailsOpen(a) ==
    /\ pc[a] = "idle" /\ lock > 0
    /\ Goto(a, "compare")
    /\ fault' = TRUE
    /\ UNCHANGED <<count, ttl, lock, seen, recent>>

(* What is left to do after INCR has returned n, from the EXPIRE on.       *)
ThenLock(n) == IF n >= MaxFailed THEN "lock" ELSE "idle"

(* Mutant: the window is never given an end.                               *)
NeverExpire(n) == ThenLock(n)

ThenExpire(n) == IF n = 1 THEN "expire" ELSE ThenLock(n)

(* The credential is wrong: recordFailedAttempt, INCR.                     *)
RecordFailed(a) ==
    /\ pc[a] = "compare" /\ count < MaxCount
    /\ count' = count + 1
    /\ seen' = [seen EXCEPT ![a] = count']
    /\ recent' = [k \in Ages |-> Min({recent[k] + 1, MaxFailed})]
    /\ Goto(a, ThenExpire(count'))
    /\ UNCHANGED <<ttl, lock, fault>>

(* EXPIRE, which has no effect on a key that is gone.                      *)
Expire(a) ==
    /\ pc[a] = "expire"
    /\ ttl' = IF count = 0 THEN ttl ELSE Window
    /\ Goto(a, ThenLock(seen[a]))
    /\ UNCHANGED <<count, lock, seen, recent, fault>>

(* SET lock EX *)
SetLock(a) ==
    /\ pc[a] = "lock"
    /\ lock' = LockFor
    /\ Goto(a, "idle")
    /\ UNCHANGED <<count, ttl, seen, recent, fault>>

(* Mutant: the lock is lifted, the counter is left full.                   *)
Unlock(a) ==
    /\ pc[a] = "compare"
    /\ lock' = 0
    /\ Goto(a, "idle")
    /\ UNCHANGED <<count, ttl, seen, recent, fault>>

(* The credential is right: resetAttempts deletes both keys.               *)
Reset(a) ==
    /\ pc[a] = "compare"
    /\ count' = 0 /\ ttl' = Never
    /\ lock' = 0
    /\ Goto(a, "idle")
    /\ UNCHANGED <<seen, recent, fault>>

(* The process dies, Redis refuses the next command (the rest is skipped)  *)
(* or the attempt ends without a verdict on the credential.                *)
GiveUp(a) ==
    /\ pc[a] # "idle"
    /\ Goto(a, "idle")
    /\ fault' = TRUE
    /\ UNCHANGED <<count, ttl, lock, seen, recent>>

Older(f) == [k \in Ages |-> IF k = 0 THEN 0 ELSE f[k - 1]]

Tick ==
    /\ lock' = Max({lock - 1, 0})
    /\ IF ttl = 1 THEN count' = 0 /\ ttl' = Never
       ELSE /\ UNCHANGED count
            /\ ttl' = IF ttl = Never THEN Never ELSE ttl - 1
    /\ recent' = Older(recent)
    /\ fault' = (fault \/ Recording # {})
    /\ UNCHANGED <<pc, seen>>

Step(a) ==
    \/ CheckLock(a)
    \/ RecordFailed(a)
    \/ Expire(a)
    \/ SetLock(a)
    \/ Reset(a)

Next ==
    \/ \E a \in Attempts : Step(a) \/ CheckFailsOpen(a) \/ GiveUp(a)
    \/ Tick

Spec == Init /\ [][Next]_vars

(* Time goes on, and Redis answers the attempts that are recording.        *)
FairSpec ==
    /\ Spec
    /\ WF_vars(Tick)
    /\ \A a \in Attempts : WF_vars(Expire(a) \/ SetLock(a))

-----------------------------------------------------------------------------
(* Only a fault leaves a full counter without a lock: else the identifier  *)
(* is locked, or the attempt that filled it is on its way to lock it       *)
(* (login-attempt-tracker.ts:95-101).  The lock outlives the counter.      *)
FullCountIsLocked ==
    ~ fault /\ count >= MaxFailed => lock > 0 \/ Recording # {}

(* However the attempts overlap, one window lets through no more wrong     *)
(* guesses than the limit and one for each attempt that was in flight when *)
(* the limit was reached.                                                  *)
GuessesAreBounded ==
    ~ fault => count <= MaxFailed - 1 + Cardinality(Attempts)

RecentFailures == recent[Window - 1]

(* An identifier is locked only for MaxFailed failures within one window;  *)
(* failures far apart lock nobody out (login-attempt-tracker.ts:4-7).      *)
LockMeansBurst ==
    [][~ fault' /\ lock' > lock => RecentFailures >= MaxFailed]_vars

(* Failures alone keep nobody out for good: as long as nothing fails, the  *)
(* identifier is open to its owner again sooner or later.                  *)
EveryLockEnds == ([] ~ fault) => []<>(lock = 0)

(* Overlapping attempts get no guesses beyond these                        *)
(* (login-attempt-tracker.ts:74-118).                                      *)
GuessesAreLimited == FullCountIsLocked /\ GuessesAreBounded

(* A lock has a reason, and an end (login-attempt-tracker.ts:4-7).         *)
LocksAreBrief == LockMeansBurst /\ EveryLockEnds
=============================================================================
