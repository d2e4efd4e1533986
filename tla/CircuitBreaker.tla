--------------------------- MODULE CircuitBreaker ---------------------------
(***************************************************************************)
(* withCircuitBreaker of src/shared/reliability for one key: the breaker   *)
(* record of the process and the calls of fn in flight.  The code before   *)
(* and after "await fn()" is synchronous, so each is one action; any       *)
(* number of calls admitted earlier may still be in flight in between.     *)
(***************************************************************************)
EXTENDS Naturals, FiniteSets, Callers

CONSTANTS
    FailureThreshold,  \* options.failureThreshold
    ResetTimeout,      \* options.resetTimeoutMs
    CallTimeout,       \* timeoutMs of the withTimeout around fn
    MaxTime            \* bound on the clock

ASSUME BreakerOptions ==
    /\ FailureThreshold \in Nat \ {0}
    /\ ResetTimeout \in Nat
    /\ CallTimeout \in Nat

(* True of every preset in policies.ts: 5 s or 10 s against 30 s or 60 s.  *)
ASSUME TimeoutBeforeReset == CallTimeout < ResetTimeout

VARIABLES
    now,      \* Date.now()
    breaker,  \* the Breaker record
    call      \* the calls of fn in flight, with the time they started

breakerVars == <<now, breaker, call>>

Breakers ==
    [state : {"CLOSED", "OPEN", "HALF_OPEN"},
     consecutiveFailures : Nat, openedAt : Nat]

NotCalling == [status |-> "idle"]
InFlight == [status : {"calling"}, startedAt : Nat]

Calling(c) == call[c].status = "calling"

-----------------------------------------------------------------------------
Start(c) == call' = [call EXCEPT ![c] = [status |-> "calling", startedAt |-> now]]

(* A caller is refused with CircuitOpenError.                              *)
Refused ==
    \/ breaker.state = "OPEN" /\ now - breaker.openedAt < ResetTimeout
    \/ breaker.state = "HALF_OPEN"

(* Mutant: without the else-if branch that refuses callers in HALF_OPEN.   *)
AdmitInHalfOpen(c) ==
    /\ ~Calling(c)
    /\ ~(breaker.state = "OPEN" /\ now - breaker.openedAt < ResetTimeout)
    /\ breaker' = [breaker EXCEPT !.state = IF @ = "OPEN" THEN "HALF_OPEN" ELSE @]
    /\ Start(c)
    /\ UNCHANGED now

(* A caller gets through; the first one after the reset time is the probe. *)
Admit(c) ==
    /\ ~Calling(c)
    /\ ~Refused
    /\ breaker' = [breaker EXCEPT !.state = IF @ = "OPEN" THEN "HALF_OPEN" ELSE @]
    /\ Start(c)
    /\ UNCHANGED now

Settle(c) == call' = [call EXCEPT ![c] = NotCalling]

(* fn resolved.                                                            *)
Succeed(c) ==
    /\ Calling(c)
    /\ breaker' = [breaker EXCEPT !.state = "CLOSED", !.consecutiveFailures = 0]
    /\ Settle(c)
    /\ UNCHANGED now

(* fn rejected, be it by withTimeout.                                      *)
Fail(c) ==
    /\ Calling(c)
    /\ LET failures == breaker.consecutiveFailures + 1 IN
         breaker' =
           IF breaker.state = "HALF_OPEN" \/ failures >= FailureThreshold
           THEN [state |-> "OPEN", consecutiveFailures |-> failures, openedAt |-> now]
           ELSE [breaker EXCEPT !.consecutiveFailures = failures]
    /\ Settle(c)
    /\ UNCHANGED now

(* withTimeout settles a call no later than CallTimeout after its start.   *)
Tick ==
    /\ now < MaxTime
    /\ \A c \in Calls : Calling(c) => now < call[c].startedAt + CallTimeout
    /\ now' = now + 1
    /\ UNCHANGED <<breaker, call>>

BreakerInit ==
    /\ now = 0
    /\ breaker = [state |-> "CLOSED", consecutiveFailures |-> 0, openedAt |-> 0]
    /\ call = [c \in Calls |-> NotCalling]

BreakerNext ==
    \/ \E c \in Calls : Admit(c) \/ Succeed(c) \/ Fail(c)
    \/ Tick

BreakerSpec == BreakerInit /\ [][BreakerNext]_breakerVars

(* Every call of fn settles, by its result or by withTimeout.              *)
BreakerFairSpec == BreakerSpec /\ \A c \in Calls : WF_breakerVars(Succeed(c) \/ Fail(c))

-----------------------------------------------------------------------------
(* Every variable keeps its type.                                          *)
BreakerTypeOK ==
    /\ now \in Nat
    /\ breaker \in Breakers
    /\ call \in [Calls -> {NotCalling} \cup InFlight]

(* "SATU request percobaan": while the breaker is half open exactly one    *)
(* call is in flight, the probe; calls admitted before the breaker opened  *)
(* have timed out by then, so none of them can stand in for it.            *)
HalfOpenIsOneProbe ==
    breaker.state = "HALF_OPEN" =>
        \E c \in Calls : /\ Calling(c)
                         /\ breaker.openedAt + ResetTimeout <= call[c].startedAt
                         /\ \A d \in Calls : Calling(d) => d = c

(* A closed breaker has seen fewer failures in a row than the threshold.   *)
ClosedBelowThreshold ==
    breaker.state = "CLOSED" => breaker.consecutiveFailures < FailureThreshold

(* Why there is one probe: no call outlives its time-out, and a call that  *)
(* is still in flight while the breaker is open started before it opened.  *)
ProbeInvariant ==
    /\ BreakerTypeOK
    /\ breaker.openedAt <= now
    /\ \A c \in Calls : Calling(c) =>
         call[c].startedAt <= now /\ now <= call[c].startedAt + CallTimeout
    /\ breaker.state = "OPEN" =>
         \A c \in Calls : Calling(c) => call[c].startedAt <= breaker.openedAt
    /\ HalfOpenIsOneProbe

(* OPEN refuses callers "sampai resetTimeoutMs lewat", but not the late     *)
(* success of a call: the breaker leaves OPEN early only when a call that  *)
(* started before it opened succeeds, and then it closes.                  *)
OnlyEarlierCallsCloseEarly ==
    [][breaker.state = "OPEN" /\ breaker'.state # "OPEN"
         /\ now - breaker.openedAt < ResetTimeout =>
            /\ breaker'.state = "CLOSED"
            /\ \E c \in Calls : /\ Calling(c) /\ ~Calling(c)'
                               /\ call[c].startedAt <= breaker.openedAt]_breakerVars
=============================================================================
