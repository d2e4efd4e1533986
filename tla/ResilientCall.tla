--------------------------- MODULE ResilientCall ---------------------------
(***************************************************************************)
(* resilientCall of src/shared/reliability for one key: a call of a        *)
(* provider goes through withBulkhead, inside it through withRetry, and    *)
(* each attempt through withCircuitBreaker and withTimeout.  The bulkhead  *)
(* and the breaker are the modules of that name; this module adds the loop *)
(* of withRetry and what a provider may answer.  A slot of the bulkhead is *)
(* held over all attempts and the pauses between them.                     *)
(***************************************************************************)
EXTENDS CircuitBreaker, Bulkhead

CONSTANT Attempts   \* options.retry.attempts

ASSUME RetryOptions == Attempts \in Nat \ {0}

VARIABLES
    retry,     \* the loop of withRetry of each caller
    failures   \* history: failed answers in a row, up to FailureThreshold

resilientVars == <<breakerVars, bulkheadVars, retry, failures>>

Steps == {"outside", "calling", "pausing", "settled"}

-----------------------------------------------------------------------------
(* Mutant: a retry does not go through the circuit breaker again.          *)
AttemptUnguarded(c, n) ==
    \/ /\ Refused /\ n = 1
       /\ retry' = [retry EXCEPT ![c] = [step |-> "settled", attempt |-> n]]
       /\ UNCHANGED breakerVars
    \/ /\ ~Refused \/ n > 1
       /\ Start(c)
       /\ retry' = [retry EXCEPT ![c] = [step |-> "calling", attempt |-> n]]
       /\ UNCHANGED <<now, breaker>>

(* Mutant: a CircuitOpenError is retried and counts as no attempt.         *)
AttemptUntilOpen(c, n) ==
    \/ /\ Admit(c)
       /\ retry' = [retry EXCEPT ![c] = [step |-> "calling", attempt |-> n]]
    \/ /\ Refused
       /\ retry' = [retry EXCEPT ![c] = [step |-> "pausing", attempt |-> n - 1]]
       /\ UNCHANGED breakerVars

(* Attempt n of a caller: the breaker lets it through, or it ends the loop *)
(* because a CircuitOpenError is not retryable.                            *)
Attempt(c, n) ==
    \/ /\ Admit(c)
       /\ retry' = [retry EXCEPT ![c] = [step |-> "calling", attempt |-> n]]
    \/ /\ Refused
       /\ retry' = [retry EXCEPT ![c] = [step |-> "settled", attempt |-> n]]
       /\ UNCHANGED breakerVars

(* The slot is free, or has been handed over: the first attempt follows in *)
(* the same run of the caller.                                             *)
Enter(c) ==
    /\ EnterFree(c) \/ Resume(c)
    /\ Attempt(c, 1)
    /\ UNCHANGED failures

QueueUp(c) ==
    /\ Wait(c)
    /\ UNCHANGED <<breakerVars, retry, failures>>

FailedOnce == IF failures = FailureThreshold THEN failures ELSE failures + 1

(* fetch resolved.  It does so for an error status too: the providers look *)
(* at response.ok only after resilientCall has returned.                   *)
Respond(c) ==
    /\ Succeed(c)
    /\ retry' = [retry EXCEPT ![c].step = "settled"]
    /\ \E ok \in BOOLEAN : failures' = IF ok THEN 0 ELSE FailedOnce
    /\ UNCHANGED bulkheadVars

(* Mutant: the bulkhead is put inside the retries, each attempt a slot.    *)
RejectAndLeave(c) ==
    /\ Fail(c)
    /\ Leave(c)
    /\ retry' = [retry EXCEPT ![c].step =
                    IF retry[c].attempt = Attempts THEN "settled" ELSE "pausing"]
    /\ failures' = FailedOnce

(* fetch rejected or was aborted by the timeout.                           *)
Reject(c) ==
    /\ Fail(c)
    /\ retry' = [retry EXCEPT ![c].step =
                    IF retry[c].attempt = Attempts THEN "settled" ELSE "pausing"]
    /\ failures' = FailedOnce
    /\ UNCHANGED bulkheadVars

(* The pause before the next attempt is over.                              *)
Retry(c) ==
    /\ retry[c].step = "pausing"
    /\ Attempt(c, retry[c].attempt + 1)
    /\ UNCHANGED <<bulkheadVars, failures>>

(* withRetry has returned or thrown: the finally block of withBulkhead.    *)
HandBack(c) ==
    /\ retry[c].step = "settled"
    /\ Leave(c)
    /\ retry' = [retry EXCEPT ![c] = [step |-> "outside", attempt |-> 0]]
    /\ UNCHANGED <<breakerVars, failures>>

TimePasses == Tick /\ UNCHANGED <<bulkheadVars, retry, failures>>

Init ==
    /\ BreakerInit
    /\ BulkheadInit
    /\ retry = [c \in Calls |-> [step |-> "outside", attempt |-> 0]]
    /\ failures = 0

Next ==
    \/ \E c \in Calls :
         \/ Enter(c) \/ QueueUp(c)
         \/ Respond(c) \/ Reject(c) \/ Retry(c)
         \/ HandBack(c)
    \/ TimePasses

Spec == Init /\ [][Next]_resilientVars

(* withTimeout settles every attempt, the timer of a pause fires, and what *)
(* is queued as a microtask runs.  Nothing is assumed of new callers.      *)
FairSpec ==
    /\ Spec
    /\ \A c \in Calls :
         /\ WF_resilientVars(Respond(c) \/ Reject(c))
         /\ WF_resilientVars(Retry(c))
         /\ WF_resilientVars(Enter(c) /\ phase[c] = "woken")
         /\ WF_resilientVars(HandBack(c))

-----------------------------------------------------------------------------
(* Every variable keeps its type.                                          *)
TypeOK ==
    /\ BreakerTypeOK
    /\ BulkheadTypeOK
    /\ retry \in [Calls -> [step : Steps, attempt : 0 .. Attempts]]
    /\ failures \in 0 .. FailureThreshold

(* Whoever calls the provider or pauses between attempts holds a slot of   *)
(* the bulkhead; in particular a half open breaker has a probe with a slot *)
(* and not one that waits in the queue.                                    *)
SlotCoversTheAttempts ==
    /\ \A c \in Calls :
         /\ phase[c] = "inside" <=> retry[c].step # "outside"
         /\ Calling(c) <=> retry[c].step = "calling"
    /\ breaker.state = "HALF_OPEN" => active > 0

(* Retries, time-outs and late answers go around neither the bulkhead nor  *)
(* the reset time of the breaker (resilient-call.ts:45-62).                *)
AttemptsAreOrderly ==
    [][SlotCoversTheAttempts']_resilientVars /\ OnlyEarlierCallsCloseEarly

(* The composition keeps the protocols of the breaker and of the bulkhead, *)
(* with their fairness: retries and the queue do not get around the        *)
(* breaker, and what runs in a slot always comes to an end, since attempts *)
(* time out and are limited in number.                                     *)
ImplementsItsParts == BreakerFairSpec /\ BulkheadFairSpec

(* Every caller that got in line is answered.                              *)
EveryCallReturns == \A c \in Calls : phase[c] # "outside" ~> phase[c] = "outside"

(* The module comment of circuit-breaker.ts: failureThreshold failures in  *)
(* a row open the circuit.                                                 *)
FailingProviderIsCutOff ==
    failures = FailureThreshold => breaker.state # "CLOSED"
=============================================================================
