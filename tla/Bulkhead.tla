------------------------------ MODULE Bulkhead ------------------------------
(***************************************************************************)
(* withBulkhead of src/shared/reliability for one key: a semaphore with a  *)
(* FIFO queue, kept in the memory of one process.  A waiter's promise is   *)
(* resolved by a leaving call, but the waiter itself goes on only in a     *)
(* later microtask; a new caller may run in between.                       *)
(***************************************************************************)
EXTENDS Naturals, Sequences, FiniteSets, Callers

CONSTANTS
    MaxConcurrent,  \* options.maxConcurrent
    MaxQueue        \* options.maxQueue

ASSUME BulkheadOptions ==
    /\ MaxConcurrent \in Nat \ {0}
    /\ MaxQueue \in Nat

ASSUME FiniteCalls == IsFiniteSet(Calls)

VARIABLES
    active,   \* state.active
    waiters,  \* state.waiters
    woken,    \* resolved waiters whose continuation has not run yet
    phase     \* where each caller is

bulkheadVars == <<active, waiters, woken, phase>>

Phases == {"outside", "waiting", "woken", "inside"}

Move(c, p) == phase' = [phase EXCEPT ![c] = p]

-----------------------------------------------------------------------------
(* A free slot: the caller goes straight in.                               *)
EnterFree(c) ==
    /\ phase[c] = "outside"
    /\ active < MaxConcurrent
    /\ active' = active + 1
    /\ Move(c, "inside")
    /\ UNCHANGED <<waiters, woken>>

(* No free slot: the caller queues, or is refused when the queue is full   *)
(* (BulkheadRejectedError, nothing changes).                               *)
Wait(c) ==
    /\ phase[c] = "outside"
    /\ active >= MaxConcurrent
    /\ Len(waiters) < MaxQueue
    /\ waiters' = Append(waiters, c)
    /\ Move(c, "waiting")
    /\ UNCHANGED <<active, woken>>

(* The continuation of a woken waiter takes its slot without looking at    *)
(* active again; microtasks run in the order they were queued.             *)
Resume(c) ==
    /\ woken # <<>>
    /\ c = Head(woken)
    /\ woken' = Tail(woken)
    /\ active' = active + 1
    /\ Move(c, "inside")
    /\ UNCHANGED waiters

(* Mutant: the last waiter of the queue is not woken.                      *)
LeaveOffByOne(c) ==
    /\ phase[c] = "inside"
    /\ active' = active - 1
    /\ IF Len(waiters) <= 1
       THEN /\ Move(c, "outside")
            /\ UNCHANGED <<waiters, woken>>
       ELSE /\ phase' = [phase EXCEPT ![c] = "outside", ![Head(waiters)] = "woken"]
            /\ woken' = Append(woken, Head(waiters))
            /\ waiters' = Tail(waiters)

(* The finally block: free the slot, then wake the first waiter.           *)
Leave(c) ==
    /\ phase[c] = "inside"
    /\ active' = active - 1
    /\ IF waiters = <<>>
       THEN /\ Move(c, "outside")
            /\ UNCHANGED <<waiters, woken>>
       ELSE /\ phase' = [phase EXCEPT ![c] = "outside", ![Head(waiters)] = "woken"]
            /\ woken' = Append(woken, Head(waiters))
            /\ waiters' = Tail(waiters)

BulkheadInit ==
    /\ active = 0
    /\ waiters = <<>>
    /\ woken = <<>>
    /\ phase = [c \in Calls |-> "outside"]

BulkheadNext == \E c \in Calls : EnterFree(c) \/ Wait(c) \/ Resume(c) \/ Leave(c)

BulkheadSpec == BulkheadInit /\ [][BulkheadNext]_bulkheadVars

(* fn always settles (its attempts are bounded by withTimeout) and queued  *)
(* microtasks run.                                                         *)
BulkheadFairSpec ==
    /\ BulkheadSpec
    /\ \A c \in Calls : WF_bulkheadVars(Resume(c)) /\ WF_bulkheadVars(Leave(c))

-----------------------------------------------------------------------------
In(p) == {c \in Calls : phase[c] = p}
Inside == In("inside")

(* The members of X stand in q, each once.                                 *)
Line(q, X) ==
    /\ \A i, j \in DOMAIN q : q[i] = q[j] => i = j
    /\ X = {q[i] : i \in DOMAIN q}

(* Every variable keeps its type.                                          *)
BulkheadTypeOK ==
    /\ active \in Nat
    /\ waiters \in Seq(Calls)
    /\ woken \in Seq(Calls)
    /\ phase \in [Calls -> Phases]

(* state.active counts the calls of fn that run, although it is taken down *)
(* and up again in two runs of two callers when a slot changes hands; and  *)
(* a caller stands exactly in the queue its phase says, once.              *)
CountsTheCallers ==
    /\ active = Cardinality(Inside)
    /\ Line(waiters, In("waiting"))
    /\ Line(woken, In("woken"))

(* "antrian menumpuk tanpa batas" does not happen.                         *)
QueueIsBounded == Len(waiters) <= MaxQueue

(* No wake-up is lost: while somebody waits, somebody else is inside or on *)
(* the way in, who will wake it.                                           *)
NobodyIsStranded == waiters # <<>> => active > 0 \/ woken # <<>>
=============================================================================
