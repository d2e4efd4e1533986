------------------------- MODULE ResilientCallProofs -------------------------
(***************************************************************************)
(* Proofs about ResilientCall and its two parts, for any number of         *)
(* callers, attempts, slots and places in the queue, any threshold and any *)
(* times: a half open breaker has exactly one call in flight, its probe;   *)
(* the bulkhead's counter counts, its queue is bounded and no wake-up is   *)
(* lost; and retries go around neither of the two.  At the end, about      *)
(* ServerProcess: what a shutdown cuts off, and who holds a connection.    *)
(***************************************************************************)
EXTENDS ResilientCall, ServerProcess, FiniteSetTheorems, TLAPS

-----------------------------------------------------------------------------
(* The circuit breaker.                                                    *)

(* A call that returns leaves the other calls as they are.                 *)
LEMMA SettleFrame ==
    ASSUME call \in [Calls -> {NotCalling} \cup InFlight], NEW c \in Calls, Settle(c)
    PROVE  /\ call' \in [Calls -> {NotCalling} \cup InFlight]
           /\ ~Calling(c)'
           /\ \A d \in Calls \ {c} : call'[d] = call[d]
  BY DEF Settle, Calling, NotCalling

(* A call that starts does so now and leaves the others as they are.       *)
LEMMA StartFrame ==
    ASSUME call \in [Calls -> {NotCalling} \cup InFlight], now \in Nat,
           NEW c \in Calls, Start(c)
    PROVE  /\ call' \in [Calls -> {NotCalling} \cup InFlight]
           /\ Calling(c)' /\ call'[c].startedAt = now
           /\ \A d \in Calls \ {c} : call'[d] = call[d]
  BY DEF Start, Calling, NotCalling, InFlight

(* Calls of fn in flight have a start time.                                *)
LEMMA StartedInNat ==
    ASSUME call \in [Calls -> {NotCalling} \cup InFlight], NEW c \in Calls, Calling(c)
    PROVE  call[c].startedAt \in Nat
  BY DEF Calling, NotCalling, InFlight

(* No step of the breaker disturbs its inductive invariant.                *)
LEMMA ProbeStep ==
    ASSUME ProbeInvariant, [BreakerNext]_breakerVars PROVE ProbeInvariant'
  <1> USE BreakerOptions, TimeoutBeforeReset
  <1>1. BreakerTypeOK /\ now \in Nat /\ breaker \in Breakers
    BY DEF ProbeInvariant, BreakerTypeOK
  <1>2. call \in [Calls -> {NotCalling} \cup InFlight]
    BY <1>1 DEF BreakerTypeOK
  <1>3. ASSUME NEW c \in Calls, Admit(c) PROVE ProbeInvariant'
    <2>1. /\ now' = now /\ breaker' \in Breakers
          /\ breaker'.openedAt = breaker.openedAt
          /\ breaker.state = "OPEN" => breaker'.state = "HALF_OPEN"
          /\ breaker.state # "OPEN" => breaker'.state = breaker.state
      BY <1>1, <1>3 DEF Admit, Breakers
    <2>2. /\ call' \in [Calls -> {NotCalling} \cup InFlight]
          /\ Calling(c)' /\ call'[c].startedAt = now
          /\ \A d \in Calls \ {c} : call'[d] = call[d]
      BY <1>1, <1>2, <1>3, StartFrame DEF Admit
    <2>3. breaker.state \in {"OPEN", "CLOSED"}
      BY <1>1, <1>3 DEF Admit, Refused, Breakers
    <2>4. \A d \in Calls : Calling(d)' =>
              call'[d].startedAt <= now' /\ now' <= call'[d].startedAt + CallTimeout
      BY <1>1, <2>1, <2>2 DEF ProbeInvariant, Calling
    <2>5. HalfOpenIsOneProbe'
      <3> SUFFICES ASSUME breaker.state = "OPEN"
                   PROVE  /\ breaker.openedAt + ResetTimeout <= now
                          /\ \A d \in Calls : Calling(d)' => d = c
        BY <2>1, <2>2, <2>3 DEF HalfOpenIsOneProbe
      <3>1. breaker.openedAt + ResetTimeout <= now
        BY <1>1, <1>3 DEF Admit, Refused, Breakers
      <3>2. ASSUME NEW d \in Calls, Calling(d)', d # c PROVE FALSE
        <4>1. Calling(d)
          BY <2>2, <3>2 DEF Calling
        <4>2. /\ call[d].startedAt \in Nat
              /\ call[d].startedAt <= breaker.openedAt
              /\ now <= call[d].startedAt + CallTimeout
          BY <1>2, <4>1, StartedInNat DEF ProbeInvariant
        <4> QED BY <1>1, <3>1, <4>2 DEF Breakers
      <3> QED BY <3>1, <3>2
    <2> QED BY <1>1, <2>1, <2>2, <2>3, <2>4, <2>5 DEF ProbeInvariant, BreakerTypeOK
  <1>4. ASSUME NEW c \in Calls, Succeed(c) PROVE ProbeInvariant'
    <2>1. /\ now' = now /\ breaker' \in Breakers
          /\ breaker'.openedAt = breaker.openedAt /\ breaker'.state = "CLOSED"
      BY <1>1, <1>4 DEF Succeed, Breakers
    <2>2. /\ call' \in [Calls -> {NotCalling} \cup InFlight]
          /\ ~Calling(c)' /\ \A d \in Calls \ {c} : call'[d] = call[d]
      BY <1>2, <1>4, SettleFrame DEF Succeed
    <2> QED
      BY <1>1, <2>1, <2>2 DEF ProbeInvariant, BreakerTypeOK, Calling, HalfOpenIsOneProbe
  <1>5. ASSUME NEW c \in Calls, Fail(c) PROVE ProbeInvariant'
    <2>1. /\ call' \in [Calls -> {NotCalling} \cup InFlight]
          /\ ~Calling(c)' /\ \A d \in Calls \ {c} : call'[d] = call[d]
      BY <1>2, <1>5, SettleFrame DEF Fail
    <2>2. \A d \in Calls : Calling(d)' => Calling(d) /\ call'[d] = call[d]
      BY <2>1 DEF Calling
    <2>3. /\ now' = now /\ breaker' \in Breakers
          /\ \/ breaker'.state = "OPEN" /\ breaker'.openedAt = now
             \/ /\ breaker'.state = breaker.state /\ breaker.state # "HALF_OPEN"
                /\ breaker'.openedAt = breaker.openedAt
      BY <1>1, <1>5 DEF Fail, Breakers
    <2> QED
      BY <1>1, <2>1, <2>2, <2>3 DEF ProbeInvariant, BreakerTypeOK, HalfOpenIsOneProbe
  <1>6. ASSUME Tick PROVE ProbeInvariant'
    <2>1. now' = now + 1 /\ breaker' = breaker /\ call' = call
      BY <1>6 DEF Tick
    <2>2. \A c \in Calls : Calling(c) =>
              call[c].startedAt <= now + 1 /\ now + 1 <= call[c].startedAt + CallTimeout
      BY <1>1, <1>2, <1>6, StartedInNat DEF Tick, ProbeInvariant
    <2> QED
      BY <1>1, <2>1, <2>2
      DEF ProbeInvariant, BreakerTypeOK, HalfOpenIsOneProbe, Calling, Breakers
  <1>7. ASSUME UNCHANGED breakerVars PROVE ProbeInvariant'
    BY <1>7 DEF breakerVars, ProbeInvariant, BreakerTypeOK, HalfOpenIsOneProbe, Calling
  <1> QED BY <1>3, <1>4, <1>5, <1>6, <1>7 DEF BreakerNext

LEMMA ProbeStarts == BreakerInit => ProbeInvariant
  BY BreakerOptions
  DEF BreakerInit, ProbeInvariant, BreakerTypeOK, Breakers, Calling, NotCalling,
      HalfOpenIsOneProbe

(* The inductive invariant behind "SATU request percobaan" of              *)
(* circuit-breaker.ts holds in every reachable state.                      *)
THEOREM ProbeCorrect == BreakerSpec => []ProbeInvariant
  BY ProbeStarts, ProbeStep, PTL DEF BreakerSpec

(* A half open breaker has exactly one call in flight, its probe, which    *)
(* started after the reset time.                                           *)
THEOREM OneProbe == BreakerSpec => []HalfOpenIsOneProbe
  <1>1. ProbeInvariant => HalfOpenIsOneProbe
    BY DEF ProbeInvariant
  <1> QED BY <1>1, ProbeCorrect, PTL

(* A closed breaker has not seen failureThreshold failures in a row: the   *)
(* call that makes them so many opens it in the same step.                 *)
THEOREM ClosedIsBelowThreshold == BreakerSpec => []ClosedBelowThreshold
  <1> DEFINE Inv == BreakerTypeOK /\ ClosedBelowThreshold
  <1>1. BreakerInit => Inv
    BY BreakerOptions
    DEF BreakerInit, ClosedBelowThreshold, BreakerTypeOK, Breakers, NotCalling
  <1>2. ProbeInvariant /\ ProbeInvariant' /\ Inv /\ [BreakerNext]_breakerVars => Inv'
    <2> SUFFICES ASSUME ProbeInvariant', Inv, [BreakerNext]_breakerVars
                 PROVE  ClosedBelowThreshold'
      BY DEF ProbeInvariant
    <2> USE BreakerOptions DEF ClosedBelowThreshold
    <2>0. breaker \in Breakers
      BY DEF BreakerTypeOK
    <2>1. ASSUME NEW c \in Calls, Admit(c) PROVE ClosedBelowThreshold'
      BY <2>0, <2>1 DEF Admit, Breakers
    <2>2. ASSUME NEW c \in Calls, Succeed(c) PROVE ClosedBelowThreshold'
      BY <2>0, <2>2 DEF Succeed, Breakers
    <2>3. ASSUME NEW c \in Calls, Fail(c) PROVE ClosedBelowThreshold'
      BY <2>0, <2>3 DEF Fail, Breakers
    <2>4. CASE Tick
      BY <2>4 DEF Tick
    <2>5. CASE UNCHANGED breakerVars
      BY <2>5 DEF breakerVars
    <2> QED BY <2>1, <2>2, <2>3, <2>4, <2>5 DEF BreakerNext
  <1> QED BY <1>1, <1>2, ProbeCorrect, PTL DEF BreakerSpec

-----------------------------------------------------------------------------
(* The bulkhead.                                                           *)

(* Appending and taking the first element, index by index.                 *)
LEMMA AppendIndices ==
    ASSUME NEW S, NEW q \in Seq(S), NEW e \in S
    PROVE  /\ Append(q, e) \in Seq(S)
           /\ DOMAIN Append(q, e) = 1 .. Len(q) + 1 /\ DOMAIN q = 1 .. Len(q)
           /\ \A i \in DOMAIN q : Append(q, e)[i] = q[i]
           /\ Append(q, e)[Len(q) + 1] = e
           /\ Len(q) \in Nat
  OBVIOUS

LEMMA TailIndices ==
    ASSUME NEW S, NEW q \in Seq(S), q # <<>>
    PROVE  /\ Tail(q) \in Seq(S) /\ Head(q) = q[1] /\ Head(q) \in S
           /\ DOMAIN Tail(q) = 1 .. Len(q) - 1 /\ DOMAIN q = 1 .. Len(q)
           /\ \A i \in DOMAIN Tail(q) : Tail(q)[i] = q[i + 1]
           /\ Len(q) \in Nat \ {0}
  OBVIOUS

(* Whoever is not in the line may join it at its end.                      *)
LEMMA Joins ==
    ASSUME NEW S, NEW q \in Seq(S), NEW X, Line(q, X), NEW c \in S, c \notin X
    PROVE  Line(Append(q, c), X \cup {c})
  <1> DEFINE a == Append(q, c)
  <1>1. /\ DOMAIN a = 1 .. Len(q) + 1 /\ DOMAIN q = 1 .. Len(q) /\ Len(q) \in Nat
        /\ \A i \in DOMAIN q : a[i] = q[i]
        /\ a[Len(q) + 1] = c
    BY AppendIndices
  <1> HIDE DEF a
  <1>2. \A i \in DOMAIN a : i \in DOMAIN q \/ i = Len(q) + 1
    BY <1>1
  <1>3. \A i \in DOMAIN q : q[i] # c /\ i \in DOMAIN a
    BY <1>1 DEF Line
  <1>4. \A i, j \in DOMAIN a : a[i] = a[j] => i = j
    BY <1>1, <1>2, <1>3 DEF Line
  <1>5. Len(q) + 1 \in DOMAIN a
    BY <1>1
  <1>6. X \cup {c} = {a[i] : i \in DOMAIN a}
    BY <1>1, <1>2, <1>3, <1>5 DEF Line
  <1> QED BY <1>4, <1>6 DEF Line, a

(* The first of the line leaves it.                                        *)
LEMMA FirstGoes ==
    ASSUME NEW S, NEW q \in Seq(S), NEW X, Line(q, X), q # <<>>
    PROVE  Head(q) \in X /\ Line(Tail(q), X \ {Head(q)})
  <1> DEFINE t == Tail(q)
  <1>1. /\ DOMAIN t = 1 .. Len(q) - 1 /\ DOMAIN q = 1 .. Len(q) /\ Len(q) \in Nat \ {0}
        /\ \A i \in DOMAIN t : t[i] = q[i + 1]
        /\ Head(q) = q[1]
    BY TailIndices
  <1> HIDE DEF t
  <1>2. 1 \in DOMAIN q /\ \A i \in DOMAIN t : i + 1 \in DOMAIN q /\ i + 1 # 1
    BY <1>1
  <1>3. \A i \in DOMAIN q : i # 1 => i - 1 \in DOMAIN t /\ q[i] = t[i - 1]
    BY <1>1
  <1>4. \A i, j \in DOMAIN t : t[i] = t[j] => i = j
    <2> SUFFICES ASSUME NEW i \in DOMAIN t, NEW j \in DOMAIN t, t[i] = t[j] PROVE i = j
      OBVIOUS
    <2>1. q[i + 1] = q[j + 1] /\ i \in Nat /\ j \in Nat
      BY <1>1
    <2>2. i + 1 = j + 1
      BY <1>2, <2>1 DEF Line
    <2> QED BY <2>1, <2>2
  <1>5. \A i \in DOMAIN t : t[i] \in X /\ t[i] # Head(q)
    BY <1>1, <1>2 DEF Line
  <1>6. \A x \in X \ {Head(q)} : \E i \in DOMAIN t : t[i] = x
    BY <1>1, <1>3 DEF Line
  <1>7. X \ {Head(q)} = {t[i] : i \in DOMAIN t}
    BY <1>5, <1>6
  <1>8. Head(q) \in X
    BY <1>1, <1>2 DEF Line
  <1> QED BY <1>4, <1>7, <1>8 DEF Line, t

(* The counter when one caller more, or one less, is inside.               *)
LEMMA OneMore ==
    ASSUME NEW X, NEW c, X \subseteq Calls, c \notin X
    PROVE  /\ Cardinality(X) \in Nat
           /\ Cardinality(X \cup {c}) = Cardinality(X) + 1
  BY FiniteCalls, FS_Subset, FS_AddElement, FS_CardinalityType

LEMMA OneLess ==
    ASSUME NEW X, NEW c \in X, X \subseteq Calls
    PROVE  /\ Cardinality(X) \in Nat /\ Cardinality(X \ {c}) = Cardinality(X) - 1
           /\ Cardinality(X) > 0
  <1>1. IsFiniteSet(X) /\ Cardinality(X) \in Nat
    BY FiniteCalls, FS_Subset, FS_CardinalityType
  <1>2. Cardinality(X \ {c}) = Cardinality(X) - 1
    BY <1>1, FS_RemoveElement
  <1>3. Cardinality(X \ {c}) \in Nat
    BY <1>1, FS_Subset, FS_CardinalityType
  <1> QED BY <1>1, <1>2, <1>3

BulkheadInvariant ==
    /\ BulkheadTypeOK
    /\ CountsTheCallers
    /\ QueueIsBounded
    /\ NobodyIsStranded

(* Every step keeps the inductive invariant.                               *)
LEMMA BulkheadStep ==
    ASSUME BulkheadInvariant, [BulkheadNext]_bulkheadVars PROVE BulkheadInvariant'
  <1> USE BulkheadOptions
  <1>1. /\ BulkheadTypeOK /\ active = Cardinality(Inside) /\ Inside \subseteq Calls
        /\ Line(waiters, In("waiting")) /\ Line(woken, In("woken"))
        /\ active \in Nat /\ waiters \in Seq(Calls) /\ woken \in Seq(Calls)
    BY DEF BulkheadInvariant, CountsTheCallers, BulkheadTypeOK, Inside, In
  <1>2. ASSUME NEW c \in Calls, EnterFree(c) PROVE BulkheadInvariant'
    <2>1. /\ phase' \in [Calls -> Phases] /\ Inside' = Inside \cup {c} /\ c \notin Inside
          /\ In("waiting")' = In("waiting") /\ In("woken")' = In("woken")
      BY <1>1, <1>2 DEF EnterFree, Move, BulkheadTypeOK, Phases, In, Inside
    <2>2. active' = active + 1 /\ waiters' = waiters /\ woken' = woken
      BY <1>2 DEF EnterFree
    <2>3. active' = Cardinality(Inside') /\ active' \in Nat /\ active' > 0
      BY <1>1, <2>1, <2>2, OneMore
    <2> QED
      BY <1>1, <2>1, <2>2, <2>3
      DEF BulkheadInvariant, BulkheadTypeOK, CountsTheCallers, QueueIsBounded,
          NobodyIsStranded
  <1>3. ASSUME NEW c \in Calls, Wait(c) PROVE BulkheadInvariant'
    <2>1. /\ phase' \in [Calls -> Phases] /\ Inside' = Inside /\ c \notin In("waiting")
          /\ In("waiting")' = In("waiting") \cup {c} /\ In("woken")' = In("woken")
      BY <1>1, <1>3 DEF Wait, Move, BulkheadTypeOK, Phases, In, Inside
    <2>2. active' = active /\ waiters' = Append(waiters, c) /\ woken' = woken /\ active > 0
      BY <1>1, <1>3 DEF Wait
    <2>3. Line(waiters', In("waiting")')
      BY <1>1, <2>1, <2>2, Joins
    <2>4. waiters' \in Seq(Calls) /\ Len(waiters') <= MaxQueue
      BY <1>1, <1>3 DEF Wait
    <2> QED
      BY <1>1, <2>1, <2>2, <2>3, <2>4
      DEF BulkheadInvariant, BulkheadTypeOK, CountsTheCallers, QueueIsBounded,
          NobodyIsStranded
  <1>4. ASSUME NEW c \in Calls, Resume(c) PROVE BulkheadInvariant'
    <2>1. /\ woken # <<>> /\ c = Head(woken) /\ woken' = Tail(woken)
          /\ active' = active + 1 /\ waiters' = waiters /\ Move(c, "inside")
      BY <1>4 DEF Resume
    <2>2. c \in In("woken") /\ Line(woken', In("woken") \ {c})
      BY <1>1, <2>1, FirstGoes
    <2>3. /\ phase' \in [Calls -> Phases] /\ Inside' = Inside \cup {c} /\ c \notin Inside
          /\ In("waiting")' = In("waiting") /\ In("woken")' = In("woken") \ {c}
      BY <1>1, <2>1, <2>2 DEF Move, BulkheadTypeOK, Phases, In, Inside
    <2>4. active' = Cardinality(Inside') /\ active' \in Nat /\ active' > 0
      BY <1>1, <2>1, <2>3, OneMore
    <2>5. woken' \in Seq(Calls)
      BY <1>1, <2>1
    <2> QED
      BY <1>1, <2>1, <2>2, <2>3, <2>4, <2>5
      DEF BulkheadInvariant, BulkheadTypeOK, CountsTheCallers, QueueIsBounded,
          NobodyIsStranded
  <1>5. ASSUME NEW c \in Calls, Leave(c), waiters = <<>> PROVE BulkheadInvariant'
    <2>1. /\ active' = active - 1 /\ waiters' = <<>> /\ woken' = woken
          /\ phase[c] = "inside" /\ Move(c, "outside")
      BY <1>5 DEF Leave
    <2>2. /\ phase' \in [Calls -> Phases] /\ Inside' = Inside \ {c} /\ c \in Inside
          /\ In("waiting")' = In("waiting") /\ In("woken")' = In("woken")
      BY <1>1, <2>1 DEF Move, BulkheadTypeOK, Phases, In, Inside
    <2>3. active' = Cardinality(Inside') /\ active' \in Nat
      <3>1. Cardinality(Inside \ {c}) = Cardinality(Inside) - 1 /\ Cardinality(Inside) > 0
        BY <1>1, <2>2, OneLess
      <3> QED BY <1>1, <2>1, <2>2, <3>1
    <2> QED
      BY <1>1, <1>5, <2>1, <2>2, <2>3
      DEF BulkheadInvariant, BulkheadTypeOK, CountsTheCallers, QueueIsBounded,
          NobodyIsStranded
  <1>6. ASSUME NEW c \in Calls, Leave(c), waiters # <<>> PROVE BulkheadInvariant'
    <2> DEFINE h == Head(waiters)
    <2>1. /\ active' = active - 1 /\ waiters' = Tail(waiters) /\ woken' = Append(woken, h)
          /\ phase[c] = "inside"
          /\ phase' = [phase EXCEPT ![c] = "outside", ![h] = "woken"]
      BY <1>6 DEF Leave
    <2>2. h \in In("waiting") /\ h \in Calls /\ Line(waiters', In("waiting") \ {h})
      BY <1>1, <1>6, <2>1, FirstGoes DEF In
    <2> HIDE DEF h
    <2>3. /\ phase' \in [Calls -> Phases] /\ Inside' = Inside \ {c} /\ c \in Inside
          /\ In("waiting")' = In("waiting") \ {h}
          /\ In("woken")' = In("woken") \cup {h} /\ h \notin In("woken")
      BY <1>1, <2>1, <2>2 DEF BulkheadTypeOK, Phases, In, Inside
    <2>4. active' = Cardinality(Inside') /\ active' \in Nat
      BY <1>1, <2>1, <2>3, OneLess
    <2>5. Line(woken', In("woken")')
      BY <1>1, <2>1, <2>2, <2>3, Joins
    <2>6. /\ waiters' \in Seq(Calls) /\ woken' \in Seq(Calls) /\ woken' # <<>>
          /\ Len(waiters') = Len(waiters) - 1 /\ Len(waiters) \in Nat
      BY <1>1, <1>6, <2>1, <2>2
    <2>7. BulkheadTypeOK' /\ CountsTheCallers' /\ NobodyIsStranded'
      BY <2>2, <2>3, <2>4, <2>5, <2>6 DEF BulkheadTypeOK, CountsTheCallers, NobodyIsStranded
    <2>8. QueueIsBounded'
      BY <2>6 DEF BulkheadInvariant, QueueIsBounded
    <2> QED BY <2>7, <2>8 DEF BulkheadInvariant
  <1>7. ASSUME UNCHANGED bulkheadVars PROVE BulkheadInvariant'
    BY <1>7
    DEF bulkheadVars, BulkheadInvariant, BulkheadTypeOK, CountsTheCallers,
        QueueIsBounded, NobodyIsStranded, Inside, In, Line
  <1> QED BY <1>2, <1>3, <1>4, <1>5, <1>6, <1>7 DEF BulkheadNext

LEMMA BulkheadStarts == BulkheadInit => BulkheadInvariant
  <1> SUFFICES ASSUME BulkheadInit PROVE BulkheadInvariant
    OBVIOUS
  <1>1. BulkheadTypeOK
    BY DEF BulkheadInit, BulkheadTypeOK, Phases
  <1>2. Inside = {} /\ In("waiting") = {} /\ In("woken") = {}
    BY DEF BulkheadInit, Inside, In
  <1>3. active = Cardinality(Inside)
    BY <1>2, FS_EmptySet DEF BulkheadInit
  <1>4. Line(waiters, {}) /\ Line(woken, {})
    BY DEF BulkheadInit, Line
  <1>5. CountsTheCallers /\ NobodyIsStranded
    BY <1>2, <1>3, <1>4 DEF BulkheadInit, CountsTheCallers, NobodyIsStranded
  <1>6. QueueIsBounded
    <2>1. Len(waiters) = 0
      BY DEF BulkheadInit
    <2> QED BY <2>1, BulkheadOptions DEF QueueIsBounded
  <1> QED BY <1>1, <1>5, <1>6 DEF BulkheadInvariant

(* The inductive invariant holds in every reachable state.                 *)
LEMMA BulkheadCorrect == BulkheadSpec => []BulkheadInvariant
  BY BulkheadStarts, BulkheadStep, PTL DEF BulkheadSpec

(* state.active is the number of calls of fn that run, and the queues hold *)
(* exactly the callers that wait.                                          *)
THEOREM CounterCorrect == BulkheadSpec => []CountsTheCallers
  <1>1. BulkheadInvariant => CountsTheCallers
    BY DEF BulkheadInvariant
  <1> QED BY <1>1, BulkheadCorrect, PTL

(* The queue never grows beyond maxQueue.                                  *)
THEOREM QueueBounded == BulkheadSpec => []QueueIsBounded
  <1>1. BulkheadInvariant => QueueIsBounded
    BY DEF BulkheadInvariant
  <1> QED BY <1>1, BulkheadCorrect, PTL

(* While somebody waits, somebody is inside or on the way in, who will     *)
(* wake it.                                                                *)
THEOREM NoLostWakeUp == BulkheadSpec => []NobodyIsStranded
  <1>1. BulkheadInvariant => NobodyIsStranded
    BY DEF BulkheadInvariant
  <1> QED BY <1>1, BulkheadCorrect, PTL

-----------------------------------------------------------------------------
(* The two together, under withRetry.                                      *)

RetryTypeOK ==
    /\ retry \in [Calls -> [step : Steps, attempt : 0 .. Attempts]]
    /\ failures \in 0 .. FailureThreshold

(* An attempt that is under way is one of those allowed, and after a pause *)
(* there is another one.                                                   *)
AttemptsAreCounted ==
    \A c \in Calls :
        /\ retry[c].step = "calling" => retry[c].attempt >= 1
        /\ retry[c].step = "pausing" => retry[c].attempt < Attempts

ResilientInvariant ==
    /\ ProbeInvariant
    /\ BulkheadInvariant
    /\ RetryTypeOK
    /\ AttemptsAreCounted
    /\ SlotCoversTheAttempts

(* Every step of a resilient call is one of the breaker's, or leaves it    *)
(* alone, and the same goes for the bulkhead.                              *)
LEMMA StepsOfTheParts ==
    ASSUME [Next]_resilientVars
    PROVE  [BreakerNext]_breakerVars /\ [BulkheadNext]_bulkheadVars
  <1>1. ASSUME NEW c \in Calls, NEW n, Attempt(c, n) PROVE [BreakerNext]_breakerVars
    BY <1>1 DEF Attempt, BreakerNext
  <1>2. [BreakerNext]_breakerVars
    BY <1>1
    DEF Next, resilientVars, breakerVars, BreakerNext, Enter, QueueUp, Respond, Reject,
        Retry, HandBack, TimePasses
  <1>3. [BulkheadNext]_bulkheadVars
    BY DEF Next, resilientVars, bulkheadVars, BulkheadNext, Enter, QueueUp, Respond,
           Reject, Retry, HandBack, TimePasses
  <1> QED BY <1>2, <1>3

(* The loop of c, and no other one, is at step s of attempt n.             *)
RetryBecomes(c, s, n) ==
    /\ retry' \in [Calls -> [step : Steps, attempt : 0 .. Attempts]]
    /\ retry'[c] = [step |-> s, attempt |-> n]
    /\ \A d \in Calls \ {c} : retry'[d] = retry[d]

LEMMA RetryFrame ==
    ASSUME RetryTypeOK, NEW c \in Calls, NEW s \in Steps, NEW n \in 0 .. Attempts,
           retry' = [retry EXCEPT ![c] = [step |-> s, attempt |-> n]]
    PROVE  RetryBecomes(c, s, n)
  BY DEF RetryBecomes, RetryTypeOK

(* An attempt calls the provider, or the breaker ends the loop.            *)
LEMMA AttemptFrame ==
    ASSUME ProbeInvariant, RetryTypeOK,
           NEW c \in Calls, NEW n \in 1 .. Attempts, Attempt(c, n)
    PROVE  /\ ~Calling(c)' => call' = call
           /\ \A d \in Calls \ {c} : Calling(d)' <=> Calling(d)
           /\ IF Calling(c)' /\ ~Calling(c) THEN RetryBecomes(c, "calling", n)
              ELSE call' = call /\ RetryBecomes(c, "settled", n)
  <1>1. n \in 0 .. Attempts /\ "calling" \in Steps /\ "settled" \in Steps
    BY RetryOptions DEF Steps
  <1>2. now \in Nat /\ call \in [Calls -> {NotCalling} \cup InFlight]
    BY DEF ProbeInvariant, BreakerTypeOK
  <1>3. CASE Admit(c) /\ retry' = [retry EXCEPT ![c] = [step |-> "calling", attempt |-> n]]
    <2>1. Calling(c)' /\ ~Calling(c) /\ \A d \in Calls \ {c} : call'[d] = call[d]
      BY <1>2, <1>3, StartFrame DEF Admit
    <2> QED BY <1>1, <1>3, <2>1, RetryFrame DEF Calling
  <1>4. CASE /\ retry' = [retry EXCEPT ![c] = [step |-> "settled", attempt |-> n]]
             /\ UNCHANGED breakerVars
    BY <1>1, <1>4, RetryFrame DEF breakerVars, Calling
  <1> QED BY <1>3, <1>4 DEF Attempt

(* Who is inside after a caller has come in, got in line or left.          *)
LEMMA InsideAfterEntering ==
    ASSUME BulkheadInvariant, NEW c \in Calls, EnterFree(c) \/ Resume(c)
    PROVE  c \notin Inside /\ Inside' = Inside \cup {c}
  <1>1. BulkheadTypeOK /\ Line(woken, In("woken"))
    BY DEF BulkheadInvariant, CountsTheCallers
  <1>2. phase[c] # "inside"
    <2>1. CASE EnterFree(c)
      BY <2>1 DEF EnterFree
    <2>2. CASE Resume(c)
      <3>1. woken \in Seq(Calls) /\ woken # <<>> /\ c = Head(woken)
        BY <1>1, <2>2 DEF Resume, BulkheadTypeOK
      <3>2. c \in In("woken")
        BY <1>1, <3>1, FirstGoes
      <3> QED BY <3>2 DEF In
    <2> QED BY <2>1, <2>2
  <1>3. phase' = [phase EXCEPT ![c] = "inside"]
    BY DEF EnterFree, Resume, Move
  <1> QED BY <1>1, <1>2, <1>3 DEF BulkheadTypeOK, Inside, In

LEMMA InsideAfterWaiting ==
    ASSUME BulkheadTypeOK, NEW c \in Calls, Wait(c)
    PROVE  Inside' = Inside
  BY DEF Wait, Move, BulkheadTypeOK, Inside, In

LEMMA InsideAfterLeaving ==
    ASSUME BulkheadInvariant, NEW c \in Calls, Leave(c)
    PROVE  c \in Inside /\ Inside' = Inside \ {c}
  <1>1. BulkheadTypeOK /\ Line(waiters, In("waiting"))
    BY DEF BulkheadInvariant, CountsTheCallers
  <1>2. CASE waiters = <<>>
    BY <1>1, <1>2 DEF Leave, Move, BulkheadTypeOK, Inside, In
  <1>3. CASE waiters # <<>>
    <2>1. Head(waiters) \in In("waiting")
      BY <1>1, <1>3, FirstGoes DEF BulkheadTypeOK
    <2> QED BY <1>1, <1>3, <2>1 DEF Leave, BulkheadTypeOK, Inside, In
  <1> QED BY <1>2, <1>3

(* SlotCoversTheAttempts, caller by caller.                                *)
Covered(c) ==
    /\ c \in Inside <=> retry[c].step # "outside"
    /\ Calling(c) <=> retry[c].step = "calling"

AllCovered == \A c \in Calls : Covered(c)

(* The half open breaker needs no attention of its own: its probe is       *)
(* inside, and the counter counts it.                                      *)
LEMMA CoverIsEnough ==
    ProbeInvariant /\ BulkheadInvariant /\ AllCovered => SlotCoversTheAttempts
  <1> SUFFICES ASSUME ProbeInvariant, BulkheadInvariant, AllCovered
               PROVE  SlotCoversTheAttempts
    OBVIOUS
  <1>1. ASSUME breaker.state = "HALF_OPEN" PROVE active > 0
    <2>1. PICK c \in Calls : Calling(c)
      BY <1>1 DEF ProbeInvariant, HalfOpenIsOneProbe
    <2>2. c \in Inside /\ Inside \subseteq Calls
      BY <2>1 DEF AllCovered, Covered, Inside, In
    <2> QED BY <2>2, OneLess DEF BulkheadInvariant, CountsTheCallers
  <1> QED BY <1>1 DEF SlotCoversTheAttempts, AllCovered, Covered, Inside, In

(* An attempt by a caller inside.                                          *)
LEMMA AttemptKeeps ==
    ASSUME ResilientInvariant, ProbeInvariant', BulkheadInvariant',
           NEW c \in Calls, NEW n \in 1 .. Attempts, Attempt(c, n), ~ Calling(c),
           Inside' = Inside \cup {c}, UNCHANGED failures
    PROVE  ResilientInvariant'
  <1>1. /\ \A d \in Calls \ {c} : Calling(d)' <=> Calling(d)
        /\ IF Calling(c)' THEN RetryBecomes(c, "calling", n)
           ELSE RetryBecomes(c, "settled", n)
    BY AttemptFrame DEF ResilientInvariant, Calling
  <1>2. AllCovered
    BY DEF ResilientInvariant, SlotCoversTheAttempts, AllCovered, Covered, Inside, In
  <1>3. AllCovered'
    BY <1>1, <1>2 DEF AllCovered, Covered, RetryBecomes
  <1>4. RetryTypeOK' /\ AttemptsAreCounted'
    BY <1>1 DEF ResilientInvariant, RetryTypeOK, AttemptsAreCounted, RetryBecomes
  <1>5. SlotCoversTheAttempts'
    BY <1>3, CoverIsEnough, PTL
  <1> QED BY <1>4, <1>5 DEF ResilientInvariant

(* The answer to an attempt: the caller settles or pauses.                 *)
LEMMA AnswerKeeps ==
    ASSUME ResilientInvariant, ProbeInvariant', BulkheadInvariant', NEW c \in Calls,
           Calling(c), Settle(c), NEW s \in {"settled", "pausing"},
           retry' = [retry EXCEPT ![c].step = s],
           s = "pausing" => retry[c].attempt # Attempts,
           Inside' = Inside, failures' \in 0 .. FailureThreshold
    PROVE  ResilientInvariant'
  <1>1. /\ ~ Calling(c)' /\ \A d \in Calls \ {c} : Calling(d)' <=> Calling(d)
    BY SettleFrame DEF ResilientInvariant, ProbeInvariant, BreakerTypeOK, Calling
  <1>2. RetryBecomes(c, s, retry[c].attempt) /\ retry[c].attempt \in 0 .. Attempts
    BY DEF ResilientInvariant, RetryTypeOK, RetryBecomes, Steps
  <1>3. retry[c].step = "calling" /\ AllCovered
    BY DEF ResilientInvariant, SlotCoversTheAttempts, AllCovered, Covered, Inside, In
  <1>4. AllCovered'
    BY <1>1, <1>2, <1>3 DEF AllCovered, Covered, RetryBecomes
  <1>5. RetryTypeOK' /\ AttemptsAreCounted'
    BY <1>2, <1>3, RetryOptions
    DEF ResilientInvariant, RetryTypeOK, AttemptsAreCounted, RetryBecomes
  <1>6. SlotCoversTheAttempts'
    BY <1>4, CoverIsEnough, PTL
  <1> QED BY <1>5, <1>6 DEF ResilientInvariant

LEMMA ResilientStep ==
    ASSUME ResilientInvariant, [Next]_resilientVars PROVE ResilientInvariant'
  <1> USE RetryOptions
  <1>1. ProbeInvariant' /\ BulkheadInvariant'
    BY StepsOfTheParts, ProbeStep, BulkheadStep DEF ResilientInvariant
  <1>2. AllCovered
    BY DEF ResilientInvariant, SlotCoversTheAttempts, AllCovered, Covered, Inside, In
  <1>3. FailedOnce \in 0 .. FailureThreshold
    BY BreakerOptions DEF FailedOnce, ResilientInvariant, RetryTypeOK
  <1>4. ASSUME NEW c \in Calls, Enter(c) PROVE ResilientInvariant'
    <2>1. c \notin Inside /\ Inside' = Inside \cup {c}
      BY <1>4, InsideAfterEntering DEF Enter, ResilientInvariant
    <2>2. ~ Calling(c) /\ 1 \in 1 .. Attempts
      BY <1>2, <2>1 DEF AllCovered, Covered
    <2> QED BY <1>1, <1>4, <2>1, <2>2, AttemptKeeps DEF Enter
  <1>5. ASSUME NEW c \in Calls, Retry(c) PROVE ResilientInvariant'
    <2>1. Inside' = Inside /\ c \in Inside /\ ~ Calling(c)
      BY <1>2, <1>5 DEF Retry, bulkheadVars, AllCovered, Covered, Inside, In
    <2>2. retry[c].attempt + 1 \in 1 .. Attempts
      BY <1>5 DEF Retry, ResilientInvariant, RetryTypeOK, AttemptsAreCounted
    <2> QED BY <1>1, <1>5, <2>1, <2>2, AttemptKeeps DEF Retry
  <1>6. ASSUME NEW c \in Calls, Respond(c) PROVE ResilientInvariant'
    <2>1. Inside' = Inside
      BY <1>6 DEF Respond, bulkheadVars, Inside, In
    <2>2. PICK ok \in BOOLEAN : failures' = IF ok THEN 0 ELSE FailedOnce
      BY <1>6 DEF Respond
    <2>3. failures' = 0 \/ failures' = FailedOnce
      BY <2>2, Zenon
    <2>4. failures' \in 0 .. FailureThreshold
      BY <1>3, <2>3, BreakerOptions
    <2> QED BY <1>1, <1>6, <2>1, <2>4, AnswerKeeps DEF Respond, Succeed
  <1>7. ASSUME NEW c \in Calls, Reject(c) PROVE ResilientInvariant'
    <2>1. Inside' = Inside
      BY <1>7 DEF Reject, bulkheadVars, Inside, In
    <2> QED BY <1>1, <1>3, <1>7, <2>1, AnswerKeeps DEF Reject, Fail
  <1>8. ASSUME NEW c \in Calls, HandBack(c) PROVE ResilientInvariant'
    <2>1. Inside' = Inside \ {c} /\ call' = call /\ failures' = failures
      BY <1>8, InsideAfterLeaving DEF HandBack, breakerVars, ResilientInvariant
    <2>2. RetryBecomes(c, "outside", 0)
      <3>1. "outside" \in Steps /\ 0 \in 0 .. Attempts /\ RetryTypeOK
        BY DEF Steps, ResilientInvariant
      <3> QED BY <1>8, <3>1, RetryFrame DEF HandBack
    <2>3. ~ Calling(c) /\ \A d \in Calls : Calling(d)' <=> Calling(d)
      BY <1>2, <1>8, <2>1 DEF HandBack, AllCovered, Covered, Calling
    <2>4. AllCovered'
      BY <1>2, <2>1, <2>2, <2>3 DEF AllCovered, Covered, RetryBecomes
    <2>5. RetryTypeOK' /\ AttemptsAreCounted'
      BY <2>1, <2>2 DEF ResilientInvariant, RetryTypeOK, AttemptsAreCounted, RetryBecomes
    <2>6. SlotCoversTheAttempts'
      BY <1>1, <2>4, CoverIsEnough, PTL
    <2> QED BY <1>1, <2>5, <2>6 DEF ResilientInvariant
  <1>9. ASSUME Inside' = Inside, UNCHANGED <<call, retry, failures>>
        PROVE  ResilientInvariant'
    <2>1. AllCovered'
      BY <1>2, <1>9 DEF AllCovered, Covered, Calling
    <2>2. RetryTypeOK' /\ AttemptsAreCounted'
      BY <1>9 DEF ResilientInvariant, RetryTypeOK, AttemptsAreCounted
    <2>3. SlotCoversTheAttempts'
      BY <1>1, <2>1, CoverIsEnough, PTL
    <2> QED BY <1>1, <2>2, <2>3 DEF ResilientInvariant
  <1>10. ASSUME NEW c \in Calls, QueueUp(c) PROVE ResilientInvariant'
    BY <1>9, <1>10, InsideAfterWaiting
    DEF QueueUp, breakerVars, ResilientInvariant, BulkheadInvariant
  <1>11. CASE TimePasses \/ UNCHANGED resilientVars
    BY <1>9, <1>11
    DEF TimePasses, Tick, resilientVars, breakerVars, bulkheadVars, Inside, In
  <1> QED BY <1>4, <1>5, <1>6, <1>7, <1>8, <1>10, <1>11 DEF Next

(* The composition keeps the protocols of the breaker and of the bulkhead, *)
(* so that what is proved of each holds of the two under the retries (the  *)
(* part of ImplementsItsParts that is not about fairness).                 *)
THEOREM CallsKeepBothProtocols == Spec => BreakerSpec /\ BulkheadSpec
  <1>1. Init => BreakerInit /\ BulkheadInit
    BY DEF Init
  <1> QED BY <1>1, StepsOfTheParts, PTL DEF Spec, BreakerSpec, BulkheadSpec

(* The loop of withRetry keeps its types and its bound on the attempts,    *)
(* and a caller is inside exactly while its loop runs: the inductive       *)
(* invariant of resilient-call.ts:45-62.                                   *)
THEOREM ResilientCorrect == Spec => []ResilientInvariant
  <1>1. Init => ResilientInvariant
    <2> SUFFICES ASSUME Init PROVE ResilientInvariant
      OBVIOUS
    <2>1. ProbeInvariant /\ BulkheadInvariant
      BY ProbeStarts, BulkheadStarts DEF Init
    <2>2. RetryTypeOK /\ AttemptsAreCounted
      BY RetryOptions, BreakerOptions DEF Init, RetryTypeOK, AttemptsAreCounted, Steps
    <2>3. AllCovered
      BY DEF Init, BreakerInit, BulkheadInit, AllCovered, Covered, Calling, NotCalling,
             Inside, In
    <2> QED BY <2>1, <2>2, <2>3, CoverIsEnough DEF ResilientInvariant
  <1> QED BY <1>1, ResilientStep, PTL DEF Spec

(* Whoever calls the provider or pauses between attempts holds a slot, and *)
(* the breaker leaves OPEN before its time only by the late success of a   *)
(* call that started before it opened (resilient-call.ts:45-62).           *)
THEOREM AttemptsStayOrderly == Spec => AttemptsAreOrderly
  <1>1. ASSUME ProbeInvariant, [BreakerNext]_breakerVars,
               breaker.state = "OPEN", breaker'.state # "OPEN",
               now - breaker.openedAt < ResetTimeout
        PROVE  /\ breaker'.state = "CLOSED"
               /\ \E c \in Calls : /\ Calling(c) /\ ~Calling(c)'
                                  /\ call[c].startedAt <= breaker.openedAt
    <2>1. breaker \in Breakers
      BY <1>1 DEF ProbeInvariant, BreakerTypeOK
    <2>2. PICK c \in Calls : Succeed(c)
      <3>1. ASSUME NEW c \in Calls, Fail(c) PROVE FALSE
        BY <1>1, <2>1, <3>1 DEF Fail, Breakers
      <3>2. ASSUME NEW c \in Calls, Admit(c) PROVE FALSE
        BY <1>1, <3>2 DEF Admit, Refused
      <3> QED BY <1>1, <3>1, <3>2 DEF BreakerNext, Tick, breakerVars
    <2>3. breaker'.state = "CLOSED" /\ Calling(c)
      BY <2>1, <2>2 DEF Succeed, Breakers
    <2>4. ~ Calling(c)'
      BY <1>1, <2>2, SettleFrame DEF Succeed, ProbeInvariant, BreakerTypeOK
    <2> QED BY <1>1, <2>3, <2>4 DEF ProbeInvariant
  <1>2. Spec => OnlyEarlierCallsCloseEarly
    BY <1>1, CallsKeepBothProtocols, ProbeCorrect, PTL
    DEF BreakerSpec, OnlyEarlierCallsCloseEarly
  <1>3. ResilientInvariant => SlotCoversTheAttempts
    BY DEF ResilientInvariant
  <1>4. Spec => [][SlotCoversTheAttempts']_resilientVars
    BY <1>3, ResilientCorrect, PTL
  <1> QED BY <1>2, <1>4 DEF AttemptsAreOrderly

-----------------------------------------------------------------------------
(* The shutdown of a server.                                               *)

(* Nobody is cut off before the end, the stores are closed after the last  *)
(* connection, and nothing opens one again.                                *)
ShutdownInvariant ==
    /\ http \in [Clients -> {"closed", "idle", "request"}]
    /\ stage \in {"serving", "draining", "disconnecting", "exited"}
    /\ stage # "exited" => cut = {}
    /\ stage = "disconnecting" => \A c \in Clients : http[c] = "closed"
    /\ CutOnlyByDeadline

LEMMA ShutdownStarts == ServerInit => ShutdownInvariant
  BY DEF ServerInit, ShutdownInvariant, CutOnlyByDeadline

(* Steps of requests and of their connections.                             *)
LEMMA RequestsKeepShutdown ==
    ASSUME ShutdownInvariant, NEW c \in Clients,
           Connect(c) \/ Request(c) \/ RequestStep(c) \/ Close(c)
    PROVE  ShutdownInvariant'
  <1>1. /\ UNCHANGED <<stage, how, cut>>
        /\ http' \in [Clients -> {"closed", "idle", "request"}]
        /\ stage = "disconnecting" /\ (\A d \in Clients : http[d] = "closed") =>
             \A d \in Clients : http'[d] = "closed"
    BY DEF ShutdownInvariant, Connect, Request, RequestStep, Begin, Nest, BeginNested,
           EndNested, WaitIsOver, TransactionTimesOut, Answer, Commit, Close, process
  <1> QED BY <1>1 DEF ShutdownInvariant, CutOnlyByDeadline

(* Every step keeps the invariant.                                         *)
LEMMA ShutdownStep ==
    ASSUME ShutdownInvariant, [ServerNext]_serverVars PROVE ShutdownInvariant'
  <1> USE DEF ShutdownInvariant, CutOnlyByDeadline
  <1>1. ASSUME NEW c \in Clients, Connect(c) \/ Request(c) \/ RequestStep(c) \/ Close(c)
        PROVE  ShutdownInvariant'
    BY <1>1, RequestsKeepShutdown
  <1>2. CASE Signal
    BY <1>2 DEF Signal
  <1>3. ASSUME stage = "disconnecting" PROVE Unanswered = {}
    BY <1>3 DEF Unanswered
  <1>4. CASE HttpClosed
    BY <1>4 DEF HttpClosed, Unanswered, requests
  <1>5. CASE Disconnect
    BY <1>5 DEF Disconnect
  <1>6. CASE DisconnectFails \/ Finish
    BY <1>3, <1>6 DEF DisconnectFails, Finish, Exit, requests
  <1>7. ASSUME NEW s \in Stores, Quit(s) \/ QuitTimesOut(s) PROVE ShutdownInvariant'
    BY <1>7 DEF Quit, QuitTimesOut, requests
  <1>8. CASE ForceExit
    BY <1>8 DEF ForceExit, Exit, requests
  <1>9. CASE UNCHANGED serverVars
    BY <1>9 DEF serverVars, requests, process
  <1> QED
    BY <1>1, <1>2, <1>4, <1>5, <1>6, <1>7, <1>8, <1>9 DEF ServerNext

(* A shutdown waits for all requests before it takes the database away,    *)
(* whatever signals and exceptions come on top, and cuts one off only when *)
(* its time is over (server.ts:54-72).                                     *)
THEOREM RequestsAreNotCutShort == ServerSpec => [][CutOnlyByDeadline']_serverVars
  <1>1. ServerSpec => []ShutdownInvariant
    BY ShutdownStarts, ShutdownStep, PTL DEF ServerSpec
  <1>2. ShutdownInvariant => CutOnlyByDeadline
    BY DEF ShutdownInvariant
  <1> QED BY <1>1, <1>2, PTL

-----------------------------------------------------------------------------
(* The connections of the pool.                                            *)
StepsOfRequests == {"none", "wait", "handle", "nest", "nested", "fail", "commit"}

(* Nobody keeps a connection for whom nothing is done, nor a second one    *)
(* outside of its own transaction, and the pool has them all.              *)
PoolIsAccounted ==
    /\ \A c \in outer : step[c] \notin {"none", "wait"}
    /\ \A c \in inner : step[c] = "nested"
    /\ Cardinality(outer) + Cardinality(inner) <= Pool

PoolInvariant ==
    /\ step \in [Clients -> StepsOfRequests]
    /\ outer \subseteq Clients /\ inner \subseteq Clients
    /\ IsFiniteSet(outer) /\ IsFiniteSet(inner)
    /\ PoolIsAccounted

LEMMA PoolStarts == ServerInit => PoolInvariant
  <1>1. IsFiniteSet({}) /\ Cardinality({}) = 0 /\ 0 + 0 <= Pool
    BY FS_EmptySet, PoolIsNumber
  <1>2. ServerInit => /\ outer = {} /\ inner = {}
                      /\ step \in [Clients -> StepsOfRequests]
    BY DEF ServerInit, StepsOfRequests
  <1> QED BY <1>1, <1>2 DEF PoolInvariant, PoolIsAccounted

(* What takes no connection, and gives some back or none.                  *)
LEMMA GivingBackKeepsPool ==
    ASSUME PoolInvariant, step' \in [Clients -> StepsOfRequests],
           outer' \subseteq outer, inner' \subseteq inner,
           \A c \in outer' : step'[c] \notin {"none", "wait"},
           \A c \in inner' : step'[c] = "nested"
    PROVE  PoolInvariant'
  <1>1. /\ IsFiniteSet(outer') /\ Cardinality(outer') <= Cardinality(outer)
        /\ IsFiniteSet(inner') /\ Cardinality(inner') <= Cardinality(inner)
    BY FS_Subset DEF PoolInvariant
  <1>2. /\ Cardinality(outer') \in Nat /\ Cardinality(outer) \in Nat
        /\ Cardinality(inner') \in Nat /\ Cardinality(inner) \in Nat
    BY <1>1, FS_CardinalityType DEF PoolInvariant
  <1>3. Cardinality(outer') + Cardinality(inner') <= Pool
    BY <1>1, <1>2, PoolIsNumber DEF PoolInvariant, PoolIsAccounted
  <1> QED BY <1>1, <1>3 DEF PoolInvariant, PoolIsAccounted

(* What takes one when there is a free one.                                *)
LEMMA BeginningKeepsPool ==
    ASSUME PoolInvariant, NEW c \in Clients, Begin(c) \/ BeginNested(c)
    PROVE  PoolInvariant'
  <1>1. /\ IsFiniteSet(outer) /\ IsFiniteSet(inner)
        /\ Cardinality(outer) \in Nat /\ Cardinality(inner) \in Nat
        /\ Cardinality(outer) + Cardinality(inner) < Pool
    BY FS_CardinalityType DEF PoolInvariant, Begin, BeginNested, Free
  <1>2. CASE Begin(c)
    <2>1. /\ outer' = outer \cup {c} /\ inner' = inner
          /\ step[c] = "wait" /\ step' = [step EXCEPT ![c] = "handle"]
      BY <1>2 DEF Begin, Goto
    <2>2. IsFiniteSet(outer') /\ Cardinality(outer') \in {Cardinality(outer), Cardinality(outer) + 1}
      BY <1>1, <2>1, FS_AddElement
    <2>3. Cardinality(outer') + Cardinality(inner') <= Pool
      BY <1>1, <2>1, <2>2, PoolIsNumber
    <2> QED BY <1>1, <2>1, <2>2, <2>3 DEF PoolInvariant, PoolIsAccounted, StepsOfRequests
  <1>3. CASE BeginNested(c)
    <2>1. /\ inner' = inner \cup {c} /\ outer' = outer
          /\ step[c] = "nest" /\ step' = [step EXCEPT ![c] = "nested"]
      BY <1>3 DEF BeginNested, Goto
    <2>2. IsFiniteSet(inner') /\ Cardinality(inner') \in {Cardinality(inner), Cardinality(inner) + 1}
      BY <1>1, <2>1, FS_AddElement
    <2>3. Cardinality(outer') + Cardinality(inner') <= Pool
      BY <1>1, <2>1, <2>2, PoolIsNumber
    <2> QED BY <1>1, <2>1, <2>2, <2>3 DEF PoolInvariant, PoolIsAccounted, StepsOfRequests
  <1> QED BY <1>2, <1>3

LEMMA RequestsKeepPool ==
    ASSUME PoolInvariant, NEW c \in Clients,
           Connect(c) \/ Request(c) \/ RequestStep(c) \/ Close(c)
    PROVE  PoolInvariant'
  <1> USE DEF PoolInvariant, PoolIsAccounted, StepsOfRequests, Goto
  <1>1. CASE Connect(c) \/ Request(c)
    BY <1>1, GivingBackKeepsPool DEF Connect, Request
  <1>2. CASE Begin(c) \/ BeginNested(c)
    BY <1>2, BeginningKeepsPool
  <1>3. CASE Nest(c) \/ WaitIsOver(c)
    BY <1>3, GivingBackKeepsPool DEF Nest, WaitIsOver
  <1>4. CASE EndNested(c)
    BY <1>4, GivingBackKeepsPool DEF EndNested
  <1>5. CASE TransactionTimesOut(c)
    BY <1>5, GivingBackKeepsPool DEF TransactionTimesOut
  <1>6. CASE Answer(c)
    BY <1>6, GivingBackKeepsPool DEF Answer
  <1>7. CASE Commit(c)
    BY <1>7, GivingBackKeepsPool DEF Commit
  <1>8. CASE Close(c)
    BY <1>8, GivingBackKeepsPool DEF Close
  <1> QED
    BY <1>1, <1>2, <1>3, <1>4, <1>5, <1>6, <1>7, <1>8 DEF RequestStep

LEMMA PoolStep ==
    ASSUME PoolInvariant, [ServerNext]_serverVars PROVE PoolInvariant'
  <1>1. ASSUME NEW c \in Clients, Connect(c) \/ Request(c) \/ RequestStep(c) \/ Close(c)
        PROVE  PoolInvariant'
    BY <1>1, RequestsKeepPool
  <1>2. CASE Disconnect
    <2>1. outer' = {} /\ inner' = {} /\ step' = step
      BY <1>2 DEF Disconnect
    <2> QED BY <2>1, GivingBackKeepsPool DEF PoolInvariant
  <1>3. CASE UNCHANGED <<step, outer, inner>>
    BY <1>3 DEF PoolInvariant, PoolIsAccounted
  <1>4. ASSUME \/ Signal \/ HttpClosed \/ DisconnectFails \/ Finish \/ ForceExit
               \/ UNCHANGED serverVars \/ \E s \in Stores : Quit(s) \/ QuitTimesOut(s)
        PROVE  UNCHANGED <<step, outer, inner>>
    BY <1>4 DEF Signal, HttpClosed, DisconnectFails, Finish, ForceExit, Exit, Quit,
                QuitTimesOut, requests, serverVars
  <1> QED BY <1>1, <1>2, <1>3, <1>4 DEF ServerNext

(* No connection leaks (tenant-context.ts:172-190): whatever times out, is *)
(* cut or fails, whoever is served no more has given its connections back, *)
(* and those that are held are never more than the pool has.               *)
THEOREM NoConnectionLeaks == ServerSpec => []PoolIsAccounted
  <1>1. PoolInvariant => PoolIsAccounted
    BY DEF PoolInvariant
  <1> QED BY <1>1, PoolStarts, PoolStep, PTL DEF ServerSpec
=============================================================================
