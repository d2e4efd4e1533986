---------------------------- MODULE LimitsProofs ----------------------------
(***************************************************************************)
(* Proofs about what limits clients: the lock-out of an identifier, for    *)
(* any number of attempts at once, and the gate of a request, for any      *)
(* number of requests and any quota.                                       *)
(***************************************************************************)
EXTENDS LoginAttempts, RequestGate, TLAPS, FiniteSetTheorems

-----------------------------------------------------------------------------
(* The lock-out of an identifier.                                          *)

LEMMA MaxOfTwo ==
    ASSUME NEW x \in Int, NEW y \in Int
    PROVE  Max({x, y}) = IF x >= y THEN x ELSE y
  <1> DEFINE m == IF x >= y THEN x ELSE y
  <1>1. m \in {x, y} /\ \A z \in {x, y} : m >= z
    OBVIOUS
  <1>2. Max({x, y}) \in {x, y} /\ \A z \in {x, y} : Max({x, y}) >= z
    BY <1>1 DEF Max
  <1> QED
    BY <1>1, <1>2

LEMMA MinOfTwo ==
    ASSUME NEW x \in Int, NEW y \in Int
    PROVE  Min({x, y}) = IF x <= y THEN x ELSE y
  <1> DEFINE m == IF x <= y THEN x ELSE y
  <1>1. m \in {x, y} /\ \A z \in {x, y} : m =< z
    OBVIOUS
  <1>2. Min({x, y}) \in {x, y} /\ \A z \in {x, y} : Min({x, y}) =< z
    BY <1>1 DEF Min
  <1> QED
    BY <1>1, <1>2

USE TrackerConstants DEF Ages, Never

(* The types of the numbers, apart from the one Boolean variable.          *)
NumbersOK ==
    /\ count \in 0..MaxCount
    /\ ttl \in {Never} \cup 1..Window
    /\ lock \in 0..LockFor
    /\ pc \in [Attempts -> {"idle", "compare", "expire", "lock"}]
    /\ seen \in [Attempts -> 0..MaxCount]
    /\ recent \in [Ages -> 0..MaxFailed]

LEMMA TypeParts == TypeOK <=> NumbersOK /\ fault \in BOOLEAN
  BY Zenon DEF TypeOK, NumbersOK

LEMMA TypeStarts == Init => TypeOK
  <1>1. Init => NumbersOK
    BY DEF Init, NumbersOK
  <1>2. Init => fault \in BOOLEAN
    BY DEF Init
  <1> QED
    BY <1>1, <1>2, TypeParts

(* One failure more, up to the limit.                                      *)
LEMMA OneMoreRecent ==
    ASSUME recent \in [Ages -> 0..MaxFailed], NEW a \in Attempts, RecordFailed(a)
    PROVE  recent' = [k \in Ages |-> IF recent[k] + 1 <= MaxFailed THEN recent[k] + 1
                                    ELSE MaxFailed]
  <1>1. \A k \in Ages : recent[k] + 1 \in Int /\ MaxFailed \in Int
    OBVIOUS
  <1>2. \A k \in Ages : Min({recent[k] + 1, MaxFailed})
                          = IF recent[k] + 1 <= MaxFailed THEN recent[k] + 1 ELSE MaxFailed
    BY <1>1, MinOfTwo
  <1> QED
    BY <1>2 DEF RecordFailed

LEMMA TypeStep ==
    ASSUME TypeOK, [Next]_vars
    PROVE  TypeOK'
  <1>0. NumbersOK
    BY TypeParts
  <1>1. ASSUME NEW a \in Attempts, RecordFailed(a)
        PROVE  NumbersOK'
    <2>1. \A k \in Ages : recent[k] \in 0..MaxFailed
      BY <1>0 DEF NumbersOK
    <2>2. \A k \in Ages : (IF recent[k] + 1 <= MaxFailed THEN recent[k] + 1 ELSE MaxFailed)
                             \in 0..MaxFailed
      BY <2>1
    <2>3. recent' \in [Ages -> 0..MaxFailed]
      BY <1>0, <1>1, <2>2, OneMoreRecent DEF NumbersOK
    <2>4. /\ count < MaxCount /\ count' = count + 1 /\ seen' = [seen EXCEPT ![a] = count']
          /\ Goto(a, ThenExpire(count')) /\ UNCHANGED <<ttl, lock>>
      BY <1>1 DEF RecordFailed
    <2> QED
      BY <1>0, <2>3, <2>4 DEF NumbersOK, Goto, ThenExpire, ThenLock
  <1>2. ASSUME NEW a \in Attempts, Expire(a)
        PROVE  NumbersOK'
    BY <1>0, <1>2 DEF Expire, NumbersOK, Goto, ThenLock
  <1>3. ASSUME NEW a \in Attempts,
               CheckLock(a) \/ SetLock(a) \/ Reset(a) \/ CheckFailsOpen(a) \/ GiveUp(a)
        PROVE  NumbersOK'
    BY <1>0, <1>3
    DEF CheckLock, SetLock, Reset, CheckFailsOpen, GiveUp, NumbersOK, Goto
  <1>4. ASSUME Tick PROVE NumbersOK'
    <2>1. lock' \in 0..LockFor
      BY <1>0, <1>4, MaxOfTwo DEF Tick, NumbersOK
    <2>2. recent' \in [Ages -> 0..MaxFailed]
      BY <1>0, <1>4 DEF Tick, Older, NumbersOK
    <2>3. count' \in 0..MaxCount /\ ttl' \in {Never} \cup 1..Window
      <3>1. CASE ttl = 1
        BY <1>0, <1>4, <3>1 DEF Tick, NumbersOK
      <3>2. CASE ttl = Never
        BY <1>0, <1>4, <3>2 DEF Tick, NumbersOK
      <3>3. CASE ttl \in 2..Window
        BY <1>0, <1>4, <3>3 DEF Tick, NumbersOK
      <3> QED
        BY <1>0, <3>1, <3>2, <3>3 DEF NumbersOK
    <2> QED
      BY <1>0, <1>4, <2>1, <2>2, <2>3 DEF Tick, NumbersOK
  <1>5. ASSUME UNCHANGED vars PROVE NumbersOK'
    BY <1>0, <1>5 DEF vars, NumbersOK
  <1>6. fault \in BOOLEAN
    BY TypeParts
  <1>7. fault' \in BOOLEAN
    BY <1>6, Zenon
    DEF Next, Step, CheckLock, RecordFailed, Expire, SetLock, Reset, CheckFailsOpen,
        GiveUp, Tick, vars
  <1>8. NumbersOK'
    BY <1>1, <1>2, <1>3, <1>4, <1>5 DEF Next, Step
  <1> QED
    BY <1>7, <1>8, Zenon DEF TypeOK, NumbersOK

(* Every variable keeps its type.                                          *)
THEOREM TrackerTypes == Spec => []TypeOK
  BY TypeStarts, TypeStep, PTL DEF Spec

-----------------------------------------------------------------------------
(* The attempts that are on their way to set the lock, and those whose     *)
(* credential is being compared.                                           *)
Will(a) == pc[a] = "lock" \/ (pc[a] = "expire" /\ seen[a] >= MaxFailed)
Locking == {a \in Attempts : Will(a)}
Comparing == {a \in Attempts : pc[a] = "compare"}
Expiring == {a \in Attempts : pc[a] = "expire"}

(* A counter has an end, or is about to be given one.                      *)
CounterEnds == count > 0 /\ Expiring = {} => ttl # Never

(* A full counter that nobody is about to lock is locked, and the lock     *)
(* outlives it, also when its EXPIRE comes later.                          *)
LockOutlives ==
    count >= MaxFailed /\ Locking = {} =>
        /\ lock > 0 /\ lock >= ttl
        /\ Expiring # {} => lock = LockFor

(* Under the lock only those count that were let in before it.             *)
CountIsPaid ==
    /\ lock > 0 => count + Cardinality(Comparing) <= MaxFailed - 1 + Cardinality(Attempts)
    /\ lock = 0 => count <= MaxFailed - 1 + Cardinality(Locking)

Tracked == CounterEnds /\ LockOutlives /\ CountIsPaid

(* The inductive invariant: it says nothing of what follows a fault.       *)
TrackerInvariant == TypeOK /\ (~fault => Tracked)

LEMMA Sets ==
    /\ IsFiniteSet(Locking) /\ IsFiniteSet(Comparing) /\ IsFiniteSet(Attempts)
    /\ Cardinality(Locking) \in Nat /\ Cardinality(Comparing) \in Nat
    /\ Cardinality(Attempts) \in Nat
    /\ Cardinality(Locking) <= Cardinality(Attempts)
    /\ Cardinality(Locking) + Cardinality(Comparing) <= Cardinality(Attempts)
  <1>1. Locking \subseteq Attempts /\ Comparing \subseteq Attempts
    BY DEF Locking, Comparing
  <1>2. IsFiniteSet(Locking) /\ IsFiniteSet(Comparing) /\ IsFiniteSet(Attempts)
    BY <1>1, FS_Subset
  <1>3. Locking \cap Comparing = {}
    BY DEF Locking, Comparing, Will
  <1>4. Cardinality(Locking \cap Comparing) = 0
    BY <1>3, FS_EmptySet
  <1>5. Cardinality(Locking \cup Comparing)
          = Cardinality(Locking) + Cardinality(Comparing) - Cardinality(Locking \cap Comparing)
    BY <1>2, FS_Union
  <1>6. Locking \cup Comparing \subseteq Attempts
    BY <1>1
  <1>7. /\ Cardinality(Locking \cup Comparing) <= Cardinality(Attempts)
        /\ Cardinality(Locking) <= Cardinality(Attempts)
    BY <1>1, <1>2, <1>6, FS_Subset
  <1>8. /\ Cardinality(Locking) \in Nat /\ Cardinality(Comparing) \in Nat
        /\ Cardinality(Attempts) \in Nat
    BY <1>2, FS_CardinalityType
  <1> QED
    BY <1>2, <1>4, <1>5, <1>7, <1>8

LEMMA TrackerStarts == Init => TrackerInvariant
  <1> SUFFICES ASSUME Init PROVE TrackerInvariant
    OBVIOUS
  <1>1. count = 0 /\ lock = 0 /\ Cardinality(Locking) \in Nat
    BY Sets DEF Init
  <1>2. Tracked
    BY <1>1 DEF Tracked, CounterEnds, LockOutlives, CountIsPaid
  <1> QED
    BY <1>2, TypeStarts DEF TrackerInvariant

(* What a step of one attempt does to the sets: the attempt moves, nobody  *)
(* else does.                                                              *)
LEMMA MoveSets ==
    ASSUME NumbersOK, NEW a \in Attempts, NEW s, Goto(a, s),
           \A b \in Attempts \ {a} : seen'[b] = seen[b]
    PROVE  /\ Locking' = IF s = "lock" \/ (s = "expire" /\ seen'[a] >= MaxFailed)
                         THEN Locking \cup {a} ELSE Locking \ {a}
           /\ Comparing' = IF s = "compare" THEN Comparing \cup {a} ELSE Comparing \ {a}
           /\ Expiring' = IF s = "expire" THEN Expiring \cup {a} ELSE Expiring \ {a}
  <1>1. pc'[a] = s /\ \A b \in Attempts \ {a} : pc'[b] = pc[b]
    BY DEF Goto, NumbersOK
  <1> QED
    BY <1>1 DEF Locking, Comparing, Expiring, Will

LEMMA CheckKeeps ==
    ASSUME NumbersOK, Tracked, NEW a \in Attempts, CheckLock(a)
    PROVE  Tracked'
  <1>1. a \notin Locking /\ a \notin Expiring
    BY DEF CheckLock, Locking, Expiring, Will
  <1>2. Locking' = Locking /\ Expiring' = Expiring
    BY <1>1, MoveSets DEF CheckLock
  <1>3. lock' = 0 /\ UNCHANGED <<count, lock, ttl>>
    BY DEF CheckLock
  <1> QED
    BY <1>2, <1>3 DEF Tracked, CounterEnds, LockOutlives, CountIsPaid

LEMMA RecordMoves ==
    ASSUME NumbersOK, NEW a \in Attempts, RecordFailed(a)
    PROVE  /\ Locking' = IF count' >= MaxFailed THEN Locking \cup {a} ELSE Locking
           /\ Expiring' = IF count' = 1 THEN Expiring \cup {a} ELSE Expiring
           /\ Comparing' = Comparing \ {a}
           /\ a \in Comparing /\ a \notin Locking
  <1>0. /\ count' = count + 1 /\ count \in Nat /\ seen'[a] = count'
        /\ Goto(a, ThenExpire(count')) /\ \A b \in Attempts \ {a} : seen'[b] = seen[b]
    BY DEF RecordFailed, NumbersOK
  <1>1. a \in Comparing /\ a \notin Locking /\ a \notin Expiring
    BY DEF RecordFailed, Comparing, Locking, Expiring, Will
  <1>2. ThenExpire(count') = IF count' = 1 THEN "expire"
                             ELSE IF count' >= MaxFailed THEN "lock" ELSE "idle"
    BY DEF ThenExpire, ThenLock
  <1> DEFINE s == ThenExpire(count')
  <1> HIDE DEF s
  <1>3. /\ Locking' = IF s = "lock" \/ (s = "expire" /\ seen'[a] >= MaxFailed)
                      THEN Locking \cup {a} ELSE Locking \ {a}
        /\ Comparing' = IF s = "compare" THEN Comparing \cup {a} ELSE Comparing \ {a}
        /\ Expiring' = IF s = "expire" THEN Expiring \cup {a} ELSE Expiring \ {a}
    <2>1. Goto(a, s)
      BY <1>0 DEF s
    <2> QED BY <1>0, <2>1, MoveSets
  <1>4. Locking' = IF count' >= MaxFailed THEN Locking \cup {a} ELSE Locking
    BY <1>0, <1>1, <1>2, <1>3 DEF s
  <1>5. Expiring' = IF count' = 1 THEN Expiring \cup {a} ELSE Expiring
    BY <1>0, <1>1, <1>2, <1>3 DEF s
  <1>6. Comparing' = Comparing \ {a}
    BY <1>2, <1>3 DEF s
  <1> QED
    BY <1>1, <1>4, <1>5, <1>6

LEMMA RecordKeeps ==
    ASSUME NumbersOK, Tracked, NEW a \in Attempts, RecordFailed(a)
    PROVE  Tracked'
  <1>0. /\ count' = count + 1 /\ count \in Nat /\ lock \in Nat
        /\ UNCHANGED <<ttl, lock>> /\ seen'[a] = count'
        /\ \A b \in Attempts \ {a} : seen'[b] = seen[b]
    BY DEF RecordFailed, NumbersOK
  <1>1. a \in Comparing /\ a \notin Locking
    BY RecordMoves
  <1>3. Locking' = IF count' >= MaxFailed THEN Locking \cup {a} ELSE Locking
    BY RecordMoves
  <1>4. Comparing' = Comparing \ {a}
    BY RecordMoves
  <1>5. Expiring' = IF count' = 1 THEN Expiring \cup {a} ELSE Expiring
    BY RecordMoves
  <1>6. Cardinality(Comparing') = Cardinality(Comparing) - 1
    BY <1>1, <1>4, Sets, FS_RemoveElement
  <1>7. Cardinality(Locking') = IF count' >= MaxFailed THEN Cardinality(Locking) + 1
                                ELSE Cardinality(Locking)
    BY <1>1, <1>3, Sets, FS_AddElement
  <1>8. CounterEnds'
    BY <1>0, <1>5 DEF Tracked, CounterEnds
  <1>9. LockOutlives'
    BY <1>3 DEF LockOutlives
  <1>10. CountIsPaid'
    BY <1>0, <1>6, <1>7, Sets DEF Tracked, CountIsPaid
  <1> QED
    BY <1>8, <1>9, <1>10 DEF Tracked

LEMMA ExpireKeeps ==
    ASSUME NumbersOK, Tracked, NEW a \in Attempts, Expire(a)
    PROVE  Tracked'
  <1>0. /\ UNCHANGED <<count, lock, seen>> /\ Goto(a, ThenLock(seen[a]))
        /\ ttl' = IF count = 0 THEN ttl ELSE Window
        /\ count \in Nat /\ lock \in Nat
    BY DEF Expire, NumbersOK
  <1>1. a \in Expiring /\ a \notin Comparing /\ (a \in Locking <=> seen[a] >= MaxFailed)
    BY DEF Expire, Comparing, Locking, Expiring, Will
  <1>2. Locking' = Locking /\ Comparing' = Comparing /\ Expiring' \subseteq Expiring
    BY <1>0, <1>1, MoveSets DEF ThenLock
  <1>3. CounterEnds'
    BY <1>0 DEF CounterEnds
  <1>4. LockOutlives'
    BY <1>0, <1>1, <1>2 DEF Tracked, LockOutlives
  <1>5. CountIsPaid'
    BY <1>0, <1>2 DEF Tracked, CountIsPaid
  <1> QED
    BY <1>3, <1>4, <1>5 DEF Tracked

LEMMA SetLockKeeps ==
    ASSUME NumbersOK, Tracked, NEW a \in Attempts, SetLock(a)
    PROVE  Tracked'
  <1>0. /\ UNCHANGED <<count, ttl, seen>> /\ lock' = LockFor /\ Goto(a, "idle")
        /\ count \in Nat /\ lock \in Nat /\ ttl \in {Never} \cup 1..Window
    BY DEF SetLock, NumbersOK
  <1>1. a \notin Expiring /\ a \notin Comparing
    BY DEF SetLock, Comparing, Expiring
  <1>2. Comparing' = Comparing /\ Expiring' = Expiring
    BY <1>0, <1>1, MoveSets
  <1>3. CounterEnds' /\ LockOutlives'
    BY <1>0, <1>2 DEF Tracked, CounterEnds, LockOutlives
  <1>4. count + Cardinality(Comparing) <= MaxFailed - 1 + Cardinality(Attempts)
    BY <1>0, Sets DEF Tracked, CountIsPaid
  <1>5. CountIsPaid'
    BY <1>0, <1>2, <1>4 DEF CountIsPaid
  <1> QED
    BY <1>3, <1>5 DEF Tracked

LEMMA ResetKeeps ==
    ASSUME NEW a \in Attempts, Reset(a)
    PROVE  Tracked'
  <1>1. count' = 0 /\ lock' = 0
    BY DEF Reset
  <1>2. IsFiniteSet(Locking') /\ Cardinality(Locking') \in Nat
    <2>1. Locking' \subseteq Attempts
      BY DEF Locking
    <2> QED
      BY <2>1, FS_Subset, FS_CardinalityType
  <1> QED
    BY <1>1, <1>2 DEF Tracked, CounterEnds, LockOutlives, CountIsPaid

LEMMA TickKeeps ==
    ASSUME NumbersOK, Tracked, Tick, Recording = {}
    PROVE  Tracked'
  <1>1. Locking = {} /\ Expiring = {}
    BY DEF Recording, Locking, Expiring, Will
  <1>2. Locking' = Locking /\ Expiring' = Expiring /\ Comparing' = Comparing
    BY DEF Tick, Locking, Expiring, Comparing, Will
  <1>3. count \in Nat /\ lock \in Nat /\ ttl \in {Never} \cup 1..Window
    BY DEF NumbersOK
  <1>4. lock' = IF lock = 0 THEN 0 ELSE lock - 1
    BY <1>3, MaxOfTwo DEF Tick
  <1>5. \/ count' = 0
        \/ count' = count /\ ttl # 1 /\ ttl' = IF ttl = Never THEN Never ELSE ttl - 1
    BY DEF Tick
  <1>6. CounterEnds'
    BY <1>1, <1>2, <1>3, <1>5 DEF Tracked, CounterEnds
  <1>7. LockOutlives'
    BY <1>1, <1>2, <1>3, <1>4, <1>5 DEF Tracked, CounterEnds, LockOutlives
  <1>8. CountIsPaid'
    BY <1>1, <1>2, <1>3, <1>4, <1>5, <1>7, Sets DEF Tracked, CountIsPaid, LockOutlives
  <1> QED
    BY <1>6, <1>7, <1>8 DEF Tracked

LEMMA TrackedStep ==
    ASSUME NumbersOK, Tracked, [Next]_vars, ~fault'
    PROVE  Tracked'
  <1>1. ASSUME UNCHANGED vars PROVE Tracked'
    <2>1. Locking' = Locking /\ Expiring' = Expiring /\ Comparing' = Comparing
      BY <1>1 DEF vars, Locking, Expiring, Comparing, Will
    <2> QED
      BY <1>1, <2>1 DEF vars, Tracked, CounterEnds, LockOutlives, CountIsPaid
  <1>2. ASSUME Tick PROVE Tracked'
    <2>1. Recording = {}
      BY <1>2, Zenon DEF Tick
    <2> QED
      BY <1>2, <2>1, TickKeeps
  <1>3. \A a \in Attempts : ~CheckFailsOpen(a) /\ ~GiveUp(a)
    BY Zenon DEF CheckFailsOpen, GiveUp
  <1> QED
    BY <1>1, <1>2, <1>3, CheckKeeps, RecordKeeps, ExpireKeeps, SetLockKeeps, ResetKeeps
    DEF Next, Step

LEMMA TrackerStep ==
    ASSUME TrackerInvariant, [Next]_vars
    PROVE  TrackerInvariant'
  <1>1. TypeOK /\ TypeOK' /\ NumbersOK
    BY TypeStep, TypeParts, Zenon DEF TrackerInvariant
  <1>2. ~fault' => ~fault
    BY Zenon
    DEF Next, Step, CheckLock, RecordFailed, Expire, SetLock, Reset, CheckFailsOpen,
        GiveUp, Tick, vars
  <1> QED
    BY <1>1, <1>2, TrackedStep, Zenon DEF TrackerInvariant

(* However the attempts overlap, a full counter is locked or being locked, *)
(* and one window lets through no more guesses than the limit and one for  *)
(* each attempt that was in flight (login-attempt-tracker.ts:74-118).      *)
THEOREM GuessesStayLimited == Spec => []GuessesAreLimited
  <1>1. NumbersOK /\ Tracked => /\ count >= MaxFailed => lock > 0 \/ Recording # {}
                                /\ count <= MaxFailed - 1 + Cardinality(Attempts)
    <2> SUFFICES ASSUME NumbersOK, Tracked
                 PROVE  /\ count >= MaxFailed => lock > 0 \/ Recording # {}
                        /\ count <= MaxFailed - 1 + Cardinality(Attempts)
      OBVIOUS
    <2>1. Locking # {} => Recording # {}
      BY DEF Locking, Will, Recording
    <2>2. count \in Nat /\ lock \in Nat
      BY DEF NumbersOK
    <2> QED
      BY <2>1, <2>2, Sets DEF Tracked, LockOutlives, CountIsPaid
  <1>2. TrackerInvariant => GuessesAreLimited
    BY <1>1, TypeParts, Zenon
    DEF TrackerInvariant, GuessesAreLimited, FullCountIsLocked, GuessesAreBounded
  <1> QED BY <1>2, TrackerStarts, TrackerStep, PTL DEF Spec

-----------------------------------------------------------------------------
(* Why an identifier is locked.  Whoever has used less of the limit than   *)
(* it counts, has used it within the window of the counter.                *)
Within(k) == recent[k] >= IF count < MaxFailed THEN count ELSE MaxFailed

(* A longer time has seen no fewer failures.                               *)
RecentGrows == \A j, k \in Ages : j <= k => recent[j] <= recent[k]

(* What a counter counts is no older than the counter, of whose life ttl   *)
(* is left; one that is still to be given an end has begun in this tick.   *)
CountIsRecent ==
    /\ Expiring # {} => Within(0)
    /\ count > 0 /\ ttl # Never => Within(Window - ttl)

(* Whoever is on the way to lock has counted to the limit.                 *)
LockersSawBurst == Locking # {} => recent[Window - 1] >= MaxFailed

Burst == RecentGrows /\ CountIsRecent /\ LockersSawBurst
BurstInvariant == ~fault => Burst

LEMMA RecordKeepsBurst ==
    ASSUME NumbersOK, NumbersOK', Tracked, Burst, NEW a \in Attempts, RecordFailed(a)
    PROVE  Burst'
  <1>0. /\ count' = count + 1 /\ count \in Nat /\ ttl' = ttl /\ seen'[a] = count'
        /\ recent \in [Ages -> 0..MaxFailed] /\ ttl \in {Never} \cup 1..Window
        /\ \A b \in Attempts \ {a} : seen'[b] = seen[b]
    BY DEF RecordFailed, NumbersOK
  <1>1. \A k \in Ages : recent'[k] = IF recent[k] + 1 <= MaxFailed THEN recent[k] + 1
                                     ELSE MaxFailed
    BY <1>0, OneMoreRecent
  <1>4. Locking' = IF count' >= MaxFailed THEN Locking \cup {a} ELSE Locking
    BY RecordMoves
  <1>5. Expiring' = IF count' = 1 THEN Expiring \cup {a} ELSE Expiring
    BY RecordMoves
  <1>6. ASSUME NEW k \in Ages, Within(k) \/ count = 0
        PROVE  recent'[k] >= IF count' < MaxFailed THEN count' ELSE MaxFailed
    <2>1. /\ recent'[k] = IF recent[k] + 1 <= MaxFailed THEN recent[k] + 1 ELSE MaxFailed
          /\ recent[k] \in Nat /\ MaxFailed \in Nat \ {0} /\ count \in Nat
          /\ count' = count + 1
      BY <1>0, <1>1
    <2>2. count = 0 \/ recent[k] >= IF count < MaxFailed THEN count ELSE MaxFailed
      BY <1>6 DEF Within
    <2> QED
      BY <2>1, <2>2
  <1>7. RecentGrows'
    BY <1>0, <1>1 DEF Burst, RecentGrows
  <1>8. CountIsRecent'
    BY <1>0, <1>5, <1>6 DEF Burst, CountIsRecent, Within
  <1>9. LockersSawBurst'
    <2>1. CASE count' >= MaxFailed
      <3>1. \E k \in Ages : Within(k) \/ count = 0
        <4>1. 0 \in Ages /\ (ttl # Never => Window - ttl \in Ages)
          BY <1>0
        <4>2. \/ count = 0 \/ Within(0)
              \/ ttl # Never /\ Within(Window - ttl)
          BY <1>0 DEF Tracked, CounterEnds, Burst, CountIsRecent
        <4> QED BY <4>1, <4>2
      <3>2. \E k \in Ages : recent'[k] >= MaxFailed
        <4>1. PICK k \in Ages : Within(k) \/ count = 0
          BY <3>1
        <4>2. recent'[k] >= IF count' < MaxFailed THEN count' ELSE MaxFailed
          BY <1>6, <4>1
        <4>3. count' \in Int /\ MaxFailed \in Int
          BY <1>0
        <4> QED BY <2>1, <4>2, <4>3
      <3> QED
        <4> PICK k \in Ages : recent'[k] >= MaxFailed
          BY <3>2
        <4>1. \A j \in Ages : recent'[j] \in Int
          BY <1>0, <1>1
        <4>2. Window - 1 \in Ages /\ k <= Window - 1
          OBVIOUS
        <4>3. recent'[k] <= recent'[Window - 1]
          BY <1>7, <4>2 DEF RecentGrows
        <4> QED BY <4>1, <4>2, <4>3 DEF LockersSawBurst
    <2>2. CASE ~ count' >= MaxFailed
      BY <1>0, <1>1, <1>4, <2>2 DEF Burst, LockersSawBurst
    <2> QED BY <2>1, <2>2
  <1> QED BY <1>7, <1>8, <1>9 DEF Burst

LEMMA TickKeepsBurst ==
    ASSUME NumbersOK, Burst, Tick, Recording = {}
    PROVE  Burst'
  <1>1. Locking' = {} /\ Expiring' = {}
    BY DEF Tick, Recording, Locking, Expiring, Will
  <1>2. /\ count \in Nat /\ ttl \in {Never} \cup 1..Window
        /\ recent \in [Ages -> 0..MaxFailed]
    BY DEF NumbersOK
  <1>3. \A k \in Ages : recent'[k] = IF k = 0 THEN 0 ELSE recent[k - 1]
    BY DEF Tick, Older
  <1>4. RecentGrows'
    BY <1>2, <1>3 DEF Burst, RecentGrows
  <1>5. CountIsRecent'
    BY <1>1, <1>2, <1>3 DEF Tick, Burst, CountIsRecent, Within
  <1> QED BY <1>1, <1>4, <1>5 DEF Burst, LockersSawBurst

LEMMA BurstStep ==
    ASSUME NumbersOK, NumbersOK', Tracked, Burst, [Next]_vars, ~fault'
    PROVE  Burst'
  <1>0. /\ count \in Nat /\ ttl \in {Never} \cup 1..Window
        /\ recent \in [Ages -> 0..MaxFailed]
    BY DEF NumbersOK
  <1>1. ASSUME NEW a \in Attempts, Expire(a) PROVE Burst'
    <2>0. /\ UNCHANGED <<count, recent, seen>> /\ Goto(a, ThenLock(seen[a]))
          /\ ttl' = IF count = 0 THEN ttl ELSE Window
      BY <1>1 DEF Expire
    <2>1. a \in Expiring /\ (a \in Locking <=> seen[a] >= MaxFailed)
      BY <1>1 DEF Expire, Locking, Expiring, Will
    <2>2. Locking' = Locking /\ Expiring' \subseteq Expiring
      BY <2>0, <2>1, MoveSets DEF ThenLock
    <2> QED BY <1>0, <2>0, <2>1, <2>2
            DEF Burst, RecentGrows, CountIsRecent, LockersSawBurst, Within
  <1>2. ASSUME NEW a \in Attempts, CheckLock(a) \/ SetLock(a) \/ Reset(a) PROVE Burst'
    <2>1. /\ UNCHANGED <<recent, seen>>
          /\ count' = 0 \/ UNCHANGED <<count, ttl>>
          /\ Goto(a, "compare") \/ Goto(a, "idle")
      BY <1>2 DEF CheckLock, SetLock, Reset
    <2>2. Locking' \subseteq Locking /\ Expiring' \subseteq Expiring
      BY <2>1, MoveSets
    <2> QED BY <1>0, <2>1, <2>2
            DEF Burst, RecentGrows, CountIsRecent, LockersSawBurst, Within
  <1>3. ASSUME UNCHANGED vars PROVE Burst'
    <2>1. Locking' = Locking /\ Expiring' = Expiring
      BY <1>3 DEF vars, Locking, Expiring, Will
    <2> QED BY <1>3, <2>1
            DEF vars, Burst, RecentGrows, CountIsRecent, LockersSawBurst, Within
  <1>4. ASSUME Tick PROVE Burst'
    <2>1. Recording = {}
      BY <1>4, Zenon DEF Tick
    <2> QED BY <1>4, <2>1, TickKeepsBurst
  <1>5. \A a \in Attempts : ~CheckFailsOpen(a) /\ ~GiveUp(a)
    BY Zenon DEF CheckFailsOpen, GiveUp
  <1> QED
    BY <1>1, <1>2, <1>3, <1>4, <1>5, RecordKeepsBurst DEF Next, Step

(* A step that begins or prolongs a lock is that of a locker.              *)
LEMMA OnlyLockersLock ==
    ASSUME NumbersOK, [Next]_vars, lock' > lock
    PROVE  Locking # {}
  <1>1. lock \in Nat
    BY DEF NumbersOK
  <1>2. ASSUME NEW a \in Attempts, SetLock(a) PROVE Locking # {}
    BY <1>2 DEF SetLock, Locking, Will
  <1>3. Tick => lock' \in Int /\ lock' <= lock
    BY <1>1, MaxOfTwo DEF Tick
  <1>4. ASSUME NEW a \in Attempts,
               CheckLock(a) \/ RecordFailed(a) \/ Expire(a) \/ Reset(a) \/ CheckFailsOpen(a)
                 \/ GiveUp(a)
        PROVE  lock' = lock \/ lock' = 0
    BY <1>4, Zenon DEF CheckLock, RecordFailed, Expire, Reset, CheckFailsOpen, GiveUp
  <1>5. UNCHANGED vars => lock' = lock
    BY DEF vars
  <1>6. ASSUME NEW a \in Attempts, Step(a) \/ CheckFailsOpen(a) \/ GiveUp(a)
        PROVE  Locking # {}
    <2>1. CASE SetLock(a)
      BY <1>2, <2>1
    <2>2. CASE lock' = lock \/ lock' = 0
      BY <1>1, <2>2
    <2> QED BY <1>4, <1>6, <2>1, <2>2, Zenon DEF Step
  <1> QED
    BY <1>1, <1>3, <1>5, <1>6 DEF Next

(* An identifier is locked only for as many failures as the limit within   *)
(* one window (login-attempt-tracker.ts:4-7), the first part of            *)
(* LocksAreBrief.                                                          *)
THEOREM LocksHaveAReason == Spec => LockMeansBurst
  <1>1. Init => BurstInvariant
    <2> SUFFICES ASSUME Init PROVE Burst
      BY DEF BurstInvariant
    <2> QED BY DEF Init, Burst, RecentGrows, CountIsRecent, LockersSawBurst, Within,
                   Expiring, Locking, Will
  <1>2. TrackerInvariant /\ BurstInvariant /\ [Next]_vars => BurstInvariant'
    <2> SUFFICES ASSUME TrackerInvariant, BurstInvariant, [Next]_vars PROVE BurstInvariant'
      OBVIOUS
    <2>1. NumbersOK /\ NumbersOK'
      BY TypeStep, Zenon DEF TrackerInvariant, TypeOK, NumbersOK
    <2>2. ~fault' => ~fault
      BY Zenon
      DEF Next, Step, CheckLock, RecordFailed, Expire, SetLock, Reset, CheckFailsOpen,
          GiveUp, Tick, vars
    <2> QED BY <2>1, <2>2, BurstStep, Zenon DEF TrackerInvariant, BurstInvariant
  <1>3. TrackerInvariant /\ BurstInvariant /\ [Next]_vars
          => [~ fault' /\ lock' > lock => RecentFailures >= MaxFailed]_vars
    <2> SUFFICES ASSUME TrackerInvariant, BurstInvariant, [Next]_vars, ~fault', lock' > lock
                 PROVE  RecentFailures >= MaxFailed
      BY Zenon
    <2>1. NumbersOK
      BY TypeParts, Zenon DEF TrackerInvariant
    <2>2. ~fault
      BY Zenon
      DEF Next, Step, CheckLock, RecordFailed, Expire, SetLock, Reset, CheckFailsOpen,
          GiveUp, Tick, vars
    <2>3. Locking # {}
      BY <2>1, OnlyLockersLock
    <2> QED BY <2>2, <2>3 DEF BurstInvariant, Burst, LockersSawBurst, RecentFailures
  <1> QED BY <1>1, <1>2, <1>3, TrackerStarts, TrackerStep, PTL DEF Spec, LockMeansBurst

-----------------------------------------------------------------------------
(* What stands between a client and a handler.                             *)

USE GateConstants

(* A request that carries the key has entered the context of the key's     *)
(* tenant, or found the key unusable, which authentication will as well.   *)
KeyIsBound(r) ==
    HasKey(r) =>
        /\ at[r] \in {"limit", "auth"} => inTenant[r] \/ ~ usable
        /\ at[r] \in {"status", "gateway", "owner", "handling"} => inTenant[r]

KeysAreBound == \A r \in Reqs : KeyIsBound(r)

(* What is charged is in the counter, or was given back to it from an      *)
(* earlier window.                                                         *)
ChargesAreCounted == charged <= hits + late

GateInvariant ==
    GateTypeOK /\ KeysAreBound /\ ChargesAreCounted /\ AddressQuotaHolds

Stations == {"idle", "tenant", "slug", "limit", "auth", "status", "gateway", "owner",
             "handling"}
Requests == /\ at \in [Reqs -> Stations] /\ kind \in [Reqs -> Kinds]
            /\ read \in [Reqs -> Statuses \cup {None}]
            /\ inTenant \in [Reqs -> BOOLEAN] /\ counted \in [Reqs -> {"no", "now", "before"}]
Counters == /\ hits \in 0 .. MaxHits /\ charged \in Int /\ late \in Nat
            /\ quota \in 0 .. MaxHits /\ dying \in BOOLEAN
Tenant == /\ status \in Statuses /\ usable \in BOOLEAN
          /\ cache \in [Entries -> Statuses \cup {None}] /\ pending \subseteq Entries

LEMMA GateTypes == GateTypeOK <=> Requests /\ Counters /\ Tenant
  BY DEF GateTypeOK, Requests, Counters, Tenant, Stations

(* Only the request r moves, and the key does not become usable again.     *)
OnlyMoves(r) ==
    /\ \A s \in Reqs \ {r} : at'[s] = at[s] /\ kind'[s] = kind[s] /\ inTenant'[s] = inTenant[s]
    /\ usable' => usable

LEMMA KeysStayBound ==
    ASSUME KeysAreBound, NEW r \in Reqs, OnlyMoves(r), KeyIsBound(r)'
    PROVE  KeysAreBound'
  BY DEF KeysAreBound, KeyIsBound, OnlyMoves, HasKey

(* A request that is answered is forgotten.                                *)
LEMMA ForgetFrame ==
    ASSUME Requests, NEW r \in Reqs, Forget(r), UNCHANGED usable
    PROVE  Requests' /\ OnlyMoves(r) /\ KeyIsBound(r)'
  <1>1. Requests'
    BY DEF Requests, Forget, Move, Stations, Kinds, Statuses
  <1>2. OnlyMoves(r)
    BY DEF Requests, Forget, Move, OnlyMoves
  <1>3. at'[r] = "idle"
    BY DEF Requests, Forget, Move
  <1> QED BY <1>1, <1>2, <1>3 DEF KeyIsBound

(* A request that goes on as what it is.                                   *)
LEMMA MoveFrame ==
    ASSUME Requests, NEW r \in Reqs, NEW place \in Stations, Move(r, place),
           UNCHANGED <<kind, inTenant, usable>>
    PROVE  /\ at' \in [Reqs -> Stations] /\ at'[r] = place /\ OnlyMoves(r)
           /\ kind'[r] = kind[r] /\ inTenant'[r] = inTenant[r]
  BY DEF Requests, Move, OnlyMoves

LEMMA JudgeFrame ==
    ASSUME Requests, KeysAreBound, NEW r \in Reqs, NEW e \in Entries, NEW s, Judge(r, e, s),
           \/ e = "slug" /\ at[r] \in {"tenant", "slug"}
           \/ e = "status" /\ at[r] = "status",
           UNCHANGED usable
    PROVE  Requests' /\ OnlyMoves(r) /\ KeyIsBound(r)'
  <1>1. CASE Forget(r)
    BY <1>1, ForgetFrame
  <1>2. CASE /\ Move(r, IF e = "slug" THEN "limit" ELSE "gateway")
             /\ inTenant' = [inTenant EXCEPT ![r] = @ \/ e = "slug"]
             /\ read' = [read EXCEPT ![r] = None]
             /\ UNCHANGED <<kind, counted>>
    <2>1. /\ at' = [at EXCEPT ![r] = IF e = "slug" THEN "limit" ELSE "gateway"]
          /\ at'[r] = IF e = "slug" THEN "limit" ELSE "gateway"
      BY <1>2 DEF Requests, Move
    <2>2. at' \in [Reqs -> Stations] /\ read' \in [Reqs -> Statuses \cup {None}]
      BY <1>2, <2>1 DEF Requests, Stations
    <2>3. inTenant' \in [Reqs -> BOOLEAN] /\ inTenant'[r] = (inTenant[r] \/ e = "slug")
      BY <1>2, Zenon DEF Requests
    <2>4. OnlyMoves(r)
      BY <1>2, <2>1 DEF Requests, OnlyMoves
    <2>5. KeyIsBound(r)'
      BY <1>2, <2>1, <2>3 DEF KeysAreBound, KeyIsBound, HasKey
    <2> QED BY <1>2, <2>2, <2>3, <2>4, <2>5 DEF Requests
  <1> QED BY <1>1, <1>2 DEF Judge

(* What leaves the counters of the address alone.                          *)
LEMMA CountersStay ==
    ASSUME GateInvariant, UNCHANGED limits
    PROVE  ChargesAreCounted' /\ AddressQuotaHolds'
  BY DEF GateInvariant, ChargesAreCounted, AddressQuotaHolds, limits

LEMMA OthersKeepTheGate ==
    ASSUME GateInvariant, NEW r \in Reqs, OnlyMoves(r), KeyIsBound(r)', Requests',
           Tenant', Counters', UNCHANGED limits
    PROVE  GateInvariant'
  <1>1. GateTypeOK'
    BY DEF GateTypeOK, Requests, Counters, Tenant, Stations
  <1> QED BY <1>1, KeysStayBound, CountersStay DEF GateInvariant

-----------------------------------------------------------------------------
LEMMA ArriveKeeps ==
    ASSUME GateInvariant, NEW r \in Reqs, NEW k \in Kinds, Arrive(r, k)
    PROVE  GateInvariant'
  <1>1. Requests /\ Counters /\ Tenant
    BY GateTypes DEF GateInvariant
  <1>2. /\ at' = [at EXCEPT ![r] = "tenant"] /\ kind' = [kind EXCEPT ![r] = k]
        /\ UNCHANGED <<tenantVars, limits, gateway, read, inTenant, counted>>
    BY DEF Arrive, Move
  <1>3. Requests' /\ at'[r] = "tenant"
    BY <1>1, <1>2 DEF Requests, Stations
  <1>4. Tenant' /\ Counters'
    BY <1>1, <1>2 DEF Tenant, Counters, tenantVars, limits, gateway
  <1>5. OnlyMoves(r) /\ KeyIsBound(r)'
    BY <1>1, <1>2, <1>3 DEF Requests, OnlyMoves, KeyIsBound, tenantVars
  <1> QED BY <1>2, <1>3, <1>4, <1>5, OthersKeepTheGate

LEMMA RefuseKeeps ==
    ASSUME GateInvariant, NEW r \in Reqs, Refuse(r) PROVE GateInvariant'
  <1>1. Requests /\ Counters /\ Tenant
    BY GateTypes DEF GateInvariant
  <1>2. Forget(r) /\ UNCHANGED <<tenantVars, limits, gateway>>
    BY DEF Refuse
  <1>3. Tenant' /\ Counters' /\ UNCHANGED usable
    BY <1>1, <1>2 DEF Tenant, Counters, tenantVars, limits, gateway
  <1> QED BY <1>1, <1>2, <1>3, ForgetFrame, OthersKeepTheGate

(* A request goes on, to a station its key has opened.                     *)
LEMMA GoOnKeeps ==
    ASSUME GateInvariant, NEW r \in Reqs, NEW place \in Stations, Move(r, place),
           UNCHANGED <<tenantVars, limits, gateway, kind, inTenant, counted>>,
           read' \in [Reqs -> Statuses \cup {None}],
           HasKey(r) =>
               \/ place \in {"idle", "tenant", "slug"}
               \/ place \in {"limit", "auth"} /\ (inTenant[r] \/ ~ usable)
               \/ inTenant[r]
    PROVE  GateInvariant'
  <1>1. Requests /\ Counters /\ Tenant
    BY GateTypes DEF GateInvariant
  <1>2. Tenant' /\ Counters' /\ UNCHANGED usable
    BY <1>1 DEF Tenant, Counters, tenantVars, limits, gateway
  <1>3. /\ at' \in [Reqs -> Stations] /\ at'[r] = place /\ OnlyMoves(r)
        /\ kind'[r] = kind[r] /\ inTenant'[r] = inTenant[r]
    BY <1>1, <1>2, MoveFrame
  <1>4. Requests'
    BY <1>1, <1>3 DEF Requests
  <1>5. KeyIsBound(r)'
    BY <1>2, <1>3 DEF KeyIsBound, HasKey
  <1> QED BY <1>2, <1>3, <1>4, <1>5, OthersKeepTheGate

LEMMA ResolveKeeps ==
    ASSUME GateInvariant, NEW r \in Reqs, ResolveByKey(r) PROVE GateInvariant'
  <1>1. Requests /\ Counters /\ Tenant
    BY GateTypes DEF GateInvariant
  <1>2. CASE Refuse(r)
    BY <1>2, RefuseKeeps
  <1>3. CASE /\ HasKey(r) /\ usable
             /\ Move(r, "limit") /\ inTenant' = [inTenant EXCEPT ![r] = TRUE]
             /\ UNCHANGED <<tenantVars, limits, gateway, kind, read, counted>>
    <2>1. Requests' /\ inTenant'[r] = TRUE
      BY <1>1, <1>3 DEF Requests, Move, Stations
    <2>2. Tenant' /\ Counters' /\ UNCHANGED limits
      BY <1>1, <1>3 DEF Tenant, Counters, tenantVars, limits, gateway
    <2>3. OnlyMoves(r)
      BY <1>1, <1>3 DEF OnlyMoves, Move, Requests, tenantVars
    <2>4. KeyIsBound(r)'
      BY <2>1 DEF KeyIsBound
    <2> QED BY <2>1, <2>2, <2>3, <2>4, OthersKeepTheGate
  <1>4. CASE /\ ~ (HasKey(r) /\ usable)
             /\ Move(r, "limit")
             /\ UNCHANGED <<tenantVars, limits, gateway, kind, read, inTenant, counted>>
    <2>1. "limit" \in Stations /\ read' \in [Reqs -> Statuses \cup {None}]
      BY <1>1, <1>4 DEF Stations, Requests
    <2> QED BY <1>4, <2>1, GoOnKeeps
  <1> QED BY <1>2, <1>3, <1>4 DEF ResolveByKey

LEMMA CacheKeeps ==
    ASSUME GateInvariant, NEW r \in Reqs, NEW e \in Entries,
           CacheHit(r, e) \/ CacheMiss(r, e) \/ CacheFill(r, e)
    PROVE  GateInvariant'
  <1>1. Requests /\ Counters /\ Tenant /\ KeysAreBound
    BY GateTypes DEF GateInvariant
  <1>2. CASE CacheHit(r, e)
    <2>1. \/ e = "slug" /\ at[r] \in {"tenant", "slug"}
          \/ e = "status" /\ at[r] = "status"
      BY <1>2 DEF CacheHit, Asks
    <2>2. Judge(r, e, cache[e]) /\ UNCHANGED <<tenantVars, limits, gateway>>
      BY <1>2 DEF CacheHit
    <2>3. Tenant' /\ Counters' /\ UNCHANGED usable
      BY <1>1, <2>2 DEF Tenant, Counters, tenantVars, limits, gateway
    <2>4. Requests' /\ OnlyMoves(r) /\ KeyIsBound(r)'
      BY <1>1, <2>1, <2>2, <2>3, JudgeFrame
    <2> QED BY <2>2, <2>3, <2>4, OthersKeepTheGate
  <1>3. CASE CacheMiss(r, e)
    <2>1. \/ e = "slug" /\ at[r] = "tenant"
          \/ e = "status" /\ at[r] = "status"
      BY <1>3 DEF CacheMiss, Asks
    <2>2. /\ Move(r, e) /\ read' = [read EXCEPT ![r] = status]
          /\ UNCHANGED <<tenantVars, limits, gateway, kind, inTenant, counted>>
      BY <1>3 DEF CacheMiss
    <2>3. e \in Stations /\ read' \in [Reqs -> Statuses \cup {None}]
      BY <1>1, <2>1, <2>2 DEF Stations, Requests, Tenant
    <2>4. HasKey(r) => e = "slug" \/ inTenant[r]
      BY <1>1, <2>1 DEF KeysAreBound, KeyIsBound
    <2> QED BY <2>2, <2>3, <2>4, GoOnKeeps
  <1>4. CASE CacheFill(r, e)
    <2>1. \/ e = "slug" /\ at[r] \in {"tenant", "slug"}
          \/ e = "status" /\ at[r] = "status"
      BY <1>4 DEF CacheFill, Entries
    <2>2. /\ Judge(r, e, read[r]) /\ UNCHANGED <<status, usable, pending, limits, gateway>>
          /\ cache' = cache \/ cache' = [cache EXCEPT ![e] = read[r]]
      BY <1>4 DEF CacheFill
    <2>3. Tenant' /\ Counters' /\ UNCHANGED usable
      BY <1>1, <2>2 DEF Tenant, Counters, Requests, limits, gateway
    <2>4. Requests' /\ OnlyMoves(r) /\ KeyIsBound(r)'
      BY <1>1, <2>1, <2>2, <2>3, JudgeFrame
    <2> QED BY <2>2, <2>3, <2>4, OthersKeepTheGate
  <1> QED BY <1>2, <1>3, <1>4

-----------------------------------------------------------------------------
(* The limiter charges what it lets through within the quota.              *)
LEMMA LimitKeeps ==
    ASSUME GateInvariant, NEW r \in Reqs, Limit(r) PROVE GateInvariant'
  <1>1. Requests /\ Counters /\ Tenant /\ KeysAreBound
    BY GateTypes DEF GateInvariant
  <1>2. at[r] = "limit" /\ UNCHANGED <<tenantVars, late, gateway>>
    BY DEF Limit
  <1>3. Tenant' /\ UNCHANGED usable
    BY <1>1, <1>2 DEF Tenant, tenantVars
  <1>4. ASSUME NEW p \in Route(r), Move(r, p), UNCHANGED <<kind, read, inTenant>>,
               counted' = counted \/ counted' = [counted EXCEPT ![r] = "now"]
        PROVE  Requests' /\ OnlyMoves(r) /\ KeyIsBound(r)'
    <2>1. p \in Stations /\ (HasKey(r) => p = "auth")
      BY DEF Route, Stations
    <2>2. /\ at' \in [Reqs -> Stations] /\ at'[r] = p /\ OnlyMoves(r)
          /\ kind'[r] = kind[r] /\ inTenant'[r] = inTenant[r]
      BY <1>1, <1>3, <1>4, <2>1, MoveFrame
    <2>3. Requests'
      BY <1>1, <1>4, <2>2 DEF Requests
    <2>4. KeyIsBound(r)'
      BY <1>1, <1>2, <1>3, <2>1, <2>2 DEF KeyIsBound, KeysAreBound, HasKey
    <2> QED BY <2>2, <2>3, <2>4
  <1>5. CASE /\ hits < MaxHits /\ hits' = hits + 1 /\ WithinLimit(hits')
             /\ charged' = charged + 1 /\ counted' = [counted EXCEPT ![r] = "now"]
             /\ \E p \in Route(r) : Move(r, p)
             /\ UNCHANGED <<kind, read, inTenant>>
    <2>1. Requests' /\ OnlyMoves(r) /\ KeyIsBound(r)'
      BY <1>4, <1>5
    <2>2. Counters'
      BY <1>1, <1>2, <1>5 DEF Counters, gateway
    <2>3. ChargesAreCounted' /\ AddressQuotaHolds'
      BY <1>1, <1>2, <1>5
      DEF GateInvariant, ChargesAreCounted, AddressQuotaHolds, WithinLimit, Counters
    <2>4. GateTypeOK'
      BY <1>3, <2>1, <2>2 DEF GateTypeOK, Requests, Counters, Tenant, Stations
    <2> QED BY <1>1, <2>1, <2>3, <2>4, KeysStayBound DEF GateInvariant
  <1>6. CASE hits < MaxHits /\ hits' = hits + 1 /\ Forget(r) /\ UNCHANGED charged
    <2>1. Requests' /\ OnlyMoves(r) /\ KeyIsBound(r)'
      BY <1>1, <1>3, <1>6, ForgetFrame
    <2>2. Counters'
      BY <1>1, <1>2, <1>6 DEF Counters, gateway
    <2>3. ChargesAreCounted' /\ AddressQuotaHolds'
      BY <1>1, <1>2, <1>6 DEF GateInvariant, ChargesAreCounted, AddressQuotaHolds, Counters
    <2>4. GateTypeOK'
      BY <1>3, <2>1, <2>2 DEF GateTypeOK, Requests, Counters, Tenant, Stations
    <2> QED BY <1>1, <2>1, <2>3, <2>4, KeysStayBound DEF GateInvariant
  <1>7. CASE /\ \E p \in Route(r) : Move(r, p)
             /\ UNCHANGED <<hits, charged, kind, read, inTenant, counted>>
    <2>1. Requests' /\ OnlyMoves(r) /\ KeyIsBound(r)'
      BY <1>4, <1>7
    <2>2. Counters' /\ UNCHANGED limits
      BY <1>1, <1>2, <1>7 DEF Counters, gateway, limits
    <2> QED BY <1>3, <2>1, <2>2, OthersKeepTheGate
  <1> QED BY <1>5, <1>6, <1>7 DEF Limit

LEMMA AuthenticateKeeps ==
    ASSUME GateInvariant, NEW r \in Reqs,
           LimitTenant(r) \/ AuthenticateUser(r) \/ AuthenticateKey(r) \/ FindOwner(r) \/ HangUp(r)
    PROVE  GateInvariant'
  <1>1. Requests /\ Counters /\ Tenant /\ KeysAreBound
    BY GateTypes DEF GateInvariant
  <1>2. CASE Refuse(r)
    BY <1>2, RefuseKeeps
  <1>3. ASSUME NEW place \in Stations, Move(r, place),
               UNCHANGED <<tenantVars, limits, gateway, kind, read, inTenant, counted>>,
               HasKey(r) => inTenant[r]
        PROVE  GateInvariant'
    BY <1>1, <1>3, GoOnKeeps DEF Requests
  <1>4. CASE AuthenticateUser(r)
    BY <1>2, <1>3, <1>4 DEF AuthenticateUser, Stations
  <1>5. CASE AuthenticateKey(r)
    BY <1>1, <1>2, <1>3, <1>5 DEF AuthenticateKey, Stations, KeysAreBound, KeyIsBound
  <1>6. CASE FindOwner(r)
    BY <1>1, <1>2, <1>3, <1>6 DEF FindOwner, Stations, KeysAreBound, KeyIsBound
  <1> QED BY <1>2, <1>4, <1>5, <1>6 DEF LimitTenant, HangUp

LEMMA QuotaKeeps ==
    ASSUME GateInvariant, NEW r \in Reqs, EnforceQuota(r) PROVE GateInvariant'
  <1>1. Requests /\ Counters /\ Tenant /\ KeysAreBound
    BY GateTypes DEF GateInvariant
  <1>2. at[r] = "gateway" /\ UNCHANGED <<tenantVars, limits>>
    BY DEF EnforceQuota
  <1>3. Tenant' /\ UNCHANGED usable
    BY <1>1, <1>2 DEF Tenant, tenantVars
  <1>4. Counters'
    <2>1. CASE CountKeyHit
      <3>1. quota' \in 0 .. MaxHits
        BY <1>1, <2>1 DEF Counters, CountKeyHit
      <3>2. dying' \in BOOLEAN
        BY <2>1, Zenon DEF CountKeyHit
      <3> QED BY <1>1, <1>2, <3>1, <3>2 DEF Counters, limits
    <2>2. CASE UNCHANGED gateway
      BY <1>1, <1>2, <2>2 DEF Counters, limits, gateway
    <2> QED BY <2>1, <2>2 DEF EnforceQuota, gateway
  <1>5. CASE Forget(r)
    BY <1>1, <1>2, <1>3, <1>4, <1>5, ForgetFrame, OthersKeepTheGate
  <1>6. CASE Move(r, "owner") /\ UNCHANGED <<kind, read, inTenant, counted>>
    <2>1. "owner" \in Stations
      BY DEF Stations
    <2>2. /\ at' \in [Reqs -> Stations] /\ at'[r] = "owner" /\ OnlyMoves(r)
          /\ kind'[r] = kind[r] /\ inTenant'[r] = inTenant[r]
      BY <1>1, <1>3, <1>6, <2>1, MoveFrame
    <2>3. Requests'
      BY <1>1, <1>6, <2>2 DEF Requests
    <2>4. KeyIsBound(r)'
      BY <1>1, <1>2, <2>2 DEF KeyIsBound, KeysAreBound, HasKey
    <2> QED BY <1>2, <1>3, <1>4, <2>2, <2>3, <2>4, OthersKeepTheGate
  <1> QED BY <1>5, <1>6 DEF EnforceQuota

(* What is given back was charged in this window, or counts as late.       *)
LEMMA FinishKeeps ==
    ASSUME GateInvariant, NEW r \in Reqs, Finish(r) PROVE GateInvariant'
  <1> DEFINE refund == Refundable(r) /\ counted[r] # "no" /\ hits > 0
  <1>1. Requests /\ Counters /\ Tenant /\ KeysAreBound
    BY GateTypes DEF GateInvariant
  <1>2. /\ hits' = IF refund THEN hits - 1 ELSE hits
        /\ charged' = IF HasKey(r) /\ counted[r] = "now" /\ refund THEN charged - 1 ELSE charged
        /\ late' = IF refund /\ counted[r] = "before" THEN late + 1 ELSE late
        /\ Forget(r) /\ UNCHANGED <<tenantVars, gateway>>
    BY DEF Finish
  <1>3. Tenant' /\ UNCHANGED usable
    BY <1>1, <1>2 DEF Tenant, tenantVars
  <1>4. Requests' /\ OnlyMoves(r) /\ KeyIsBound(r)'
    BY <1>1, <1>2, <1>3, ForgetFrame
  <1>5. counted[r] \in {"no", "now", "before"}
    BY <1>1 DEF Requests
  <1>6. Counters'
    BY <1>1, <1>2 DEF Counters, gateway
  <1>7. ChargesAreCounted' /\ AddressQuotaHolds'
    BY <1>1, <1>2, <1>5
    DEF GateInvariant, ChargesAreCounted, AddressQuotaHolds, Counters, Refundable
  <1>8. GateTypeOK'
    BY <1>3, <1>4, <1>6 DEF GateTypeOK, Requests, Counters, Tenant, Stations
  <1> QED BY <1>1, <1>4, <1>7, <1>8, KeysStayBound DEF GateInvariant

-----------------------------------------------------------------------------
(* What runs out and what administrators do moves no request.              *)
LEMMA OutsideKeeps ==
    ASSUME GateInvariant, UNCHANGED <<at, kind, inTenant>>,
           \/ LimitExpires \/ QuotaExpires
           \/ \E e \in Entries : EntryExpires(e) \/ Invalidate(e)
           \/ \E s \in Statuses : UpdateStatus(s)
           \/ RevokeKey \/ UNCHANGED gateVars
    PROVE  GateInvariant'
  <1>1. Requests /\ Counters /\ Tenant /\ KeysAreBound
    BY GateTypes DEF GateInvariant
  <1>2. KeysAreBound'
    <2>1. usable' => usable
      BY DEF LimitExpires, QuotaExpires, EntryExpires, Invalidate, UpdateStatus, RevokeKey,
             tenantVars, gateVars
    <2> QED BY <1>1, <2>1 DEF KeysAreBound, KeyIsBound, HasKey
  <1>3. Tenant'
    BY <1>1 DEF Tenant, Statuses, Entries, LimitExpires, QuotaExpires, EntryExpires, Invalidate,
                UpdateStatus, RevokeKey, tenantVars, gateVars
  <1>4. CASE LimitExpires
    <2>1. hits' = 0 /\ charged' = 0 /\ late' = 0
      BY <1>4 DEF LimitExpires
    <2>2. ChargesAreCounted' /\ AddressQuotaHolds'
      BY <2>1 DEF ChargesAreCounted, AddressQuotaHolds
    <2>3. Counters'
      BY <1>1, <1>4, <2>1 DEF Counters, LimitExpires, gateway
    <2>4. Requests'
      BY <1>1, <1>4 DEF Requests, LimitExpires
    <2>5. GateTypeOK'
      BY <1>3, <2>3, <2>4 DEF GateTypeOK, Requests, Counters, Tenant, Stations
    <2> QED BY <1>2, <2>2, <2>5 DEF GateInvariant
  <1>5. CASE UNCHANGED <<limits, read, counted>>
    <2>1. ChargesAreCounted' /\ AddressQuotaHolds'
      BY <1>5, CountersStay
    <2>2. CASE UNCHANGED gateway
      <3>1. GateTypeOK'
        BY <1>1, <1>3, <1>5, <2>2
        DEF GateTypeOK, Requests, Counters, Tenant, Stations, limits, gateway
      <3> QED BY <1>2, <2>1, <3>1 DEF GateInvariant
    <2>3. CASE quota' = 0 /\ dying' = FALSE
      <3>1. Counters'
        <4>1. hits' = hits /\ charged' = charged /\ late' = late
          BY <1>5 DEF limits
        <4>2. quota' \in 0 .. MaxHits
          BY <2>3
        <4>3. dying' \in BOOLEAN
          BY <2>3
        <4> QED BY <1>1, <4>1, <4>2, <4>3 DEF Counters
      <3>2. Requests'
        BY <1>1, <1>5 DEF Requests
      <3>3. GateTypeOK'
        BY <1>3, <3>1, <3>2 DEF GateTypeOK, Requests, Counters, Tenant, Stations
      <3> QED BY <1>2, <2>1, <3>3 DEF GateInvariant
    <2> QED BY <2>2, <2>3
        DEF LimitExpires, QuotaExpires, EntryExpires, Invalidate, UpdateStatus, RevokeKey,
            gateVars
  <1> QED BY <1>4, <1>5
      DEF QuotaExpires, EntryExpires, Invalidate, UpdateStatus, RevokeKey, request, gateVars

LEMMA GateStarts == GateInit => GateInvariant
  <1> SUFFICES ASSUME GateInit PROVE GateInvariant
    OBVIOUS
  <1>1. GateTypeOK
    <2>1. Requests
      BY DEF GateInit, Requests, Stations, Kinds
    <2>2. Counters
      <3>1. hits \in 0 .. MaxHits /\ quota \in 0 .. MaxHits /\ charged \in Int /\ late \in Nat
        BY DEF GateInit
      <3>2. dying \in BOOLEAN
        BY DEF GateInit
      <3> QED BY <3>1, <3>2 DEF Counters
    <2>3. Tenant
      <3>1. usable \in BOOLEAN
        BY DEF GateInit
      <3>2. status \in Statuses /\ pending \subseteq Entries
        BY DEF GateInit, Statuses
      <3>3. cache \in [Entries -> Statuses \cup {None}]
        BY DEF GateInit
      <3> QED BY <3>1, <3>2, <3>3 DEF Tenant
    <2> QED BY <2>1, <2>2, <2>3, GateTypes
  <1>2. KeysAreBound
    BY DEF GateInit, KeysAreBound, KeyIsBound
  <1>3. ChargesAreCounted /\ AddressQuotaHolds
    BY DEF GateInit, ChargesAreCounted, AddressQuotaHolds
  <1> QED BY <1>1, <1>2, <1>3 DEF GateInvariant

LEMMA GateStep == GateInvariant /\ [GateNext]_gateVars => GateInvariant'
  <1> SUFFICES ASSUME GateInvariant, [GateNext]_gateVars PROVE GateInvariant'
    OBVIOUS
  <1>1. ASSUME NEW r \in Reqs, Advance(r) PROVE GateInvariant'
    BY <1>1, ResolveKeeps, CacheKeeps, LimitKeeps, AuthenticateKeeps, QuotaKeeps, FinishKeeps
    DEF Advance
  <1>2. ASSUME NEW r \in Reqs, NEW k \in Kinds, Arrive(r, k) PROVE GateInvariant'
    BY <1>2, ArriveKeeps
  <1>3. ASSUME \/ LimitExpires \/ QuotaExpires
               \/ \E e \in Entries : EntryExpires(e) \/ Invalidate(e)
               \/ \E s \in Statuses : UpdateStatus(s)
               \/ RevokeKey \/ UNCHANGED gateVars
        PROVE  GateInvariant'
    <2>1. UNCHANGED <<at, kind, inTenant>>
      BY <1>3 DEF LimitExpires, QuotaExpires, EntryExpires, Invalidate, UpdateStatus,
                  RevokeKey, request, gateVars
    <2> QED BY <1>3, <2>1, OutsideKeeps
  <1> QED BY <1>1, <1>2, <1>3 DEF GateNext

LEMMA GateCorrect == GateSpec => []GateInvariant
  BY GateStarts, GateStep, PTL DEF GateSpec

(* For any number of requests and whatever the caches hold: what an API    *)
(* key opens is handled in the tenant of the key, although the key is      *)
(* looked up twice and may be revoked in between.                          *)
THEOREM KeysStayInTheirTenant == GateSpec => []KeyActsInItsTenant
  <1>1. GateInvariant => KeyActsInItsTenant
    BY DEF GateInvariant, KeysAreBound, KeyIsBound, KeyActsInItsTenant
  <1> QED BY <1>1, GateCorrect, PTL

(* For any quota: in one window, requests of an address that are not an    *)
(* API key's get the quota and what late refunds have given back.          *)
THEOREM QuotaOfAddressHolds == GateSpec => []AddressQuotaHolds
  BY GateCorrect, PTL DEF GateInvariant

-----------------------------------------------------------------------------
(* Who still takes a suspended tenant for an active one: requests that     *)
(* have read its status before, entries of the cache, and the requests     *)
(* that are in its context.                                                *)
StaleReaders == {r \in Reqs : read[r] = "ACTIVE"}
StaleEntries == {e \in Entries : cache[e] = "ACTIVE"}
Served == {r \in Reqs : inTenant[r]}

WearsOff ==
    /\ StaleReaders' \subseteq StaleReaders
    /\ StaleEntries' \subseteq StaleEntries \/ StaleReaders' # StaleReaders
    /\ Served' \subseteq Served \/ StaleEntries # {} \/ StaleReaders' # StaleReaders

LEMMA ForgottenWears ==
    ASSUME Requests, NEW r \in Reqs, Forget(r), StaleEntries' \subseteq StaleEntries
    PROVE  WearsOff
  <1>1. read' = [read EXCEPT ![r] = None] /\ inTenant' = [inTenant EXCEPT ![r] = FALSE]
    BY DEF Forget
  <1>2. StaleReaders' \subseteq StaleReaders
    BY <1>1 DEF Requests, StaleReaders, None
  <1>3. \A q \in Reqs : inTenant'[q] => inTenant[q]
    BY <1>1, Zenon DEF Requests
  <1>4. Served' \subseteq Served
    BY <1>3 DEF Served
  <1> QED BY <1>2, <1>4 DEF WearsOff

LEMMA UnreadWears ==
    ASSUME UNCHANGED <<read, inTenant>>, StaleEntries' \subseteq StaleEntries
    PROVE  WearsOff
  BY DEF WearsOff, StaleReaders, Served

LEMMA JudgedWears ==
    ASSUME Requests, NEW r \in Reqs, NEW e \in Entries, NEW s, Judge(r, e, s),
           StaleEntries' \subseteq StaleEntries, s = "ACTIVE" => StaleEntries # {}
    PROVE  WearsOff
  <1>1. CASE Forget(r)
    BY <1>1, ForgottenWears
  <1>2. CASE ~ Forget(r)
    <2>1. s = "ACTIVE" /\ read' = [read EXCEPT ![r] = None]
      BY <1>2 DEF Judge, Serves
    <2> QED BY <2>1 DEF Requests, WearsOff, StaleReaders, None
  <1> QED BY <1>1, <1>2

LEMMA CacheWears ==
    ASSUME Requests, Tenant, NEW r \in Reqs, NEW e \in Entries,
           CacheHit(r, e) \/ CacheMiss(r, e) \/ CacheFill(r, e),
           status = "SUSPENDED", status' = "SUSPENDED"
    PROVE  WearsOff
  <1>1. CASE CacheHit(r, e)
    <2>1. Judge(r, e, cache[e]) /\ cache' = cache
      BY <1>1 DEF CacheHit, tenantVars
    <2> QED BY <2>1, JudgedWears DEF StaleEntries
  <1>2. CASE CacheMiss(r, e)
    <2>1. read' = [read EXCEPT ![r] = "SUSPENDED"] /\ UNCHANGED <<cache, inTenant>>
      BY <1>2 DEF CacheMiss, tenantVars
    <2> QED BY <2>1 DEF Requests, WearsOff, StaleReaders, StaleEntries, Served
  <1>3. CASE CacheFill(r, e)
    <2>1. /\ Judge(r, e, read[r])
          /\ cache' = cache \/ cache' = [cache EXCEPT ![e] = read[r]]
      BY <1>3 DEF CacheFill
    <2>2. CASE read[r] = "ACTIVE"
      <3>1. read' = [read EXCEPT ![r] = None]
        BY <2>1, <2>2 DEF Judge, Serves
      <3>2. r \in StaleReaders /\ r \notin StaleReaders' /\ StaleReaders' \subseteq StaleReaders
        BY <2>2, <3>1 DEF Requests, StaleReaders, None
      <3> QED BY <3>2 DEF WearsOff
    <2>3. CASE read[r] # "ACTIVE"
      <3>1. StaleEntries' \subseteq StaleEntries
        BY <2>1, <2>3 DEF StaleEntries, Tenant
      <3> QED BY <2>1, <2>3, <3>1, JudgedWears
    <2> QED BY <2>2, <2>3
  <1> QED BY <1>1, <1>2, <1>3

LEMMA SuspendedWears ==
    ASSUME GateInvariant, [GateNext]_gateVars, status = "SUSPENDED", status' = "SUSPENDED"
    PROVE  WearsOff
  <1>1. Requests /\ Counters /\ Tenant
    BY GateTypes DEF GateInvariant
  <1>2. ASSUME UNCHANGED cache PROVE StaleEntries' \subseteq StaleEntries
    BY <1>2 DEF StaleEntries
  <1>3. ASSUME NEW r \in Reqs, Forget(r), UNCHANGED cache PROVE WearsOff
    BY <1>1, <1>2, <1>3, ForgottenWears
  <1>4. ASSUME NEW r \in Reqs, NEW k \in Kinds, Arrive(r, k) PROVE WearsOff
    BY <1>2, <1>4, UnreadWears DEF Arrive, tenantVars
  <1>5. ASSUME NEW r \in Reqs, ResolveByKey(r) PROVE WearsOff
    BY <1>2, <1>3, <1>5, UnreadWears DEF ResolveByKey, Refuse, tenantVars
  <1>6. ASSUME NEW r \in Reqs, Limit(r) PROVE WearsOff
    BY <1>2, <1>3, <1>6, UnreadWears DEF Limit, tenantVars
  <1>7. ASSUME NEW r \in Reqs,
               LimitTenant(r) \/ AuthenticateUser(r) \/ AuthenticateKey(r) \/ FindOwner(r) \/ HangUp(r)
        PROVE  WearsOff
    BY <1>2, <1>3, <1>7, UnreadWears
    DEF LimitTenant, AuthenticateUser, AuthenticateKey, FindOwner, HangUp, Refuse, tenantVars
  <1>8. ASSUME NEW r \in Reqs, EnforceQuota(r) \/ Finish(r) PROVE WearsOff
    BY <1>2, <1>3, <1>8, UnreadWears DEF EnforceQuota, Finish, tenantVars
  <1>9. ASSUME NEW e \in Entries, EntryExpires(e) \/ Invalidate(e) PROVE WearsOff
    <2>1. UNCHANGED <<read, inTenant>> /\ (cache' = cache \/ cache' = [cache EXCEPT ![e] = None])
      BY <1>9 DEF EntryExpires, Invalidate, request
    <2>2. StaleEntries' \subseteq StaleEntries
      BY <1>1, <2>1 DEF StaleEntries, Tenant, None
    <2> QED BY <2>1, <2>2, UnreadWears
  <1>10. ASSUME LimitExpires \/ QuotaExpires \/ RevokeKey \/ (\E s \in Statuses : UpdateStatus(s))
                \/ UNCHANGED gateVars
         PROVE  WearsOff
    BY <1>2, <1>10, UnreadWears
    DEF LimitExpires, QuotaExpires, RevokeKey, UpdateStatus, request, tenantVars, gateVars
  <1> QED BY <1>1, <1>4, <1>5, <1>6, <1>7, <1>8, <1>9, <1>10, CacheWears DEF GateNext, Advance

(* While a tenant stays suspended, what takes it for active wears off      *)
(* (tenant.middleware.ts, getOrSetCache): no read of its status brings     *)
(* another stale one about, an entry of the cache turns stale only by      *)
(* using up such a read, and a request enters the context of the tenant    *)
(* only from a stale entry or by using up a stale read.                    *)
THEOREM SuspensionWearsOff ==
    GateSpec => [][status = "SUSPENDED" /\ status' = "SUSPENDED" => WearsOff]_gateVars
  <1>1. GateInvariant /\ [GateNext]_gateVars
          => [status = "SUSPENDED" /\ status' = "SUSPENDED" => WearsOff]_gateVars
    BY SuspendedWears
  <1> QED BY <1>1, GateCorrect, PTL DEF GateSpec
=============================================================================
