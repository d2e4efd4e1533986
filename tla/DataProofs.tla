----------------------------- MODULE DataProofs -----------------------------
(***************************************************************************)
(* Proofs about what the server keeps: the chain of the audit log and what *)
(* its verification tells, the objects and the accounts of users, and the  *)
(* products of a tenant, for any number of concurrent calls, rows, files,  *)
(* users, products and requests.                                           *)
(***************************************************************************)
EXTENDS AuditChain, UserData, ProductCatalog, SequenceTheorems, FiniteSetTheorems,
        FunctionTheorems, WellFoundedInduction, TLAPS

-----------------------------------------------------------------------------
(* The chain of the audit log.                                             *)

(* What appending leaves of the prefixes of a sequence.                    *)
LEMMA PrefixOfAppend ==
    ASSUME NEW s \in Seq(Entries), NEW e \in Entries
    PROVE  /\ \A k \in 1..Len(s) : SubSeq(Append(s, e), 1, k) = SubSeq(s, 1, k)
           /\ SubSeq(Append(s, e), 1, Len(s) + 1) = Append(s, e)
  <1> DEFINE u == Append(s, e)
  <1>1. /\ u \in Seq(Entries) /\ Len(u) = Len(s) + 1 /\ Len(s) \in Nat
        /\ \A i \in 1..Len(s) : u[i] = s[i]
    BY AppendProperties, LenProperties
  <1> HIDE DEF u
  <1>2. ASSUME NEW k \in 1..Len(s) PROVE SubSeq(u, 1, k) = SubSeq(s, 1, k)
    <2>1. /\ k \in Int
          /\ \A i \in 1..k : u[i] \in Entries /\ s[i] \in Entries /\ u[i] = s[i]
      BY <1>1, <1>2, ElementOfSeq
    <2>2. /\ SubSeq(u, 1, k) \in Seq(Entries) /\ Len(SubSeq(u, 1, k)) = k
          /\ \A i \in 1..k : SubSeq(u, 1, k)[i] = u[i]
      BY <2>1, <1>2, SubSeqProperties
    <2>3. /\ SubSeq(s, 1, k) \in Seq(Entries) /\ Len(SubSeq(s, 1, k)) = k
          /\ \A i \in 1..k : SubSeq(s, 1, k)[i] = s[i]
      BY <2>1, <1>2, SubSeqProperties
    <2> QED
      BY <2>1, <2>2, <2>3, SeqEqual
  <1>3. SubSeq(u, 1, Len(s) + 1) = u
    BY <1>1, SubSeqFull
  <1> QED
    BY <1>2, <1>3 DEF u

(* What a row that continues the chain is made of.                         *)
LEMMA LinkFacts ==
    ASSUME NEW e \in Entries, NEW p \in Seq(Entries)
    PROVE  /\ Link(e, p) \in [entry : Entries, prev : Seq(Entries), hash : Seq(Entries)]
           /\ Link(e, p) = Link(Link(e, p).entry, Link(e, p).prev)
           /\ Link(e, p).hash = Append(p, e)
           /\ Append(p, e) # NoHash
           /\ Len(Append(p, e)) = Len(p) + 1 /\ Len(p) \in Nat
  BY AppendProperties, LenProperties DEF Link, Hash, NoHash

(* One more entry on the state leaves every row a prefix of it, and the    *)
(* new row is the one that was missing.                                    *)
LEMMA ChainGrows ==
    ASSUME TypeOK, RowsArePrefixes, ChainIsWhole, damaged = "none",
           NEW t \in Entries, state \in Seq(Entries),
           rows' = rows \cup {Link(t, state)}, state' = Append(state, t)
    PROVE  RowsArePrefixes' /\ ChainIsWhole'
  <1>3. /\ Link(t, state) = Link(Link(t, state).entry, Link(t, state).prev)
        /\ Link(t, state).hash = state'
        /\ state' # NoHash /\ state' \in Seq(Entries)
        /\ Len(state') = Len(state) + 1 /\ Len(state) \in Nat
    BY LinkFacts, AppendProperties
  <1>4. /\ \A k \in 1..Len(state) : SubSeq(state', 1, k) = SubSeq(state, 1, k)
        /\ SubSeq(state', 1, Len(state')) = state'
    BY <1>3, PrefixOfAppend
  <1>5. ASSUME NEW r \in rows
        PROVE  /\ r = Link(r.entry, r.prev)
               /\ Len(r.hash) <= Len(state')
               /\ r.hash = SubSeq(state', 1, Len(r.hash))
    <2>1. /\ r.entry \in Entries /\ r.prev \in Seq(Entries)
          /\ r = Link(r.entry, r.prev) /\ Len(r.hash) <= Len(state)
          /\ r.hash = SubSeq(state, 1, Len(r.hash))
      BY DEF RowsArePrefixes, TypeOK
    <2>2. Len(r.hash) \in 1..Len(state)
      <3>1. /\ Link(r.entry, r.prev).hash = Append(r.prev, r.entry)
            /\ Len(Append(r.prev, r.entry)) = Len(r.prev) + 1
            /\ Len(r.prev) \in Nat
        BY <2>1, LinkFacts
      <3>2. r.hash = Append(r.prev, r.entry)
        BY <2>1, <3>1
      <3> QED
        BY <1>3, <2>1, <3>1, <3>2
    <2> QED
      BY <1>3, <1>4, <2>1, <2>2
  <1>6. RowsArePrefixes'
    <2> DEFINE new == Link(t, state)
    <2>1. new = Link(new.entry, new.prev) /\ new.hash = state'
      BY <1>3
    <2>2. /\ Len(new.hash) <= Len(state')
          /\ new.hash = SubSeq(state', 1, Len(new.hash))
      BY <1>3, <1>4
    <2>3. rows' = rows \cup {new}
      OBVIOUS
    <2> HIDE DEF new
    <2> QED
      BY <1>5, <2>1, <2>2, <2>3 DEF RowsArePrefixes
  <1>7. ASSUME damaged' = "none", NEW k \in 1..Len(state')
        PROVE  \E r \in rows' : r.hash = SubSeq(state', 1, k)
    <2>1. CASE k \in 1..Len(state)
      <3>1. PICK r \in rows : r.hash = SubSeq(state, 1, k)
        BY <2>1 DEF ChainIsWhole
      <3> QED
        BY <1>4, <2>1, <3>1
    <2>2. CASE k = Len(state')
      BY <1>3, <1>4, <2>2
    <2> QED
      BY <1>3, <1>7, <2>1, <2>2
  <1> QED
    BY <1>6, <1>7 DEF ChainIsWhole

(* The inductive invariant holds of an empty table.                        *)
LEMMA ChainInit == Init => ChainInvariant /\ Chained \in Seq(Entries)
  <1> SUFFICES ASSUME Init PROVE ChainInvariant /\ Chained \in Seq(Entries)
    OBVIOUS
  <1>1. NoHash \in Seq(Entries) /\ Len(NoHash) = 0
    BY EmptySeq DEF NoHash
  <1>2. TypeOK
    BY <1>1 DEF Init, TypeOK
  <1>3. WritersAreSerial
    BY DEF Init, WritersAreSerial, Writers
  <1>4. RowsArePrefixes
    BY DEF Init, RowsArePrefixes
  <1>5. ChainIsWhole
    BY <1>1 DEF Init, ChainIsWhole
  <1> QED
    BY <1>1, <1>2, <1>3, <1>4, <1>5 DEF Init, ChainInvariant, Chained

(* Every step keeps it, and leaves the chain's state or appends to it,     *)
(* unless it is one of a race for the first entry.                         *)
LEMMA ChainStep ==
    ASSUME ChainInvariant, [Next]_vars
    PROVE  /\ ChainInvariant'
           /\ \/ UNCHANGED <<state, damaged>>
              \/ UNCHANGED state /\ damaged' \in {"alter", "lose"} /\ damaged = "none"
              \/ UNCHANGED state /\ damaged' = "race" /\ state = NoHash
              \/ UNCHANGED damaged /\ \E e \in Entries : state' = Append(state, e)
              \/ UNCHANGED damaged /\ damaged = "race"
  <1>1. TypeOK
    BY DEF ChainInvariant
  <1>2. ASSUME NEW t \in Txs, SelectForUpdate(t)
        PROVE  /\ ChainInvariant' /\ state' = state
               /\ \/ damaged' = damaged
                  \/ damaged' = "race" /\ state = NoHash
    <2>1. /\ UNCHANGED <<rows, state>> /\ pc[t] = "begin"
          /\ prev' = [prev EXCEPT ![t] = state]
          /\ pc' = [pc EXCEPT ![t] = "insert"]
          /\ \/ damaged' = damaged
             \/ damaged' = "race" /\ state = NoHash
          /\ \/ state = NoHash /\ lock' = lock
             \/ state # NoHash /\ lock = Nobody /\ lock' = t
      BY <1>2 DEF SelectForUpdate, NoteRace
    <2>2. TypeOK'
      BY <1>1, <2>1 DEF TypeOK
    <2>3. ASSUME damaged' # "race" PROVE WritersAreSerial'
      <3>1. WritersAreSerial /\ damaged' = damaged
        BY <2>1, <2>3 DEF ChainInvariant
      <3>2. Writers = {}
        <4>1. CASE state = NoHash
          BY <1>2, <2>3, <4>1 DEF SelectForUpdate, NoteRace
        <4>2. CASE state # NoHash
          BY <2>1, <3>1, <4>2, EntriesAreDistinct DEF WritersAreSerial, Writers
        <4> QED
          BY <4>1, <4>2
      <3>3. Writers' = {t} /\ prev'[t] = state
        BY <1>1, <2>1, <3>2 DEF Writers, TypeOK
      <3>4. state' # NoHash => lock' = t
        BY <2>1
      <3>5. lock' # Nobody => lock' = t
        BY <2>1, <3>1, <3>2 DEF WritersAreSerial
      <3> QED
        BY <2>1, <3>3, <3>4, <3>5 DEF WritersAreSerial
    <2>4. ASSUME damaged' = "none" PROVE (RowsArePrefixes /\ ChainIsWhole)'
      BY <2>1, <2>4 DEF ChainInvariant, RowsArePrefixes, ChainIsWhole
    <2> QED
      BY <2>1, <2>2, <2>3, <2>4 DEF ChainInvariant
  <1>3. ASSUME NEW t \in Txs, Insert(t)
        PROVE  ChainInvariant' /\ UNCHANGED <<state, damaged>>
    <2>1. /\ UNCHANGED <<rows, state, prev, damaged>>
          /\ lock \in {Nobody, t} /\ lock' = t
          /\ pc[t] = "insert" /\ pc' = [pc EXCEPT ![t] = "commit"]
      BY <1>3 DEF Insert
    <2>2. TypeOK'
      BY <1>1, <2>1 DEF TypeOK
    <2>3. Writers' = Writers /\ t \in Writers
      BY <1>1, <2>1 DEF Writers, TypeOK
    <2>4. ASSUME damaged' # "race" PROVE WritersAreSerial'
      <3>1. WritersAreSerial
        BY <2>1, <2>4 DEF ChainInvariant
      <3> QED
        BY <2>1, <2>3, <3>1 DEF WritersAreSerial
    <2>5. ASSUME damaged' = "none" PROVE (RowsArePrefixes /\ ChainIsWhole)'
      BY <2>1, <2>5 DEF ChainInvariant, RowsArePrefixes, ChainIsWhole
    <2> QED
      BY <2>1, <2>2, <2>4, <2>5 DEF ChainInvariant
  <1>4. ASSUME NEW t \in Txs, Rollback(t)
        PROVE  ChainInvariant' /\ UNCHANGED <<state, damaged>>
    <2>1. /\ UNCHANGED <<rows, state, prev, damaged>> /\ t \in Writers
          /\ lock' = IF lock = t THEN Nobody ELSE lock
          /\ pc' = [pc EXCEPT ![t] = "done"]
      BY <1>4 DEF Rollback
    <2>2. TypeOK'
      BY <1>1, <2>1 DEF TypeOK
    <2>3. Writers' = Writers \ {t}
      BY <1>1, <2>1 DEF Writers, TypeOK
    <2>4. ASSUME damaged' # "race" PROVE WritersAreSerial'
      <3>1. WritersAreSerial
        BY <2>1, <2>4 DEF ChainInvariant
      <3>2. Writers = {t}
        BY <2>1, <3>1 DEF WritersAreSerial
      <3>3. lock' = Nobody
        BY <2>1, <3>1, <3>2 DEF WritersAreSerial
      <3> QED
        BY <2>3, <3>2, <3>3 DEF WritersAreSerial
    <2>5. ASSUME damaged' = "none" PROVE (RowsArePrefixes /\ ChainIsWhole)'
      BY <2>1, <2>5 DEF ChainInvariant, RowsArePrefixes, ChainIsWhole
    <2> QED
      BY <2>1, <2>2, <2>4, <2>5 DEF ChainInvariant
  <1>5. ASSUME NEW t \in Txs, Commit(t)
        PROVE  /\ ChainInvariant' /\ damaged' = damaged
               /\ damaged # "race" => \E e \in Entries : state' = Append(state, e)
    <2>0. /\ rows' = rows \cup {Link(t, prev[t])} /\ state' = Append(prev[t], t)
          /\ lock' = Nobody /\ pc[t] = "commit"
          /\ pc' = [pc EXCEPT ![t] = "done"]
          /\ UNCHANGED <<prev, damaged>>
          /\ t \in Entries /\ prev[t] \in Seq(Entries)
      BY <1>1, <1>5 DEF Commit, Hash, Entries, TypeOK
    <2>5. TypeOK'
      <3>1. /\ Link(t, prev[t]) \in [entry : Entries, prev : Seq(Entries), hash : Seq(Entries)]
            /\ state' \in Seq(Entries)
        BY <2>0, LinkFacts, AppendProperties
      <3> QED
        BY <1>1, <2>0, <3>1 DEF TypeOK
    <2>6. CASE damaged = "race"
      BY <2>0, <2>5, <2>6 DEF ChainInvariant
    <2>7. CASE damaged # "race"
      <3>1. WritersAreSerial /\ t \in Writers
        BY <1>1, <2>0, <2>7 DEF ChainInvariant, Writers, TypeOK
      <3>2. prev[t] = state /\ Writers = {t}
        BY <3>1 DEF WritersAreSerial
      <3>3. WritersAreSerial'
        <4>1. Writers' = {}
          BY <1>1, <2>0, <3>2 DEF Writers, TypeOK
        <4> QED
          BY <2>0, <4>1 DEF WritersAreSerial
      <3>4. /\ rows' = rows \cup {Link(t, state)} /\ state' = Append(state, t)
            /\ t \in Entries /\ state \in Seq(Entries)
        BY <2>0, <3>2
      <3>5. damaged = "none" => (RowsArePrefixes /\ ChainIsWhole)'
        BY <1>1, <3>4, ChainGrows DEF ChainInvariant
      <3> QED
        BY <2>0, <2>5, <3>3, <3>4, <3>5 DEF ChainInvariant
    <2> QED
      BY <2>0, <2>6, <2>7
  <1>6. ASSUME NEW r \in rows, Alter(r) \/ Lose(r)
        PROVE  /\ ChainInvariant' /\ state' = state
               /\ damaged' \in {"alter", "lose"} /\ damaged = "none"
    <2>1. /\ UNCHANGED <<state, lock, pc, prev>> /\ damaged' \in {"alter", "lose"}
          /\ damaged = "none"
          /\ \A s \in rows' : s \in rows \/ s = [r EXCEPT !.entry = Changed]
      BY <1>6 DEF Alter, Lose
    <2>2. TypeOK'
      BY <1>1, <2>1 DEF TypeOK, Entries
    <2>3. WritersAreSerial'
      BY <2>1 DEF ChainInvariant, WritersAreSerial, Writers
    <2> QED
      BY <2>1, <2>2, <2>3 DEF ChainInvariant
  <1>7. CASE UNCHANGED vars
    <2>1. TypeOK' /\ (damaged' # "race" => WritersAreSerial')
      BY <1>1, <1>7 DEF vars, ChainInvariant, TypeOK, WritersAreSerial, Writers
    <2>2. damaged' = "none" => (RowsArePrefixes /\ ChainIsWhole)'
      BY <1>7 DEF vars, ChainInvariant, RowsArePrefixes, ChainIsWhole
    <2> QED
      BY <1>7, <2>1, <2>2 DEF vars, ChainInvariant
  <1> QED
    BY <1>2, <1>3, <1>4, <1>5, <1>6, <1>7 DEF Next, Write

(* The invariant of the chain: the calls past their SELECT take turns, and *)
(* every row is a prefix of what the chain's state stands for.             *)
THEOREM ChainCorrect == Spec => []ChainInvariant
  <1>1. ChainInvariant /\ [Next]_vars => ChainInvariant'
    BY ChainStep
  <1> QED
    BY ChainInit, <1>1, PTL DEF Spec

(* No two rows of an undamaged chain claim the same predecessor, however   *)
(* many calls of create overlap.                                           *)
THEOREM ChainNeverForks == Spec => []ChainIsLinear
  <1>1. ASSUME ChainInvariant PROVE ChainIsLinear
    <2> SUFFICES ASSUME damaged = "none", NEW r \in rows, NEW s \in rows,
                        r.prev = s.prev
                 PROVE  r = s
      BY DEF ChainIsLinear
    <2>1. /\ RowsArePrefixes
          /\ r.entry \in Entries /\ s.entry \in Entries /\ r.prev \in Seq(Entries)
      BY <1>1 DEF ChainInvariant, TypeOK
    <2>2. /\ r = Link(r.entry, r.prev) /\ s = Link(s.entry, r.prev)
          /\ r.hash = SubSeq(state, 1, Len(r.hash))
          /\ s.hash = SubSeq(state, 1, Len(s.hash))
      BY <2>1 DEF RowsArePrefixes
    <2>3. /\ r.hash = Append(r.prev, r.entry) /\ s.hash = Append(r.prev, s.entry)
          /\ Len(r.hash) = Len(s.hash)
      <3>1. /\ Link(r.entry, r.prev).hash = Append(r.prev, r.entry)
            /\ Len(Append(r.prev, r.entry)) = Len(r.prev) + 1
        BY <2>1, LinkFacts
      <3>2. /\ Link(s.entry, r.prev).hash = Append(r.prev, s.entry)
            /\ Len(Append(r.prev, s.entry)) = Len(r.prev) + 1
        BY <2>1, LinkFacts
      <3> HIDE <2>1
      <3> QED
        BY <2>2, <3>1, <3>2
    <2>4. r.entry = s.entry
      BY <2>1, <2>2, <2>3, AppendInjective
    <2> QED
      BY <2>2, <2>4
  <1> QED
    BY ChainCorrect, <1>1, PTL

(* The chain's state is an append-only log, unless its first entries race. *)
THEOREM ChainImplementsLog == Spec => ImplementsLog
  <1>1. Init => Log!Init
    BY ChainInit DEF Log!Init
  <1>2. ChainInvariant /\ [Next]_vars => [Log!Next]_Chained
    BY ChainStep DEF Log!Next, Log!Write, Chained
  <1> QED
    BY ChainCorrect, <1>1, <1>2, PTL DEF Spec, ImplementsLog, Log!Spec

-----------------------------------------------------------------------------
(* The walk of verifyChainIntegrity.                                       *)

(* A set of numbers that has a member has a least one: what follows uses   *)
(* this where others use induction.                                        *)
LEMMA LeastNumber ==
    ASSUME NEW T, T \subseteq Nat, T # {}
    PROVE  \E m \in T : \A k \in T : m <= k
  <1> DEFINE Less == {p \in Nat \X Nat : p[1] < p[2]}
  <1>1. OpToRel(<, Nat) = Less
    BY DEF OpToRel
  <1>2. IsWellFoundedOn(Less, Nat)
    BY <1>1, NatLessThanWellFounded
  <1> HIDE DEF Less
  <1>3. PICK m \in T : \A k \in T : ~ (<<k, m>> \in Less)
    BY <1>2, WFMin
  <1>4. ASSUME NEW k \in T PROVE m <= k
    <2>1. k \in Nat /\ m \in Nat
      OBVIOUS
    <2>2. ~ (<<k, m>> \in Less)
      BY <1>3
    <2>3. ~ (k < m)
      BY <2>1, <2>2 DEF Less
    <2> QED BY <2>1, <2>3
  <1> QED BY <1>4

(* The equation of the walk has a solution for any number of rows.         *)
LEMMA WalkExists ==
    ASSUME NEW rs, NEW N \in Nat
    PROVE  \E f : f = [n \in 0..N |-> IF n = 0 \/ (n > 1 /\ f[n - 1] = NoHash) THEN NoHash
                                      ELSE Visit(rs, f[n - 1])]
  <1> DEFINE F(f, n) == IF n = 0 \/ (n > 1 /\ f[n - 1] = NoHash) THEN NoHash
                        ELSE Visit(rs, f[n - 1])
             Solves(f, m) == f = [n \in 0..m |-> F(f, n)]
             T == {m \in Nat : ~ \E f : Solves(f, m)}
  <1> HIDE DEF F
  <1>1. ASSUME T # {} PROVE FALSE
    <2>1. PICK m \in T : \A k \in T : m <= k
      <3> HIDE DEF T
      <3>1. T \subseteq Nat
        BY DEF T
      <3> QED BY <1>1, <3>1, LeastNumber
    <2>2. m \in Nat /\ ~ \E f : Solves(f, m)
      OBVIOUS
    <2>3. CASE m = 0
      <3> DEFINE h == [n \in 0..0 |-> NoHash]
      <3>1. \A n \in 0..0 : F(h, n) = NoHash
        BY DEF F
      <3>2. h = [n \in 0..0 |-> F(h, n)]
        BY <3>1
      <3> QED BY <2>2, <2>3, <3>2
    <2>4. CASE m # 0
      <3>1. m - 1 \in Nat /\ m - 1 \notin T
        BY <2>1, <2>2, <2>4
      <3>2. PICK g : Solves(g, m - 1)
        BY <3>1
      <3> DEFINE h == [n \in 0..m |-> IF n = m THEN F(g, m) ELSE g[n]]
      <3>3. ASSUME NEW n \in 0..m PROVE h[n] = F(h, n)
        <4>1. n = 0 \/ (n - 1 \in 0..m /\ n - 1 # m /\ h[n - 1] = g[n - 1])
          BY <2>2
        <4>2. F(h, n) = F(g, n)
          BY <4>1 DEF F
        <4>3. CASE n = m
          BY <4>2, <4>3
        <4>4. CASE n # m
          <5>1. n \in 0..(m - 1)
            BY <2>2, <4>4
          <5>2. g[n] = F(g, n)
            BY <3>2, <5>1
          <5> QED BY <4>2, <4>4, <5>2
        <4> QED BY <4>3, <4>4
      <3>4. h = [n \in 0..m |-> F(h, n)]
        BY <3>3
      <3> QED BY <2>2, <3>4
    <2> QED BY <2>3, <2>4
  <1>2. PICK f : Solves(f, N)
    BY <1>1
  <1> QED BY <1>2 DEF F

(* What the walk finds, step by step.                                      *)
LEMMA WalkSteps ==
    ASSUME NEW rs, IsFiniteSet(rs)
    PROVE  /\ Cardinality(rs) \in Nat
           /\ Walked(rs)[0] = NoHash
           /\ \A n \in 1..Cardinality(rs) :
                Walked(rs)[n] = IF n > 1 /\ Walked(rs)[n - 1] = NoHash THEN NoHash
                                ELSE Visit(rs, Walked(rs)[n - 1])
  <1> DEFINE N == Cardinality(rs)
             Eq(f) == f = [n \in 0..N |-> IF n = 0 \/ (n > 1 /\ f[n - 1] = NoHash) THEN NoHash
                                          ELSE Visit(rs, f[n - 1])]
  <1>1. N \in Nat
    BY FS_CardinalityType
  <1>2. Walked(rs) = CHOOSE f : Eq(f)
    BY DEF Walked
  <1> HIDE DEF N
  <1>3. \E f : Eq(f)
    BY <1>1, WalkExists
  <1> DEFINE w == Walked(rs)
  <1>4. Eq(w)
    BY <1>2, <1>3
  <1>5. w = [n \in 0..N |-> IF n = 0 \/ (n > 1 /\ w[n - 1] = NoHash) THEN NoHash
                            ELSE Visit(rs, w[n - 1])]
    BY <1>4
  <1> HIDE DEF w
  <1>6. w[0] = NoHash
    BY <1>1, <1>5
  <1>7. ASSUME NEW n \in 1..N
        PROVE  w[n] = IF n > 1 /\ w[n - 1] = NoHash THEN NoHash ELSE Visit(rs, w[n - 1])
    <2>1. n \in 0..N /\ n # 0
      BY <1>1
    <2> QED BY <1>5, <2>1
  <1> QED BY <1>1, <1>6, <1>7 DEF w, N

(* A row visited after the hash h is a sound one of the rows.              *)
LEMMA VisitFacts ==
    ASSUME NEW rs, NEW h, Visit(rs, h) # NoHash
    PROVE  \E r \in rs : r.prev = h /\ Sound(r) /\ r.hash = Visit(rs, h)
  <1> DEFINE next == {r \in After(rs, h) : Sound(r)}
             r == CHOOSE r \in next : TRUE
  <1>1. next # {} /\ Visit(rs, h) = r.hash
    BY DEF Visit
  <1>2. r \in next
    BY <1>1
  <1> QED BY <1>1, <1>2 DEF After

LEMMA VisitGoesOn ==
    ASSUME NEW rs, NEW r \in rs, Sound(r)
    PROVE  \E s \in rs : s.prev = r.prev /\ Sound(s) /\ s.hash = Visit(rs, r.prev)
  <1> DEFINE next == {s \in After(rs, r.prev) : Sound(s)}
             c == CHOOSE s \in next : TRUE
  <1>1. r \in next
    BY DEF After
  <1>2. c \in next /\ Visit(rs, r.prev) = c.hash
    BY <1>1 DEF Visit
  <1> QED BY <1>2 DEF After

RowType == [entry : Entries, prev : Seq(Entries), hash : Seq(Entries)]

(* A sound row stands one further in the chain than the row before it.     *)
LEMMA SoundLength ==
    ASSUME NEW r \in RowType, Sound(r)
    PROVE  Len(r.prev) \in Nat /\ Len(r.hash) = Len(r.prev) + 1
  <1>1. r.prev \in Seq(Entries) /\ r.entry \in Entries /\ r.hash = Append(r.prev, r.entry)
    BY DEF RowType, Sound, Hash
  <1> QED BY <1>1, AppendProperties, LenProperties

(* A walk that goes to its end has visited every row once: each is sound,  *)
(* and their places in the chain are 1 to the number of rows.              *)
LEMMA WalkCovers ==
    ASSUME NEW rs \in SUBSET RowType, IsFiniteSet(rs),
           Walked(rs)[Cardinality(rs)] # NoHash
    PROVE  /\ \A n \in 0..Cardinality(rs) : Len(Walked(rs)[n]) = n
           /\ \A n \in 1..Cardinality(rs) : \E r \in rs :
                r.prev = Walked(rs)[n - 1] /\ Sound(r) /\ r.hash = Walked(rs)[n]
           /\ \A r \in rs : Sound(r) /\ Len(r.hash) \in 1..Cardinality(rs)
                            /\ r.hash = Walked(rs)[Len(r.hash)]
  <1> DEFINE N == Cardinality(rs)
             w == Walked(rs)
  <1>0. /\ N \in Nat /\ w[0] = NoHash /\ w[N] # NoHash
        /\ \A n \in 1..N : w[n] = IF n > 1 /\ w[n - 1] = NoHash THEN NoHash
                                  ELSE Visit(rs, w[n - 1])
    BY WalkSteps
  <1> HIDE DEF N, w
  <1>1. \A n \in 1..N : w[n] # NoHash
    <2> DEFINE T == {j \in Nat : j < N /\ w[N - j] = NoHash}
    <2>1. T \subseteq Nat
      OBVIOUS
    <2>2. ASSUME T # {} PROVE FALSE
      <3> HIDE DEF T
      <3>1. PICK j \in T : \A k \in T : j <= k
        BY <2>1, <2>2, LeastNumber
      <3>2. j \in Nat /\ j < N /\ w[N - j] = NoHash
        BY <3>1 DEF T
      <3>3. j # 0
        BY <1>0, <3>2
      <3>4. N - j + 1 \in 1..N /\ N - j + 1 > 1 /\ (N - j + 1) - 1 = N - j
        BY <1>0, <3>2, <3>3
      <3>5. w[N - j + 1] = NoHash
        BY <1>0, <3>2, <3>4
      <3>6. j - 1 \in Nat /\ j - 1 < N /\ N - (j - 1) = N - j + 1
        BY <1>0, <3>2, <3>3
      <3>7. j - 1 \in T
        BY <3>5, <3>6 DEF T
      <3> QED BY <3>1, <3>2, <3>7
    <2>3. ASSUME NEW n \in 1..N PROVE w[n] # NoHash
      <3>1. N - n \in Nat /\ N - n < N /\ N - (N - n) = n
        BY <1>0
      <3>2. N - n \notin T
        BY <2>2
      <3> QED BY <3>1, <3>2
    <2> QED BY <2>3
  <1>2. \A n \in 1..N : w[n] = Visit(rs, w[n - 1])
    <2> TAKE n \in 1..N
    <2>1. n > 1 => n - 1 \in 1..N
      BY <1>0
    <2> QED BY <1>0, <1>1, <2>1
  <1>3. \A n \in 1..N : \E r \in rs : r.prev = w[n - 1] /\ Sound(r) /\ r.hash = w[n]
    BY <1>1, <1>2, VisitFacts
  <1>4. \A n \in 0..N : Len(w[n]) = n
    <2> DEFINE T == {n \in Nat : n <= N /\ Len(w[n]) # n}
    <2>1. T \subseteq Nat
      OBVIOUS
    <2>2. ASSUME T # {} PROVE FALSE
      <3> HIDE DEF T
      <3>1. PICK n \in T : \A k \in T : n <= k
        BY <2>1, <2>2, LeastNumber
      <3>2. n \in Nat /\ n <= N /\ Len(w[n]) # n
        BY <3>1 DEF T
      <3>3. Len(NoHash) = 0
        BY EmptySeq DEF NoHash
      <3>4. n # 0
        BY <1>0, <3>2, <3>3
      <3>5. n - 1 \in Nat /\ n - 1 <= N /\ n - 1 \notin T /\ n \in 1..N
        BY <1>0, <3>1, <3>2, <3>4
      <3>6. Len(w[n - 1]) = n - 1
        BY <3>5 DEF T
      <3>7. PICK r \in rs : r.prev = w[n - 1] /\ Sound(r) /\ r.hash = w[n]
        BY <1>3, <3>5
      <3>8. Len(r.hash) = Len(r.prev) + 1
        BY <3>7, SoundLength
      <3> QED BY <3>2, <3>6, <3>7, <3>8
    <2>3. ASSUME NEW n \in 0..N PROVE Len(w[n]) = n
      <3>1. n \in Nat /\ n <= N /\ n \notin T
        BY <1>0, <2>2
      <3> QED BY <3>1
    <2> QED BY <2>3
  <1> DEFINE f == [n \in 1..N |-> CHOOSE r \in rs : Sound(r) /\ r.hash = w[n]]
  <1>5. \A n \in 1..N : f[n] \in rs /\ Sound(f[n]) /\ f[n].hash = w[n]
    BY <1>3
  <1>6. \A n \in 1..N : Len(f[n].hash) = n
    <2> TAKE n \in 1..N
    <2>1. n \in 0..N
      BY <1>0
    <2> QED BY <1>4, <1>5, <2>1
  <1>7. f \in [1..N -> rs]
    BY <1>5
  <1> HIDE DEF f
  <1>8. f \in Injection(1..N, rs)
    <2>1. \A a, b \in 1..N : f[a] = f[b] => a = b
      BY <1>6
    <2> QED BY <1>7, <2>1, Fun_IsInj
  <1>9. Cardinality(1..N) = N
    BY <1>0, FS_Interval
  <1>10. f \in Surjection(1..N, rs)
    BY <1>8, <1>9, FS_Injection DEF N
  <1>11. \A r \in rs : \E n \in 1..N : f[n] = r
    BY <1>10 DEF Surjection
  <1>12. ASSUME NEW r \in rs
         PROVE  Sound(r) /\ Len(r.hash) \in 1..N /\ r.hash = w[Len(r.hash)]
    BY <1>5, <1>6, <1>11
  <1> QED BY <1>3, <1>4, <1>12 DEF N, w

-----------------------------------------------------------------------------
(* What verification accepts.                                              *)

(* The rows are the chain of the entries s: a link for each of them, whose *)
(* hash stands for the entries up to it, and no other row.                 *)
IsChain(rs, s) ==
    /\ \A r \in rs : /\ r = Link(r.entry, r.prev)
                     /\ Len(r.hash) <= Len(s) /\ r.hash = SubSeq(s, 1, Len(r.hash))
    /\ \A k \in 1..Len(s) : \E r \in rs : r.hash = SubSeq(s, 1, k)

(* The hash of a sound row determines its predecessor and its entry.       *)
LEMMA HashDetermines ==
    ASSUME NEW r \in RowType, NEW s \in RowType, Sound(r), Sound(s), r.hash = s.hash
    PROVE  r.prev = s.prev /\ r.entry = s.entry
  <1> DEFINE p == r.prev
             q == s.prev
             d == r.entry
             e == s.entry
  <1>1. /\ p \in Seq(Entries) /\ q \in Seq(Entries) /\ d \in Entries /\ e \in Entries
        /\ Append(p, d) = Append(q, e)
    BY DEF RowType, Sound, Hash
  <1> HIDE DEF p, q, d, e
  <1>2. p = q /\ d = e
    BY <1>1, AppendInjective
  <1> QED BY <1>2 DEF p, q, d, e

(* The places of the rows in a chain: each has one of its own.             *)
Placed(rs, st) ==
    /\ Len(st) \in Nat
    /\ \A r \in rs : /\ Sound(r) /\ Len(r.prev) \in Nat
                     /\ Len(r.hash) = Len(r.prev) + 1
                     /\ Len(r.hash) \in 1..Len(st)
                     /\ r.hash = SubSeq(st, 1, Len(r.hash))
    /\ \A k \in 1..Len(st) :
         \E r \in rs : Len(r.hash) = k /\ r.hash = SubSeq(st, 1, k)
    /\ \A r, s \in rs : Len(r.hash) = Len(s.hash) => r = s
    /\ \A r, s \in rs : r.prev = s.prev => r = s

LEMMA ChainRows ==
    ASSUME NEW rs \in SUBSET RowType, NEW st \in Seq(Entries), IsChain(rs, st)
    PROVE  Placed(rs, st)
  <1>1. rs \in SUBSET RowType /\ st \in Seq(Entries) /\ Len(st) \in Nat
    BY LenProperties
  <1>2. \A r \in rs : /\ r = Link(r.entry, r.prev) /\ Len(r.hash) <= Len(st)
                      /\ r.hash = SubSeq(st, 1, Len(r.hash))
    BY DEF IsChain
  <1>3. ASSUME NEW r \in rs
        PROVE  /\ Sound(r) /\ Len(r.prev) \in Nat /\ Len(r.hash) = Len(r.prev) + 1
               /\ Len(r.hash) \in 1..Len(st)
    <2>1. Link(r.entry, r.prev).hash = Hash(r.entry, r.prev)
      BY DEF Link
    <2>2. r.hash = Hash(r.entry, r.prev)
      BY <1>2, <2>1
    <2>3. Sound(r)
      BY <2>2 DEF Sound
    <2>4. Len(r.prev) \in Nat /\ Len(r.hash) = Len(r.prev) + 1
      BY <1>1, <2>3, SoundLength
    <2> QED BY <1>1, <1>2, <2>3, <2>4
  <1>4. ASSUME NEW k \in 1..Len(st)
        PROVE  \E r \in rs : Len(r.hash) = k /\ r.hash = SubSeq(st, 1, k)
    <2>1. PICK r \in rs : r.hash = SubSeq(st, 1, k)
      BY DEF IsChain
    <2>2. \A i \in 1..k : st[i] \in Entries
      BY <1>1, ElementOfSeq
    <2>3. Len(SubSeq(st, 1, k)) = k
      BY <1>1, <2>2, SubSeqProperties
    <2> QED BY <2>1, <2>3
  <1>5. ASSUME NEW r \in rs, NEW s \in rs, Len(r.hash) = Len(s.hash)
        PROVE  r = s
    <2>1. r.hash = s.hash
      BY <1>2, <1>5
    <2>2. r.prev = s.prev /\ r.entry = s.entry
      BY <1>1, <1>3, <2>1, HashDetermines
    <2>3. r = Link(r.entry, r.prev) /\ s = Link(s.entry, s.prev)
      BY <1>2
    <2> QED BY <2>2, <2>3
  <1>6. ASSUME NEW r \in rs, NEW s \in rs, r.prev = s.prev PROVE r = s
    BY <1>3, <1>5, <1>6
  <1> QED BY <1>1, <1>2, <1>3, <1>4, <1>5, <1>6 DEF Placed

(* The predecessor of the row at place k + 1 is the hash of that at k.     *)
LEMMA LinksAreChained ==
    ASSUME NEW rs \in SUBSET RowType, NEW st \in Seq(Entries), IsChain(rs, st),
           NEW r \in rs, NEW q \in rs,
           Len(r.hash) = Len(q.hash) + 1
    PROVE  r.prev = q.hash
  <1>places. Placed(rs, st)
    BY ChainRows
  <1>1. /\ rs \in SUBSET RowType /\ st \in Seq(Entries) /\ Len(st) \in Nat
        /\ Sound(r) /\ Len(r.hash) = Len(r.prev) + 1 /\ Len(r.prev) \in Nat
        /\ Len(r.hash) \in 1..Len(st) /\ Len(q.hash) \in 1..Len(st)
        /\ r.hash = SubSeq(st, 1, Len(r.hash)) /\ q.hash = SubSeq(st, 1, Len(q.hash))
    BY <1>places DEF Placed
  <1>2. /\ r.prev \in Seq(Entries) /\ r.entry \in Entries /\ q.hash \in Seq(Entries)
        /\ r.hash = Append(r.prev, r.entry) /\ Len(r.prev) = Len(q.hash)
    BY <1>1 DEF RowType, Sound, Hash
  <1>3. \A i \in 1..Len(st) : st[i] \in Entries
    BY <1>1, ElementOfSeq
  <1>4. ASSUME NEW k \in 1..Len(st), NEW i \in 1..k
        PROVE  SubSeq(st, 1, k)[i] = st[i]
    <2>1. \A j \in 1..k : st[j] \in Entries
      BY <1>1, <1>3
    <2>2. \A j \in 1..k : SubSeq(st, 1, k)[j] = st[1 + j - 1]
      BY <2>1, <1>1, SubSeqProperties
    <2> QED BY <2>2
  <1>5. ASSUME NEW i \in 1..Len(r.prev) PROVE r.prev[i] = q.hash[i]
    <2>1. i \in 1..Len(r.hash) /\ i \in 1..Len(q.hash)
      BY <1>1, <1>2
    <2>2. r.hash[i] = r.prev[i]
      BY <1>2, AppendProperties
    <2>3. r.hash[i] = st[i] /\ q.hash[i] = st[i]
      BY <1>1, <1>4, <2>1
    <2> QED BY <2>2, <2>3
  <1> QED BY <1>2, <1>5, SeqEqual

(* A chain has as many rows as entries.                                    *)
LEMMA LinksAreCounted ==
    ASSUME NEW rs \in SUBSET RowType, NEW st \in Seq(Entries), IsChain(rs, st)
    PROVE  IsFiniteSet(rs) /\ Cardinality(rs) = Len(st)
  <1>places. Placed(rs, st)
    BY ChainRows
  <1> DEFINE g == [k \in 1..Len(st) |-> CHOOSE r \in rs : Len(r.hash) = k]
  <1>1. Len(st) \in Nat
    BY <1>places DEF Placed
  <1>2. \A k \in 1..Len(st) : g[k] \in rs /\ Len(g[k].hash) = k
    BY <1>places DEF Placed
  <1>3. g \in [1..Len(st) -> rs]
    BY <1>2
  <1> HIDE DEF g
  <1>4. \A a, b \in 1..Len(st) : g[a] = g[b] => a = b
    BY <1>2
  <1>5. ASSUME NEW r \in rs PROVE \E k \in 1..Len(st) : g[k] = r
    <2>1. Len(r.hash) \in 1..Len(st)
      BY <1>places DEF Placed
    <2>2. g[Len(r.hash)] \in rs /\ Len(g[Len(r.hash)].hash) = Len(r.hash)
      BY <1>2, <2>1
    <2>3. g[Len(r.hash)] = r
      BY <2>2, <1>places DEF Placed
    <2> QED BY <2>1, <2>3
  <1>6. g \in Bijection(1..Len(st), rs)
    BY <1>3, <1>4, <1>5, Fun_IsBij
  <1>7. ExistsBijection(1..Len(st), rs)
    BY <1>6 DEF ExistsBijection
  <1>8. IsFiniteSet(1..Len(st)) /\ Cardinality(1..Len(st)) = Len(st)
    <2> DEFINE L == Len(st)
    <2>1. L \in Nat
      BY <1>1
    <2> HIDE DEF L
    <2>2. IsFiniteSet(1..L) /\ Cardinality(1..L) = IF 1 > L THEN 0 ELSE L - 1 + 1
      BY <2>1, FS_Interval
    <2> QED BY <2>1, <2>2 DEF L
  <1> QED BY <1>7, <1>8, FS_Bijection

(* Verification accepts it.                                                *)
LEMMA ChainIsAccepted ==
    ASSUME NEW rs \in SUBSET RowType, NEW st \in Seq(Entries), IsChain(rs, st)
    PROVE  Verify(rs)
  <1>places. Placed(rs, st)
    BY ChainRows
  <1> DEFINE N == Cardinality(rs)
             w == Walked(rs)
  <1>0. N = Len(st) /\ IsFiniteSet(rs) /\ N \in Nat
    BY LinksAreCounted, <1>places DEF Placed
  <1>1. /\ w[0] = NoHash
        /\ \A n \in 1..N : w[n] = IF n > 1 /\ w[n - 1] = NoHash THEN NoHash
                                  ELSE Visit(rs, w[n - 1])
    BY <1>0, WalkSteps
  <1>2. Len(NoHash) = 0
    BY EmptySeq DEF NoHash
  <1> HIDE DEF N, w
  <1>3. \A n \in 1..N : \E r \in rs : w[n] = r.hash /\ Len(r.hash) = n
    <2> DEFINE Good(n) == \E r \in rs : w[n] = r.hash /\ Len(r.hash) = n
               T == {n \in Nat : n \in 1..N /\ ~ Good(n)}
    <2>1. ASSUME T # {} PROVE FALSE
      <3>1. PICK n \in T : \A k \in T : n <= k
        <4> HIDE DEF T
        <4>1. T \subseteq Nat
          BY DEF T
        <4> QED BY <2>1, <4>1, LeastNumber
      <3>2. n \in 1..N /\ ~ Good(n) /\ n \in Nat
        BY <3>1
      <3>3. PICK r \in rs : Len(r.hash) = n
        BY <1>0, <3>2, <1>places DEF Placed
      <3>4. Sound(r) /\ Len(r.prev) \in Nat /\ Len(r.hash) = Len(r.prev) + 1
        BY <1>places DEF Placed
      <3>5. r.prev = w[n - 1] /\ (n > 1 => w[n - 1] # NoHash)
        <4>1. CASE n = 1
          <5>1. r.prev \in Seq(Entries)
            BY DEF RowType
          <5>2. Len(r.prev) = 0
            <6>1. Len(r.prev) \in Nat /\ Len(r.prev) + 1 = 1
              BY <3>3, <3>4, <4>1
            <6> QED BY <6>1
          <5>3. r.prev = NoHash
            BY <5>1, <5>2, EmptySeq DEF NoHash
          <5> QED BY <1>1, <4>1, <5>3
        <4>2. CASE n # 1
          <5>1. n - 1 \in 1..N /\ n - 1 \in Nat /\ n - 1 \notin T
            BY <1>0, <3>1, <3>2, <4>2
          <5>2. PICK q \in rs : w[n - 1] = q.hash /\ Len(q.hash) = n - 1
            BY <5>1
          <5>3. Len(r.hash) = Len(q.hash) + 1
            BY <3>2, <3>3, <5>2
          <5>4. r.prev = q.hash
            BY <5>3, LinksAreChained
          <5> QED BY <1>2, <3>2, <4>2, <5>2, <5>4
        <4> QED BY <4>1, <4>2
      <3>6. w[n] = Visit(rs, r.prev)
        BY <1>1, <3>2, <3>5
      <3>7. PICK s \in rs : s.prev = r.prev /\ Sound(s) /\ s.hash = Visit(rs, r.prev)
        BY <3>4, VisitGoesOn
      <3>8. Len(s.hash) = n
        BY <3>3, <3>4, <3>7, <1>places DEF Placed
      <3> QED BY <3>2, <3>6, <3>7, <3>8
    <2>2. ASSUME NEW n \in 1..N PROVE Good(n)
      <3>1. n \notin T /\ n \in Nat
        BY <2>1
      <3> QED BY <3>1
    <2> QED BY <2>2
  <1>4. rs # {} => w[N] # NoHash
    <2> SUFFICES ASSUME NEW r \in rs PROVE w[N] # NoHash
      OBVIOUS
    <2>1. N \in 1..N
      BY <1>0, <1>places DEF Placed
    <2>2. PICK s \in rs : w[N] = s.hash /\ Len(s.hash) = N
      BY <1>3, <2>1
    <2> QED BY <1>2, <2>1, <2>2
  <1>5. ~ Forked(rs)
    BY <1>places DEF Placed, Forked
  <1> QED BY <1>4, <1>5 DEF Verify, w, N

(* ... and nothing else.                                                   *)
LEMMA AcceptedIsChain ==
    ASSUME NEW rs \in SUBSET RowType, IsFiniteSet(rs), Verify(rs)
    PROVE  \E s \in Seq(Entries) : IsChain(rs, s)
  <1> DEFINE N == Cardinality(rs)
             w == Walked(rs)
  <1>1. CASE rs = {}
    <2>1. Len(NoHash) = 0 /\ NoHash \in Seq(Entries)
      BY EmptySeq DEF NoHash
    <2>2. IsChain(rs, NoHash)
      BY <1>1, <2>1 DEF IsChain
    <2> QED BY <2>1, <2>2
  <1>2. CASE rs # {}
    <2>1. /\ N \in Nat /\ w[0] = NoHash
          /\ \A n \in 0..N : Len(w[n]) = n
          /\ \A n \in 1..N : \E r \in rs : r.prev = w[n - 1] /\ Sound(r) /\ r.hash = w[n]
          /\ \A r \in rs : Sound(r) /\ Len(r.hash) \in 1..N /\ r.hash = w[Len(r.hash)]
      <3>1. w[N] # NoHash
        BY <1>2 DEF Verify
      <3> QED BY <3>1, WalkCovers, WalkSteps
    <2> HIDE DEF N, w
    <2>2. \A n \in 0..N : w[n] \in Seq(Entries)
      <3> TAKE n \in 0..N
      <3>1. CASE n = 0
        BY <2>1, <3>1, EmptySeq DEF NoHash
      <3>2. CASE n # 0
        <4>1. n \in 1..N
          BY <2>1, <3>2
        <4> QED BY <2>1, <4>1 DEF RowType
      <3> QED BY <3>1, <3>2
    <2>3. \A m \in 0..N : \A k \in 1..m : SubSeq(w[m], 1, k) = w[k]
      <3> DEFINE Good(m) == \A k \in 1..m : SubSeq(w[m], 1, k) = w[k]
                 T == {m \in Nat : m <= N /\ ~ Good(m)}
      <3>1. ASSUME T # {} PROVE FALSE
        <4>1. T \subseteq Nat
          OBVIOUS
        <4>2. PICK m \in T : \A j \in T : m <= j
          <5> HIDE DEF T
          <5> QED BY <3>1, <4>1, LeastNumber
        <4>3. m \in Nat /\ m <= N /\ ~ Good(m)
          OBVIOUS
        <4>4. m # 0
          BY <4>3
        <4>5. m - 1 \in Nat /\ m - 1 <= N /\ m \in 1..N /\ m - 1 \in 0..N
          BY <2>1, <4>3, <4>4
        <4>6. Good(m - 1)
          BY <4>2, <4>3, <4>5
        <4>7. PICK r \in rs : r.prev = w[m - 1] /\ Sound(r) /\ r.hash = w[m]
          BY <2>1, <4>5
        <4>8. r.entry \in Entries /\ w[m] = Append(w[m - 1], r.entry)
          BY <4>7 DEF RowType, Sound, Hash
        <4>9. w[m - 1] \in Seq(Entries) /\ Len(w[m - 1]) = m - 1
          BY <2>1, <2>2, <4>5
        <4>10. /\ \A k \in 1..(m - 1) : SubSeq(w[m], 1, k) = SubSeq(w[m - 1], 1, k)
               /\ SubSeq(w[m], 1, m) = w[m]
          <5> DEFINE v == w[m - 1]
                     e == r.entry
          <5>1. v \in Seq(Entries) /\ e \in Entries /\ Len(v) = m - 1 /\ w[m] = Append(v, e)
            BY <4>8, <4>9
          <5> HIDE DEF v, e
          <5>2. /\ \A k \in 1..Len(v) : SubSeq(Append(v, e), 1, k) = SubSeq(v, 1, k)
                /\ SubSeq(Append(v, e), 1, Len(v) + 1) = Append(v, e)
            BY <5>1, PrefixOfAppend
          <5>3. (m - 1) + 1 = m
            BY <4>3
          <5> QED BY <5>1, <5>2, <5>3 DEF v
        <4>11. \A k \in 1..m : k \in 1..(m - 1) \/ k = m
          BY <4>3
        <4> QED BY <4>3, <4>6, <4>10, <4>11
      <3>2. ASSUME NEW m \in 0..N PROVE Good(m)
        <4>1. m \in Nat /\ m <= N /\ m \notin T
          BY <2>1, <3>1
        <4> QED BY <4>1
      <3> QED BY <3>2
    <2>4. N \in 0..N /\ Len(w[N]) = N /\ w[N] \in Seq(Entries)
      BY <2>1, <2>2
    <2>5. ASSUME NEW r \in rs
          PROVE  /\ r = Link(r.entry, r.prev)
                 /\ Len(r.hash) <= Len(w[N]) /\ r.hash = SubSeq(w[N], 1, Len(r.hash))
      <3>1. r = Link(r.entry, r.prev)
        BY <2>1 DEF RowType, Sound, Link
      <3>2. Len(r.hash) \in 1..N /\ r.hash = w[Len(r.hash)]
        BY <2>1
      <3> QED BY <2>1, <2>3, <2>4, <3>1, <3>2
    <2>6. ASSUME NEW k \in 1..Len(w[N]) PROVE \E r \in rs : r.hash = SubSeq(w[N], 1, k)
      <3>1. k \in 1..N
        BY <2>4
      <3>2. PICK r \in rs : r.hash = w[k]
        BY <2>1, <3>1
      <3> QED BY <2>3, <2>4, <3>1, <3>2
    <2> QED BY <2>4, <2>5, <2>6 DEF IsChain
  <1> QED BY <1>1, <1>2

(* verifyChainIntegrity accepts exactly the tables that are a chain: with  *)
(* a link for each entry of a sequence, and no row besides                 *)
(* (audit.repository.ts:120-135).                                          *)
THEOREM VerifyAcceptsChains ==
    ASSUME NEW rs \in SUBSET RowType, IsFiniteSet(rs)
    PROVE  Verify(rs) <=> \E s \in Seq(Entries) : IsChain(rs, s)
  BY AcceptedIsChain, ChainIsAccepted

(* The table, as long as no one has damaged it.                            *)
LEMMA IntactIsChain ==
    ASSUME ChainInvariant, damaged = "none"
    PROVE  rows \in SUBSET RowType /\ state \in Seq(Entries) /\ IsChain(rows, state)
  BY DEF ChainInvariant, TypeOK, RowType, RowsArePrefixes, ChainIsWhole, IsChain

-----------------------------------------------------------------------------
(* Verification of a damaged trail.                                        *)

(* What the damage leaves behind, whatever is written after it: a row that *)
(* is not sound, or a place in the chain no row has.                       *)
DamageShows ==
    /\ IsFiniteSet(rows)
    /\ damaged = "none" => \A r \in rows : r.entry \in Txs
    /\ damaged \in {"alter", "lose"} => state # NoHash
    /\ damaged = "alter" => \E r \in rows : ~ Sound(r)
    /\ damaged = "lose" => \E k \in 1..Len(state) : \A r \in rows : Len(r.hash) # k

LEMMA AlterShows ==
    ASSUME ChainInvariant, DamageShows, NEW r \in rows, Alter(r)
    PROVE  DamageShows'
  <1>1. /\ damaged = "none" /\ damaged' = "alter" /\ state' = state
        /\ rows' = (rows \ {r}) \cup {[r EXCEPT !.entry = Changed]}
    BY DEF Alter
  <1>2. /\ r \in RowType /\ Sound(r) /\ r.entry \in Txs /\ Len(r.hash) \in 1..Len(state)
        /\ Len(state) \in Nat
    BY <1>1, IntactIsChain, ChainRows DEF Placed, DamageShows
  <1>3. state # NoHash
    BY <1>2, EmptySeq DEF NoHash
  <1> DEFINE a == [r EXCEPT !.entry = Changed]
  <1>4. a.entry = Changed /\ a.prev = r.prev /\ a.hash = r.hash
    BY <1>2 DEF RowType
  <1>5. ~ Sound(a)
    <2>1. /\ r.hash = Append(r.prev, r.entry) /\ r.prev \in Seq(Entries)
          /\ r.entry \in Entries /\ Changed \in Entries /\ r.entry # Changed
      BY <1>2, EntriesAreDistinct DEF Sound, Hash, RowType, Entries
    <2>2. Append(r.prev, r.entry) # Append(r.prev, Changed)
      BY <2>1, AppendInjective
    <2> QED BY <1>4, <2>1, <2>2 DEF Sound, Hash
  <1>6. IsFiniteSet(rows')
    <2>1. IsFiniteSet(rows \ {r})
      BY FS_RemoveElement DEF DamageShows
    <2> QED BY <1>1, <2>1, FS_AddElement
  <1> HIDE DEF a
  <1>7. a \in rows'
    BY <1>1 DEF a
  <1> QED BY <1>1, <1>3, <1>5, <1>6, <1>7 DEF DamageShows

LEMMA LossShows ==
    ASSUME ChainInvariant, DamageShows, NEW r \in rows, Lose(r)
    PROVE  DamageShows'
  <1>1. damaged = "none" /\ damaged' = "lose" /\ state' = state /\ rows' = rows \ {r}
    BY DEF Lose
  <1>2. Len(r.hash) \in 1..Len(state) /\ Len(state) \in Nat
    BY <1>1, IntactIsChain, ChainRows DEF Placed
  <1>3. state # NoHash
    BY <1>2, EmptySeq DEF NoHash
  <1>4. IsFiniteSet(rows')
    BY <1>1, FS_RemoveElement DEF DamageShows
  <1>5. \A s \in rows' : Len(s.hash) # Len(r.hash)
    BY <1>1, IntactIsChain, ChainRows DEF Placed
  <1> QED BY <1>1, <1>2, <1>3, <1>4, <1>5 DEF DamageShows

LEMMA CommitShows ==
    ASSUME ChainInvariant, DamageShows, NEW t \in Txs, Commit(t)
    PROVE  DamageShows'
  <1>1. /\ rows' = rows \cup {Link(t, prev[t])} /\ state' = Append(prev[t], t)
        /\ damaged' = damaged /\ t \in Writers
    BY DEF Commit, Hash, Writers
  <1>2. /\ prev[t] \in Seq(Entries) /\ t \in Entries /\ state \in Seq(Entries)
        /\ Len(state) \in Nat
    BY LenProperties DEF ChainInvariant, TypeOK, Entries
  <1>3. /\ Link(t, prev[t]).entry = t /\ Link(t, prev[t]).hash = state'
    BY <1>1 DEF Link, Hash
  <1>4. state' # NoHash /\ Len(state') = Len(prev[t]) + 1
    BY <1>1, <1>2, AppendProperties DEF NoHash
  <1>5. damaged # "race" => prev[t] = state
    BY <1>1 DEF ChainInvariant, WritersAreSerial
  <1>6. IsFiniteSet(rows')
    BY <1>1, FS_AddElement DEF DamageShows
  <1>7. damaged = "none" => \A r \in rows' : r.entry \in Txs
    BY <1>1, <1>3 DEF DamageShows
  <1>8. damaged = "alter" => \E r \in rows' : ~ Sound(r)
    BY <1>1 DEF DamageShows
  <1>9. ASSUME damaged = "lose"
        PROVE  \E k \in 1..Len(state') : \A r \in rows' : Len(r.hash) # k
    <2>1. PICK k \in 1..Len(state) : \A r \in rows : Len(r.hash) # k
      BY <1>9 DEF DamageShows
    <2>2. Len(state') = Len(state) + 1
      BY <1>4, <1>5, <1>9
    <2>3. k \in 1..Len(state') /\ k # Len(state')
      BY <1>2, <2>2
    <2> QED BY <1>1, <1>3, <2>1, <2>3
  <1> QED BY <1>1, <1>4, <1>6, <1>7, <1>8, <1>9 DEF DamageShows

LEMMA DamageStep ==
    ASSUME ChainInvariant, DamageShows, [Next]_vars
    PROVE  DamageShows'
  <1>1. ASSUME NEW t \in Txs, SelectForUpdate(t) PROVE DamageShows'
    <2>1. /\ UNCHANGED <<rows, state>>
          /\ damaged' = damaged \/ (damaged' = "race" /\ state = NoHash)
      BY <1>1 DEF SelectForUpdate, NoteRace
    <2> QED BY <2>1 DEF DamageShows
  <1>2. ASSUME UNCHANGED <<rows, state, damaged>> PROVE DamageShows'
    BY <1>2 DEF DamageShows
  <1>3. ASSUME NEW t \in Txs, Insert(t) \/ Rollback(t) PROVE UNCHANGED <<rows, state, damaged>>
    BY <1>3 DEF Insert, Rollback
  <1>4. UNCHANGED vars => UNCHANGED <<rows, state, damaged>>
    BY DEF vars
  <1> QED BY <1>1, <1>2, <1>3, <1>4, AlterShows, LossShows, CommitShows DEF Next, Write

(* Whatever is altered or lost, and whatever is appended after it.         *)
LEMMA DamageIsFound ==
    ASSUME ChainInvariant, DamageShows
    PROVE  /\ damaged = "alter" => ~ Verify(rows)
           /\ damaged = "lose" => ((\E r \in rows : r.hash = state) => ~ Verify(rows))
  <1>1. rows \in SUBSET RowType /\ IsFiniteSet(rows)
    BY DEF ChainInvariant, TypeOK, RowType, DamageShows
  <1>2. ASSUME damaged = "alter", Verify(rows) PROVE FALSE
    <2>1. PICK r \in rows : ~ Sound(r)
      BY <1>2 DEF DamageShows
    <2>2. Walked(rows)[Cardinality(rows)] # NoHash
      BY <1>2 DEF Verify
    <2> QED BY <1>1, <2>1, <2>2, WalkCovers
  <1>3. ASSUME damaged = "lose", Verify(rows), NEW r \in rows, r.hash = state PROVE FALSE
    <2>1. PICK k \in 1..Len(state) : \A s \in rows : Len(s.hash) # k
      BY <1>3 DEF DamageShows
    <2>2. Walked(rows)[Cardinality(rows)] # NoHash
      BY <1>3 DEF Verify
    <2>3. /\ Len(state) \in 1..Cardinality(rows) /\ Cardinality(rows) \in Nat
          /\ \A n \in 0..Cardinality(rows) : Len(Walked(rows)[n]) = n
          /\ \A n \in 1..Cardinality(rows) : \E s \in rows : s.hash = Walked(rows)[n]
      BY <1>1, <1>3, <2>2, WalkCovers, FS_CardinalityType
    <2>4. k \in 1..Cardinality(rows) /\ k \in 0..Cardinality(rows)
      BY <2>3
    <2>5. PICK s \in rows : s.hash = Walked(rows)[k]
      BY <2>3, <2>4
    <2> QED BY <2>1, <2>3, <2>4, <2>5
  <1> QED BY <1>2, <1>3

(* The check tells an intact trail from a damaged one, for any number of   *)
(* entries and whatever writes are going on                                *)
(* (docs/audit-log-immutability.md:17-20, 43-49).                          *)
THEOREM DamageIsTold == Spec => []VerificationTells
  <1>1. Init => DamageShows
    BY FS_EmptySet DEF Init, DamageShows
  <1>2. ChainInvariant /\ DamageShows => VerificationTells
    <2> SUFFICES ASSUME ChainInvariant, DamageShows PROVE VerificationTells
      OBVIOUS
    <2>1. damaged \in {"none", "race", "alter", "lose"}
      BY DEF ChainInvariant, TypeOK
    <2>2. damaged = "none" => Verify(rows)
      BY IntactIsChain, ChainIsAccepted
    <2> QED BY <2>1, <2>2, DamageIsFound DEF VerificationTells
  <1> QED BY <1>1, <1>2, ChainCorrect, DamageStep, PTL DEF Spec

-----------------------------------------------------------------------------
(* The files of users.                                                     *)

USE EveryFileHasAnOwner

Doings == {"idle", "uploaded", "delete", "unlist", "objects", "profile"}

(* What a process has read before it awaits still fits the tables: nothing *)
(* stores an object again, so that what was deleted stays deleted.         *)
WalkIsSound(p) ==
    /\ doing[p] \in {"uploaded", "delete", "unlist"} =>
         file[p] \in used /\ user[p] = Owner[file[p]]
    /\ doing[p] = "unlist" => file[p] \notin object
    /\ doing[p] \in {"objects", "profile"} => user[p] \in Users
    /\ doing[p] = "objects" =>
         /\ listed[p] \subseteq used
         /\ listed[p] \cap object \subseteq todo[p] \cup lost

WalksAreSound == \A p \in Procs : WalkIsSound(p)

DataInvariant == DataTypeOK /\ WalksAreSound /\ NoFileIsForgotten

(* The process p goes where it goes; the others stay where they are.       *)
OthersWait(p) ==
    \A q \in Procs \ {p} : /\ doing'[q] = doing[q] /\ user'[q] = user[q] /\ file'[q] = file[q]
                           /\ todo'[q] = todo[q] /\ listed'[q] = listed[q]

Walks == /\ doing \in [Procs -> Doings]
         /\ user \in [Procs -> Users \cup {NoOne}] /\ file \in [Procs -> Files \cup {NoFile}]
         /\ todo \in [Procs -> SUBSET Files] /\ listed \in [Procs -> SUBSET Files]

LEMMA DataTypes ==
    DataTypeOK <=> /\ account \in [Users -> {"live", "deleted", "due", "erased"}]
                   /\ signedIn \subseteq Users /\ profile \subseteq Users /\ batch \subseteq Users
                   /\ object \subseteq used /\ row \subseteq used /\ used \subseteq Files
                   /\ lost \subseteq Files /\ tardy \subseteq Files
                   /\ Walks
  BY DEF DataTypeOK, Walks, Doings

LEMMA GotoFrame ==
    ASSUME Walks, NEW p \in Procs, NEW step \in Doings, NEW u \in Users \cup {NoOne},
           NEW f \in Files \cup {NoFile}, Goto(p, step, u, f)
    PROVE  /\ Walks' /\ OthersWait(p)
           /\ doing'[p] = step /\ user'[p] = u /\ file'[p] = f
           /\ todo'[p] = todo[p] /\ listed'[p] = listed[p]
  BY DEF Walks, Goto, OthersWait

LEMMA LeaveFrame ==
    ASSUME Walks, NEW p \in Procs, Leave(p)
    PROVE  Walks' /\ OthersWait(p) /\ doing'[p] = "idle"
  BY DEF Walks, Leave, OthersWait, Doings

(* The walks of the others stay sound when keys are only added, objects    *)
(* are stored under new keys only, and causes are not forgotten.           *)
LEMMA OthersStaySound ==
    ASSUME WalksAreSound, NEW p \in Procs, OthersWait(p), WalkIsSound(p)',
           used \subseteq used', object' \cap used \subseteq object, lost \subseteq lost'
    PROVE  WalksAreSound'
  <1> SUFFICES ASSUME NEW q \in Procs \ {p} PROVE WalkIsSound(q)'
    BY DEF WalksAreSound
  <1>1. WalkIsSound(q)
    BY DEF WalksAreSound
  <1> QED BY <1>1 DEF WalkIsSound, OthersWait

LEMMA UploadKeeps ==
    ASSUME DataInvariant, NEW p \in Procs, NEW f \in Files, Upload(p, f)
    PROVE  DataInvariant'
  <1>1. /\ doing[p] = "idle" /\ p \in Reqs /\ f \notin used /\ Owner[f] \in Users
        /\ used' = used \cup {f} /\ object' = object \cup {f}
        /\ UNCHANGED <<account, signedIn, row, profile, batch, lost, tardy>>
    BY DEF Upload
  <1>2. /\ Walks' /\ OthersWait(p) /\ doing'[p] = "uploaded"
        /\ user'[p] = Owner[f] /\ file'[p] = f
    BY <1>1, GotoFrame, DataTypes DEF Upload, DataInvariant, Doings
  <1>3. DataTypeOK'
    BY <1>1, <1>2, DataTypes DEF DataInvariant, DataTypeOK, Walks, Doings
  <1>4. WalksAreSound'
    BY <1>1, <1>2, OthersStaySound, DataTypes DEF DataInvariant, WalkIsSound
  <1>5. EveryOrphanHasACause'
    <2> SUFFICES ASSUME NEW g \in object' \ row', g \notin lost'
                 PROVE  \E q \in Reqs : doing'[q] = "uploaded" /\ file'[q] = g
      BY DEF EveryOrphanHasACause
    <2>1. CASE g = f
      BY <1>1, <1>2, <2>1
    <2>2. CASE g # f
      <3>1. PICK q \in Reqs : doing[q] = "uploaded" /\ file[q] = g
        BY <1>1, <2>2 DEF DataInvariant, NoFileIsForgotten, EveryOrphanHasACause
      <3> QED BY <1>1, <1>2, <3>1 DEF OthersWait, Procs
    <2> QED BY <2>1, <2>2
  <1>6. ErasureLeavesNoFile'
    BY <1>1 DEF DataInvariant, NoFileIsForgotten, ErasureLeavesNoFile
  <1> QED BY <1>3, <1>4, <1>5, <1>6 DEF DataInvariant, NoFileIsForgotten

(* A step of p after which p is not uploading: orphans keep their cause if *)
(* what p had uploaded has one.                                            *)
LEMMA CausesStay ==
    ASSUME DataInvariant, NEW p \in Procs, OthersWait(p), object' \subseteq object,
           lost \subseteq lost',
           \A g \in object' : g \in row => g \in row' \cup lost',
           doing[p] = "uploaded" => file[p] \in row' \cup lost'
    PROVE  EveryOrphanHasACause'
  <1> SUFFICES ASSUME NEW g \in object' \ row', g \notin lost'
               PROVE  \E q \in Reqs : doing'[q] = "uploaded" /\ file'[q] = g
    BY DEF EveryOrphanHasACause
  <1>1. PICK q \in Reqs : doing[q] = "uploaded" /\ file[q] = g
    BY DEF DataInvariant, NoFileIsForgotten, EveryOrphanHasACause
  <1> QED BY <1>1 DEF OthersWait, Procs

(* A step of p that stores nothing.                                        *)
LEMMA WalkKeeps ==
    ASSUME DataInvariant, NEW p \in Procs, OthersWait(p), Walks', WalkIsSound(p)',
           UNCHANGED <<signedIn, used>>, profile' \subseteq Users, batch' \subseteq Users,
           account' \in [Users -> {"live", "deleted", "due", "erased"}],
           object' \subseteq object, row' \subseteq used,
           lost \subseteq lost', lost' \subseteq Files, tardy' \subseteq Files,
           \A g \in object' : g \in row => g \in row' \cup lost',
           doing[p] = "uploaded" => file[p] \in row' \cup lost',
           ErasureLeavesNoFile'
    PROVE  DataInvariant'
  <1>1. DataTypeOK'
    BY DataTypes DEF DataInvariant, DataTypeOK, Walks, Doings
  <1>2. WalksAreSound'
    BY OthersStaySound DEF DataInvariant
  <1> QED BY <1>1, <1>2, CausesStay DEF DataInvariant, NoFileIsForgotten

LEMMA RecordKeeps ==
    ASSUME DataInvariant, NEW p \in Procs, RecordFile(p) PROVE DataInvariant'
  <1>1. /\ doing[p] = "uploaded" /\ row' = row \cup {file[p]}
        /\ tardy' = IF account[user[p]] = "erased" THEN tardy \cup {file[p]} ELSE tardy
        /\ UNCHANGED <<account, signedIn, used, object, profile, batch, lost>>
    BY DEF RecordFile
  <1>2. Walks' /\ OthersWait(p) /\ doing'[p] = "idle"
    BY LeaveFrame, DataTypes DEF RecordFile, DataInvariant
  <1>3. file[p] \in used /\ user[p] = Owner[file[p]] /\ used \subseteq Files
    BY <1>1, DataTypes DEF DataInvariant, WalksAreSound, WalkIsSound
  <1>4. ErasureLeavesNoFile'
    BY <1>1, <1>3 DEF DataInvariant, NoFileIsForgotten, ErasureLeavesNoFile
  <1>5. WalkIsSound(p)'
    BY <1>2 DEF WalkIsSound
  <1> QED BY <1>1, <1>2, <1>3, <1>4, <1>5, WalkKeeps, DataTypes DEF DataInvariant

LEMMA DeleteKeeps ==
    ASSUME DataInvariant, NEW p \in Procs,
           (\E f \in Files : Delete(p, f)) \/ DeleteObject(p) \/ DeleteRow(p)
    PROVE  DataInvariant'
  <1>1. /\ UNCHANGED <<account, signedIn, used, profile, batch, lost, tardy>>
        /\ WalkIsSound(p) /\ DataTypeOK
    BY DEF Delete, DeleteObject, DeleteRow, stored, DataInvariant, WalksAreSound
  <1>2. CASE \E f \in Files : Delete(p, f)
    <2> PICK f \in Files : Delete(p, f)
      BY <1>2
    <2>1. doing[p] = "idle" /\ f \in row /\ UNCHANGED <<object, row>> /\ Owner[f] \in Users
      BY DEF Delete, stored
    <2>2. /\ Walks' /\ OthersWait(p) /\ doing'[p] = "delete"
          /\ user'[p] = Owner[f] /\ file'[p] = f
      BY <1>1, <2>1, GotoFrame, DataTypes DEF Delete, Doings
    <2>3. WalkIsSound(p)'
      BY <1>1, <2>1, <2>2, DataTypes DEF WalkIsSound
    <2>4. ErasureLeavesNoFile'
      BY <1>1, <2>1 DEF DataInvariant, NoFileIsForgotten, ErasureLeavesNoFile
    <2> QED BY <1>1, <2>1, <2>2, <2>3, <2>4, WalkKeeps, DataTypes
  <1>3. CASE DeleteObject(p)
    <2>1. doing[p] = "delete" /\ row' = row
      BY <1>3 DEF DeleteObject
    <2>2. file[p] \in used /\ user[p] = Owner[file[p]] /\ file[p] \in Files /\ user[p] \in Users
      BY <1>1, <2>1, DataTypes DEF WalkIsSound
    <2>3. ErasureLeavesNoFile'
      BY <1>1, <2>1 DEF DataInvariant, NoFileIsForgotten, ErasureLeavesNoFile
    <2>4. /\ Walks' /\ OthersWait(p)
          /\ \/ /\ object' = object \ {file[p]} /\ doing'[p] = "unlist"
                /\ user'[p] = user[p] /\ file'[p] = file[p]
             \/ object' = object /\ doing'[p] = "idle"
      BY <1>1, <1>3, <2>2, GotoFrame, LeaveFrame, DataTypes DEF DeleteObject, Doings
    <2>5. WalkIsSound(p)'
      BY <1>1, <2>2, <2>4 DEF WalkIsSound
    <2> QED BY <1>1, <2>1, <2>3, <2>4, <2>5, WalkKeeps, DataTypes
  <1>4. CASE DeleteRow(p)
    <2>1. doing[p] = "unlist" /\ row' = row \ {file[p]} /\ object' = object
      BY <1>4 DEF DeleteRow
    <2>2. Walks' /\ OthersWait(p) /\ doing'[p] = "idle"
      BY <1>1, <1>4, LeaveFrame, DataTypes DEF DeleteRow
    <2>3. WalkIsSound(p)' /\ file[p] \notin object
      BY <1>1, <2>1, <2>2 DEF WalkIsSound
    <2>4. ErasureLeavesNoFile'
      BY <1>1, <2>1 DEF DataInvariant, NoFileIsForgotten, ErasureLeavesNoFile
    <2> QED BY <1>1, <2>1, <2>2, <2>3, <2>4, WalkKeeps, DataTypes
  <1> QED BY <1>2, <1>3, <1>4

LEMMA ErasureKeeps ==
    ASSUME DataInvariant, NEW p \in Procs,
           (\E u \in Users : Erase(p, u)) \/ (\E f \in Files : EraseObject(p, f))
    PROVE  DataInvariant'
  <1>1. /\ UNCHANGED <<account, signedIn, used, row, profile, batch, tardy>>
        /\ WalkIsSound(p) /\ DataTypeOK /\ Walks
    BY DataTypes DEF Erase, EraseObject, stored, DataInvariant, WalksAreSound
  <1>2. ErasureLeavesNoFile'
    BY <1>1 DEF DataInvariant, NoFileIsForgotten, ErasureLeavesNoFile
  <1>3. CASE \E u \in Users : Erase(p, u)
    <2> PICK u \in Users : Erase(p, u)
      BY <1>3
    <2>1. /\ doing[p] = "idle" /\ UNCHANGED <<object, lost>>
          /\ row \cap FilesOf(u) \in SUBSET Files
      BY <1>1, DataTypes DEF Erase, stored
    <2>2. /\ Walks' /\ OthersWait(p) /\ doing'[p] = "objects" /\ user'[p] = u
          /\ todo'[p] = row \cap FilesOf(u) /\ listed'[p] = row \cap FilesOf(u)
      BY <1>1, <2>1 DEF Erase, Walks, OthersWait, Doings
    <2>3. WalkIsSound(p)'
      BY <1>1, <2>2, DataTypes DEF WalkIsSound
    <2> QED BY <1>1, <1>2, <2>1, <2>2, <2>3, WalkKeeps, DataTypes
  <1>4. CASE \E f \in Files : EraseObject(p, f)
    <2> PICK f \in Files : EraseObject(p, f)
      BY <1>4
    <2>1. /\ doing[p] = "objects" /\ f \in todo[p]
          /\ \/ object' = object \ {f} /\ lost' = lost
             \/ object' = object /\ lost' = lost \cup (object \cap {f})
          /\ UNCHANGED <<doing, user, file, listed>>
      BY DEF EraseObject
    <2>2. Walks' /\ OthersWait(p) /\ todo'[p] = todo[p] \ {f}
      BY <1>1, <2>1 DEF EraseObject, Walks, OthersWait
    <2>3. WalkIsSound(p)'
      BY <1>1, <2>1, <2>2 DEF WalkIsSound
    <2> QED BY <1>1, <1>2, <2>1, <2>2, <2>3, WalkKeeps, DataTypes
  <1> QED BY <1>3, <1>4

LEMMA ScrubKeeps ==
    ASSUME DataInvariant, NEW p \in Procs, Scrub(p) PROVE DataInvariant'
  <1>1. /\ doing[p] = "objects" /\ todo[p] = {}
        /\ account' = [account EXCEPT ![user[p]] = "erased"]
        /\ row' = row \ RowsErased(p)
        /\ lost' = lost \cup ((RowsErased(p) \ listed[p]) \cap object)
        /\ UNCHANGED <<signedIn, used, object, profile, tardy>>
    BY DEF Scrub
  <1>2. /\ WalkIsSound(p) /\ DataTypeOK /\ Walks /\ row \subseteq Files
        /\ object \subseteq Files /\ lost \subseteq Files /\ batch' \subseteq Users
    BY DataTypes DEF DataInvariant, WalksAreSound, Scrub, RestOfBatch
  <1>3. Walks' /\ OthersWait(p) /\ doing'[p] = "idle"
    BY <1>2, LeaveFrame DEF Scrub
  <1>4. user[p] \in Users /\ listed[p] \cap object \subseteq lost
    BY <1>1, <1>2 DEF WalkIsSound
  <1>5. account' \in [Users -> {"live", "deleted", "due", "erased"}]
    BY <1>1, <1>2, <1>4, DataTypes
  <1>6. ErasureLeavesNoFile'
    <2> SUFFICES ASSUME NEW f \in row', account'[Owner[f]] = "erased" PROVE f \in tardy'
      BY DEF ErasureLeavesNoFile
    <2>1. f \in row /\ f \in Files /\ Owner[f] # user[p] /\ Owner[f] \in Users
      BY <1>1, <1>2 DEF RowsErased, FilesOf
    <2>2. account[Owner[f]] = "erased"
      BY <1>1, <1>2, <1>4, <2>1, DataTypes
    <2> QED BY <1>1, <2>1, <2>2 DEF DataInvariant, NoFileIsForgotten, ErasureLeavesNoFile
  <1>7. WalkIsSound(p)'
    BY <1>3 DEF WalkIsSound
  <1>8. \A g \in object' : g \in row => g \in row' \cup lost'
    BY <1>1, <1>4
  <1> QED
    BY <1>1, <1>2, <1>3, <1>5, <1>6, <1>7, <1>8, WalkKeeps, DataTypes DEF RowsErased

(* A process comes to its end, or reads a profile.                         *)
LEMMA EndKeeps ==
    ASSUME DataInvariant, NEW p \in Procs,
           \/ ScrubFails(p) \/ StoreProfile(p) \/ BreakOff(p)
           \/ \E u \in Users : ReadProfile(p, u)
    PROVE  DataInvariant'
  <1>1. /\ UNCHANGED <<account, signedIn, used, object, row, tardy>>
        /\ WalkIsSound(p) /\ DataTypeOK /\ Walks
    BY DataTypes
    DEF ScrubFails, StoreProfile, BreakOff, ReadProfile, stored, DataInvariant, WalksAreSound
  <1>2. ErasureLeavesNoFile'
    BY <1>1 DEF DataInvariant, NoFileIsForgotten, ErasureLeavesNoFile
  <1>3. /\ lost \subseteq lost' /\ lost' \subseteq Files
        /\ doing[p] = "uploaded" => file[p] \in row' \cup lost'
    BY <1>1, DataTypes
    DEF ScrubFails, StoreProfile, BreakOff, ReadProfile, WalkIsSound
  <1>4. profile' \subseteq Users /\ batch' \subseteq Users
    BY <1>1, DataTypes
    DEF ScrubFails, StoreProfile, BreakOff, ReadProfile, RestOfBatch, WalkIsSound
  <1>5. Walks' /\ OthersWait(p) /\ WalkIsSound(p)'
    <2>1. CASE Leave(p)
      BY <1>1, <2>1, LeaveFrame DEF WalkIsSound
    <2>2. ASSUME NEW u \in Users, Goto(p, "profile", u, NoFile)
          PROVE  Walks' /\ OthersWait(p) /\ WalkIsSound(p)'
      <3>1. Walks' /\ OthersWait(p) /\ doing'[p] = "profile" /\ user'[p] = u
        BY <1>1, <2>2, GotoFrame DEF Doings
      <3> QED BY <3>1 DEF WalkIsSound
    <2> QED BY <2>1, <2>2 DEF ScrubFails, StoreProfile, BreakOff, ReadProfile
  <1>6. /\ account' \in [Users -> {"live", "deleted", "due", "erased"}]
        /\ object' \subseteq object /\ row' \subseteq used /\ tardy' \subseteq Files
        /\ \A g \in object' : g \in row => g \in row' \cup lost'
    BY <1>1, DataTypes
  <1> QED BY <1>1, <1>2, <1>3, <1>4, <1>5, <1>6, WalkKeeps

(* Steps of accounts, of the job between two accounts, and of time: no     *)
(* account is erased, and none returns.                                    *)
LEMMA AccountsKeep ==
    ASSUME DataInvariant, UNCHANGED <<stored, locals, lost, tardy>>,
           signedIn' \subseteq Users, profile' \subseteq Users, batch' \subseteq Users,
           account' \in [Users -> {"live", "deleted", "due", "erased"}],
           \A u \in Users : account'[u] = "erased" => account[u] = "erased"
    PROVE  DataInvariant'
  <1>1. UNCHANGED <<used, object, row, doing, user, file, todo, listed>>
    BY DEF stored, locals
  <1>2. DataTypeOK'
    BY <1>1 DEF DataInvariant, DataTypeOK
  <1>3. WalksAreSound'
    BY <1>1 DEF DataInvariant, WalksAreSound, WalkIsSound
  <1>4. EveryOrphanHasACause'
    BY <1>1 DEF DataInvariant, NoFileIsForgotten, EveryOrphanHasACause
  <1>5. \A f \in row : Owner[f] \in Users
    BY DataTypes DEF DataInvariant
  <1>6. ErasureLeavesNoFile'
    BY <1>1, <1>5 DEF DataInvariant, NoFileIsForgotten, ErasureLeavesNoFile
  <1> QED BY <1>2, <1>3, <1>4, <1>6 DEF DataInvariant, NoFileIsForgotten

LEMMA TimeKeeps ==
    ASSUME DataInvariant, NEW u \in Users,
           \/ PassOver(u) \/ DeleteUser(u) \/ GracePasses(u)
           \/ TokenExpires(u) \/ ProfileExpires(u)
    PROVE  DataInvariant'
  <1>1. /\ UNCHANGED <<stored, locals, lost, tardy>>
        /\ account \in [Users -> {"live", "deleted", "due", "erased"}]
        /\ signedIn \subseteq Users /\ profile \subseteq Users /\ batch \subseteq Users
    BY DataTypes
    DEF PassOver, DeleteUser, GracePasses, TokenExpires, ProfileExpires,
        DataInvariant
  <1>2. signedIn' \subseteq Users /\ profile' \subseteq Users /\ batch' \subseteq Users
    BY <1>1 DEF PassOver, DeleteUser, GracePasses, TokenExpires, ProfileExpires
  <1>3. /\ account' \in [Users -> {"live", "deleted", "due", "erased"}]
        /\ \A v \in Users : account'[v] = "erased" => account[v] = "erased"
    BY <1>1 DEF PassOver, DeleteUser, GracePasses, TokenExpires, ProfileExpires
  <1> QED BY <1>1, <1>2, <1>3, AccountsKeep

LEMMA DataStep == DataInvariant /\ [DataNext]_dataVars => DataInvariant'
  <1> SUFFICES ASSUME DataInvariant, [DataNext]_dataVars PROVE DataInvariant'
    OBVIOUS
  <1>1. CASE UNCHANGED dataVars
    <2>1. /\ UNCHANGED <<stored, locals, lost, tardy, account, signedIn, profile, batch>>
          /\ account \in [Users -> {"live", "deleted", "due", "erased"}]
          /\ signedIn \subseteq Users /\ profile \subseteq Users /\ batch \subseteq Users
      BY <1>1, DataTypes DEF dataVars, DataInvariant
    <2> QED BY <2>1, AccountsKeep
  <1>2. ASSUME NEW p \in Procs, Work(p) PROVE DataInvariant'
    BY <1>2, RecordKeeps, DeleteKeeps, ErasureKeeps, ScrubKeeps, EndKeeps DEF Work
  <1>3. ASSUME NEW p \in Reqs,
               \/ \E f \in Files : Upload(p, f) \/ Delete(p, f)
               \/ \E u \in Users : Erase(p, u) \/ ReadProfile(p, u)
               \/ Work(p) \/ BreakOff(p)
        PROVE  DataInvariant'
    <2>1. p \in Procs
      BY DEF Procs
    <2> QED BY <1>2, <1>3, <2>1, UploadKeeps, DeleteKeeps, ErasureKeeps, EndKeeps
  <1>4. CASE RunJob
    <2>1. Job \in Procs
      BY DEF Procs
    <2> QED BY <1>2, <1>4, <2>1, ErasureKeeps, TimeKeeps DEF RunJob
  <1>5. CASE StartJob
    <2>1. /\ UNCHANGED <<stored, locals, lost, tardy, account, signedIn, profile>>
          /\ account \in [Users -> {"live", "deleted", "due", "erased"}]
          /\ signedIn \subseteq Users /\ profile \subseteq Users /\ batch' \subseteq Users
      BY <1>5, DataTypes DEF StartJob, DataInvariant
    <2> QED BY <2>1, AccountsKeep
  <1>6. ASSUME NEW u \in Users,
               DeleteUser(u) \/ GracePasses(u) \/ TokenExpires(u) \/ ProfileExpires(u)
        PROVE  DataInvariant'
    BY <1>6, TimeKeeps
  <1> QED BY <1>1, <1>3, <1>4, <1>5, <1>6 DEF DataNext

LEMMA DataStarts == DataInit => DataInvariant
  <1> SUFFICES ASSUME DataInit PROVE DataInvariant
    OBVIOUS
  <1>1. DataTypeOK
    BY DEF DataInit, DataTypeOK
  <1>2. WalksAreSound
    BY DEF DataInit, WalksAreSound, WalkIsSound
  <1>3. NoFileIsForgotten
    BY DEF DataInit, NoFileIsForgotten, EveryOrphanHasACause, ErasureLeavesNoFile
  <1> QED BY <1>1, <1>2, <1>3 DEF DataInvariant

(* No file of a user is forgotten, for any number of users, files and      *)
(* requests: an object without a row is being uploaded or was lost in one  *)
(* of the ways the code knows of, and an erased account has no files but   *)
(* late ones (upload.service.ts:114-122, privacy.repository.ts:79-87).     *)
THEOREM FilesAreRemembered == DataSpec => []NoFileIsForgotten
  <1>1. DataInvariant => NoFileIsForgotten
    BY DEF DataInvariant
  <1> QED BY <1>1, DataStarts, DataStep, PTL DEF DataSpec

-----------------------------------------------------------------------------
(* The erasure of accounts: what the job and slow readers may still do.    *)

(* The job has only accounts in hand that were due when it found them and  *)
(* are so still, unless somebody else has erased them before.              *)
JobKnowsTheDue ==
    /\ \A u \in batch : account[u] \in {"due", "erased"}
    /\ doing[Job] # "idle" => doing[Job] = "objects" /\ user[Job] \in batch

(* Requests that have read the profile of u and have not stored it yet.    *)
LateReaders(u) == {p \in Reqs : doing[p] = "profile" /\ user[p] = u}

(* An account never comes back.  The job lets go of one that can be erased *)
(* only when it has been.  Once an account is not live, nobody reads its   *)
(* profile any more: it enters the cache by a late reader's being used up. *)
ErasureGoesForward ==
    \A u \in Users :
        /\ account[u] # "live" => account'[u] # "live"
        /\ account[u] = "due" => account'[u] \in {"due", "erased"}
        /\ account[u] = "erased" => account'[u] = "erased"
        /\ u \in batch \ (batch' \cup Stubborn) => account'[u] = "erased"
        /\ account[u] # "live" =>
              /\ LateReaders(u)' \subseteq LateReaders(u)
              /\ u \in profile' \ profile => LateReaders(u)' # LateReaders(u)

(* What both need: processes stay where they are, and a step of Leave or   *)
(* of Goto to something else brings no late reader.                        *)
LEMMA NoNewReader ==
    ASSUME NEW p \in Procs, OthersWait(p), doing'[p] # "profile", NEW u
    PROVE  LateReaders(u)' \subseteq LateReaders(u)
  BY DEF LateReaders, OthersWait, Procs

LEMMA RequestsGoForward ==
    ASSUME DataInvariant, JobKnowsTheDue, NEW p \in Procs,
           \/ \E f \in Files : Upload(p, f) \/ Delete(p, f) \/ EraseObject(p, f)
           \/ RecordFile(p) \/ DeleteObject(p) \/ DeleteRow(p)
           \/ p \in Reqs /\ (BreakOff(p) \/ \E u \in Users : Erase(p, u))
    PROVE  ErasureGoesForward /\ JobKnowsTheDue'
  <1> USE JobIsNoRequest
  <1>1. UNCHANGED <<account, profile, batch>>
    BY DEF Upload, Delete, RecordFile, DeleteObject, DeleteRow, EraseObject, Erase, BreakOff
  <1>2. /\ OthersWait(p) /\ doing'[p] # "profile"
        /\ p = Job => doing[p] = "objects" /\ doing'[p] = "objects" /\ user'[p] = user[p]
    <2>1. Walks /\ \A f \in Files : Owner[f] \in Users
      BY DataTypes DEF DataInvariant
    <2>2. CASE RecordFile(p) \/ DeleteRow(p) \/ (p \in Reqs /\ BreakOff(p))
      BY <2>1, <2>2, LeaveFrame DEF JobKnowsTheDue, RecordFile, DeleteRow, BreakOff
    <2>3. ASSUME NEW f \in Files, Upload(p, f) \/ Delete(p, f)
          PROVE  OthersWait(p) /\ doing'[p] # "profile" /\ p # Job
      BY <2>1, <2>3, GotoFrame DEF Upload, Delete, Doings, JobKnowsTheDue
    <2>4. CASE DeleteObject(p)
      <3>1. CASE Leave(p)
        BY <2>1, <2>4, <3>1, LeaveFrame DEF DeleteObject, JobKnowsTheDue
      <3>2. CASE Goto(p, "unlist", user[p], file[p])
        <4>1. /\ user[p] \in Users \cup {NoOne} /\ file[p] \in Files \cup {NoFile}
              /\ p # Job /\ "unlist" \in Doings
          BY <2>1, <2>4 DEF DeleteObject, Walks, Doings, JobKnowsTheDue
        <4>2. OthersWait(p) /\ doing'[p] = "unlist"
          BY <2>1, <3>2, <4>1, GotoFrame
        <4> QED BY <4>1, <4>2
      <3> QED BY <2>4, <3>1, <3>2 DEF DeleteObject
    <2>5. ASSUME \/ \E f \in Files : EraseObject(p, f)
                 \/ p \in Reqs /\ \E u \in Users : Erase(p, u)
          PROVE  /\ OthersWait(p) /\ doing'[p] = "objects"
                 /\ p = Job => doing[p] = "objects" /\ user'[p] = user[p]
      BY <2>1, <2>5 DEF EraseObject, Erase, Walks, OthersWait
    <2> QED BY <2>2, <2>3, <2>4, <2>5
  <1>3. ErasureGoesForward
    BY <1>1, <1>2, NoNewReader DEF ErasureGoesForward
  <1>4. JobKnowsTheDue'
    <2>1. CASE p = Job
      BY <1>1, <1>2, <2>1 DEF JobKnowsTheDue
    <2>2. CASE p # Job
      BY <1>1, <1>2, <2>2 DEF JobKnowsTheDue, OthersWait, Procs
    <2> QED BY <2>1, <2>2
  <1> QED BY <1>3, <1>4

LEMMA JobGoesForward ==
    ASSUME DataInvariant, JobKnowsTheDue, NEW p \in Procs, NEW u \in Users,
           Erase(Job, u) \/ PassOver(u) \/ StartJob \/ Scrub(p) \/ ScrubFails(p)
    PROVE  ErasureGoesForward /\ JobKnowsTheDue'
  <1> USE JobIsNoRequest
  <1>1. Walks /\ account \in [Users -> {"live", "deleted", "due", "erased"}] /\ batch \subseteq Users
    BY DataTypes DEF DataInvariant
  <1>2. CASE Erase(Job, u)
    <2>1. /\ u \in batch /\ UNCHANGED <<account, profile, batch>>
          /\ doing'[Job] = "objects" /\ user'[Job] = u /\ OthersWait(Job)
      BY <1>1, <1>2 DEF Erase, MayErase, Walks, OthersWait, Procs
    <2>2. Job \in Procs
      BY DEF Procs
    <2>3. ErasureGoesForward
      BY <2>1, <2>2, NoNewReader DEF ErasureGoesForward
    <2> QED BY <2>1, <2>3 DEF JobKnowsTheDue
  <1>3. CASE PassOver(u) \/ StartJob
    <2>1. UNCHANGED <<account, profile, doing, user>> /\ doing[Job] = "idle"
      BY <1>3 DEF PassOver, StartJob, locals
    <2> QED
      BY <1>3, <2>1
        DEF PassOver, StartJob, ErasureGoesForward, LateReaders, JobKnowsTheDue
  <1>4. CASE Scrub(p) \/ ScrubFails(p)
    <2>1. /\ doing[p] = "objects" /\ user[p] \in Users /\ profile' = profile
          /\ batch' = IF p # Job THEN batch ELSE batch \ {user[p]}
          /\ Leave(p)
          /\ \/ account' = [account EXCEPT ![user[p]] = "erased"]
             \/ account' = account /\ (p = Job => user[p] \in Stubborn)
      BY <1>4 DEF Scrub, ScrubFails, RestOfBatch, DataInvariant, WalksAreSound, WalkIsSound
    <2>2. OthersWait(p) /\ doing'[p] = "idle"
      BY <1>1, <2>1, LeaveFrame
    <2>3. \A v \in Users : account'[v] \in {account[v], "erased"}
      BY <1>1, <2>1
    <2>4. ASSUME NEW v \in batch \ (batch' \cup Stubborn) PROVE account'[v] = "erased"
      BY <1>1, <2>1, <2>4
    <2>5. ErasureGoesForward
      BY <2>1, <2>2, <2>3, <2>4, NoNewReader DEF ErasureGoesForward
    <2>6. JobKnowsTheDue'
      BY <1>1, <2>1, <2>2, <2>3 DEF JobKnowsTheDue, OthersWait, Procs
    <2> QED BY <2>5, <2>6
  <1> QED BY <1>2, <1>3, <1>4

LEMMA ProfilesGoForward ==
    ASSUME DataInvariant, JobKnowsTheDue, NEW p \in Procs, NEW u \in Users,
           (p \in Reqs /\ ReadProfile(p, u)) \/ StoreProfile(p)
    PROVE  ErasureGoesForward /\ JobKnowsTheDue'
  <1> USE JobIsNoRequest
  <1>1. Walks /\ UNCHANGED <<account, batch>> /\ p \in Reqs
    BY DataTypes DEF DataInvariant, ReadProfile, StoreProfile, JobKnowsTheDue, Procs
  <1>2. CASE ReadProfile(p, u)
    <2>1. /\ account[u] = "live" /\ profile' = profile
          /\ OthersWait(p) /\ doing'[p] = "profile" /\ user'[p] = u
      BY <1>1, <1>2, GotoFrame DEF ReadProfile, Found, Doings
    <2>2. \A v \in Users \ {u} : LateReaders(v)' \subseteq LateReaders(v)
      BY <2>1 DEF LateReaders, OthersWait, Procs
    <2>3. ErasureGoesForward
      BY <1>1, <2>1, <2>2 DEF ErasureGoesForward
    <2> QED BY <1>1, <2>1, <2>3 DEF JobKnowsTheDue, OthersWait, Procs
  <1>3. CASE StoreProfile(p)
    <2>1. /\ doing[p] = "profile" /\ profile' = profile \cup {user[p]}
          /\ OthersWait(p) /\ doing'[p] = "idle"
      BY <1>1, <1>3, LeaveFrame DEF StoreProfile
    <2>2. p \in LateReaders(user[p]) /\ \A v : p \notin LateReaders(v)'
      BY <1>1, <2>1 DEF LateReaders
    <2>3. ErasureGoesForward
      BY <1>1, <2>1, <2>2, NoNewReader DEF ErasureGoesForward
    <2> QED BY <1>1, <2>1, <2>3 DEF JobKnowsTheDue, OthersWait, Procs
  <1> QED BY <1>2, <1>3

LEMMA AccountsGoForward ==
    ASSUME JobKnowsTheDue, DataInvariant, NEW u \in Users,
           DeleteUser(u) \/ GracePasses(u) \/ TokenExpires(u) \/ ProfileExpires(u)
    PROVE  ErasureGoesForward /\ JobKnowsTheDue'
  <1>1. account \in [Users -> {"live", "deleted", "due", "erased"}] /\ batch \subseteq Users
    BY DataTypes DEF DataInvariant
  <1>2. UNCHANGED <<doing, user, batch>> /\ profile' \subseteq profile
    BY DEF DeleteUser, GracePasses, TokenExpires, ProfileExpires, locals
  <1>3. \/ account' = account
        \/ account[u] = "live" /\ account' = [account EXCEPT ![u] = "deleted"]
        \/ account[u] = "deleted" /\ account' = [account EXCEPT ![u] = "due"]
    BY DEF DeleteUser, GracePasses, TokenExpires, ProfileExpires
  <1> QED
    BY <1>1, <1>2, <1>3 DEF ErasureGoesForward, LateReaders, JobKnowsTheDue

LEMMA ErasureStep ==
    ASSUME DataInvariant, JobKnowsTheDue, [DataNext]_dataVars
    PROVE  JobKnowsTheDue' /\ (UNCHANGED dataVars \/ ErasureGoesForward)
  <1>1. CASE UNCHANGED dataVars
    BY <1>1 DEF dataVars, locals, JobKnowsTheDue
  <1>2. ASSUME NEW p \in Procs, Work(p) PROVE JobKnowsTheDue' /\ ErasureGoesForward
    <2>1. CASE Scrub(p) \/ ScrubFails(p) \/ StoreProfile(p)
      <3>1. user[p] \in Users
        BY <2>1
          DEF Scrub, ScrubFails, StoreProfile, DataInvariant, WalksAreSound, WalkIsSound
      <3> QED BY <2>1, <3>1, JobGoesForward, ProfilesGoForward
    <2> QED BY <1>2, <2>1, RequestsGoForward DEF Work
  <1>3. ASSUME NEW p \in Reqs,
               \/ \E f \in Files : Upload(p, f) \/ Delete(p, f)
               \/ \E u \in Users : Erase(p, u) \/ ReadProfile(p, u)
               \/ Work(p) \/ BreakOff(p)
        PROVE  JobKnowsTheDue' /\ ErasureGoesForward
    <2>1. p \in Procs
      BY DEF Procs
    <2> QED BY <1>2, <1>3, <2>1, RequestsGoForward, ProfilesGoForward
  <1>4. CASE StartJob \/ RunJob
    <2>1. Job \in Procs
      BY DEF Procs
    <2>2. CASE StartJob
      <3>1. CASE Users = {}
        BY <2>2, <3>1, DataTypes
          DEF StartJob, DataInvariant, locals, JobKnowsTheDue, ErasureGoesForward
      <3> QED BY <2>1, <2>2, <3>1, JobGoesForward
    <2> QED BY <1>2, <1>4, <2>1, <2>2, JobGoesForward DEF RunJob
  <1>5. ASSUME NEW u \in Users,
               DeleteUser(u) \/ GracePasses(u) \/ TokenExpires(u) \/ ProfileExpires(u)
        PROVE  JobKnowsTheDue' /\ ErasureGoesForward
    BY <1>5, AccountsGoForward
  <1> QED BY <1>1, <1>2, <1>3, <1>4, <1>5 DEF DataNext

(* What EveryDueAccountIsErased and ErasedProfileDiesOut need of every     *)
(* step: the job erases only accounts whose grace period is over, drops    *)
(* none that it could erase, even if others fail (enforce-data-retention.  *)
(* job.ts:21-31), no account comes back, and the profile of one that is    *)
(* gone is cached at most once for each request that was reading it        *)
(* (user.service.ts:29-41).                                                *)
THEOREM ErasureIsOneWay ==
    DataSpec => []JobKnowsTheDue /\ [][ErasureGoesForward]_dataVars
  <1>1. DataInit => DataInvariant /\ JobKnowsTheDue
    BY DataStarts DEF DataInit, JobKnowsTheDue, Procs
  <1>2. DataInvariant /\ JobKnowsTheDue /\ [DataNext]_dataVars
           => DataInvariant' /\ JobKnowsTheDue' /\ [ErasureGoesForward]_dataVars
    BY DataStep, ErasureStep
  <1> QED BY <1>1, <1>2, PTL DEF DataSpec

-----------------------------------------------------------------------------
(* Products, their upgrades and the cached list.                           *)

USE RanksAreNumbers

Places == {"start", "find", "write", "log", "invalidate", "get", "fetch", "store",
           "answer", "done"}
Rows == [state : {"absent", "live", "deleted"}, rank : Ranks]
Changes == [state : {"not written", "live", "deleted"}, rank : Ranks]
Upgrade == [from : Ranks, to : Ranks]
Records == [op : {"none", "create", "upgrade", "delete", "list"}, at : Places,
            of : Products \cup {NoProduct}, from : Ranks, to : Ranks,
            tx : {"none", "open", "over"}, wrote : Changes, logged : BOOLEAN,
            seen : SUBSET (Products \X Ranks), clean : BOOLEAN]
Caches == [cached : BOOLEAN, list : SUBSET (Products \X Ranks),
           clean : BOOLEAN, expires : BOOLEAN]

(* What the transaction c of a request has done so far: it has changed its *)
(* row, passed the checks of an upgrade, is about to store a list that was *)
(* read with no change under way.                                          *)
Writes(c) == c.tx = "open" /\ c.wrote # NotWritten
Passed(c) == c.tx = "open" /\ (c.at = "write" \/ c.wrote # NotWritten)
Upgrades(c) == c.op = "upgrade" /\ Passed(c)
Brings(c) == c.at = "store" /\ c.clean

(* The statements of a request in their order, and what they rest on.      *)
RequestIsSound(c) ==
    /\ c.op \in {"create", "upgrade", "delete"} => c.of \in Products
    /\ c.at = "done" => c.op = "none"
    /\ c.tx = "open" /\ c.at = "find" => c.op \in {"upgrade", "delete"}
    /\ Passed(c) => c.op \in {"create", "upgrade", "delete"}
    /\ Writes(c) => c.at \in {"log", "invalidate", "answer"}
    /\ c.tx = "open" /\ c.at = "log" => c.op = "upgrade" /\ Writes(c)
    /\ c.tx = "open" => (c.logged <=> c.op = "upgrade" /\ Writes(c) /\ c.at # "log")
    /\ Upgrades(c) => c.from < c.to
    /\ Passed(c) /\ c.op = "create" => product[c.of] = Absent
    /\ Passed(c) /\ c.op # "create" => product[c.of].state # "absent"
    /\ Writes(c) =>
         /\ c.wrote.state # "not written"
         /\ c.wrote.rank = IF c.op = "upgrade" THEN c.to ELSE product[c.of].rank

RequestsAreSound == \A r \in Visits : RequestIsSound(request[r])

(* A row is locked by the one request that has changed it.                 *)
LocksExclude ==
    \A r, s \in Visits :
        /\ Writes(request[r]) /\ Writes(request[s]) /\ request[r].of = request[s].of
        => r = s

CreatesExclude ==
    \A r, s \in Visits :
        /\ request[r].op = "create" /\ request[s].op = "create"
        /\ request[r].of = request[s].of
        => r = s

(* Two upgrades that are both past their checks overlap, and one that      *)
(* overlaps no other has read the category it changes.                     *)
OverlapsAreNoted ==
    \A r, s \in Visits :
        /\ Upgrades(request[r]) /\ Upgrades(request[s]) /\ request[r].of = request[s].of
        => r = s \/ request[r].of \in overlapped

ReadsHold ==
    \A r \in Visits :
        Upgrades(request[r]) /\ request[r].of \notin overlapped =>
            request[r].from = product[request[r].of].rank

(* A clean list that is not stored yet shows what is committed, and no     *)
(* change is under way; a change that is about to commit finds no clean    *)
(* list in the cache.                                                      *)
ListsAreFresh ==
    \A r \in Visits : Brings(request[r]) =>
        /\ request[r].seen = Listed
        /\ \A s \in Visits : ~ Writes(request[s])

ChangesInvalidate ==
    cache.cached /\ cache.clean =>
        \A r \in Visits : ~ (Writes(request[r]) /\ request[r].at = "answer")

CatalogInvariant ==
    /\ CatalogTypeOK
    /\ RequestsAreSound
    /\ LocksExclude /\ CreatesExclude
    /\ OverlapsAreNoted /\ ReadsHold
    /\ UpgradesAreLogged
    /\ ListsAreFresh /\ ChangesInvalidate
    /\ CleanListIsFresh

LEMMA CatalogTypes ==
    CatalogTypeOK <=> /\ product \in [Products -> Rows]
                      /\ upgradeLog \in [Products -> Seq(Upgrade)]
                      /\ request \in [Visits -> Records]
                      /\ cache \in Caches
                      /\ overlapped \subseteq Products
                      /\ cut \subseteq Products
  BY DEF CatalogTypeOK, Rows, Upgrade, Records, Places, Changes, Caches

(* The request r, and no other one, becomes c.                             *)
RequestBecomes(r, c) ==
    /\ request' \in [Visits -> Records] /\ request'[r] = c
    /\ \A s \in Visits \ {r} : request'[s] = request[s]

(* The same request at another place.                                      *)
Moved(c, d, place) ==
    /\ c.at = place
    /\ c.op = d.op /\ c.of = d.of /\ c.from = d.from /\ c.to = d.to /\ c.tx = d.tx
    /\ c.wrote = d.wrote /\ c.logged = d.logged /\ c.seen = d.seen /\ c.clean = d.clean

LEMMA MoveFrame ==
    ASSUME CatalogTypeOK, NEW r \in Visits, NEW place \in Places,
           request' = [request EXCEPT ![r].at = place]
    PROVE  \E c \in Records : RequestBecomes(r, c) /\ Moved(c, request[r], place)
  <1>1. request \in [Visits -> Records] /\ request[r] \in Records
    BY CatalogTypes
  <1>2. [request[r] EXCEPT !.at = place] \in Records
    BY <1>1 DEF Records
  <1>3. Moved([request[r] EXCEPT !.at = place], request[r], place)
    BY <1>1 DEF Moved, Records
  <1>4. RequestBecomes(r, [request[r] EXCEPT !.at = place])
    BY <1>1, <1>2 DEF RequestBecomes
  <1> QED BY <1>2, <1>3, <1>4

LEMMA BlankFrame ==
    ASSUME CatalogTypeOK, NEW r \in Visits, request' = [request EXCEPT ![r] = Done]
    PROVE  /\ RequestBecomes(r, Done) /\ Done \in Records
           /\ Done.op = "none" /\ Done.tx = "over" /\ Done.at = "done"
  <1>1. request \in [Visits -> Records]
    BY CatalogTypes
  <1>2. NotWritten \in Changes /\ 0 \in Ranks
    BY DEF NotWritten, Changes, Ranks
  <1>3. Done \in Records /\ Done.op = "none" /\ Done.tx = "over" /\ Done.at = "done"
    BY <1>2 DEF Done, Blank, Records, Places
  <1> HIDE DEF Done
  <1> QED BY <1>1, <1>3 DEF RequestBecomes

(* The request r goes on as c: what c has done more than r, it may do.     *)
GoesOn(r, c) ==
    /\ Writes(c) => Writes(request[r]) /\ c.of = request[r].of
    /\ Upgrades(c) =>
         \/ Upgrades(request[r]) /\ c.of = request[r].of /\ c.from = request[r].from
         \/ /\ c.from = product[c.of].rank
            /\ \A s \in Visits \ {r} :
                 Upgrades(request[s]) /\ request[s].of = c.of => c.of \in overlapped'
    /\ c.op = "create" =>
         \/ request[r].op = "create" /\ c.of = request[r].of
         \/ \A s \in Visits : ~ (request[s].op = "create" /\ request[s].of = c.of)
    /\ Brings(c) =>
         \/ Brings(request[r]) /\ c.seen = request[r].seen
         \/ c.seen = Listed /\ \A s \in Visits : ~ Writes(request[s])
    /\ overlapped \subseteq overlapped' /\ overlapped' \subseteq Products

LEMMA ExclusionStays ==
    ASSUME CatalogInvariant, NEW r \in Visits, NEW c \in Records, RequestBecomes(r, c),
           GoesOn(r, c)
    PROVE  LocksExclude' /\ CreatesExclude' /\ OverlapsAreNoted'
  <1>1. LocksExclude'
    BY DEF CatalogInvariant, LocksExclude, RequestBecomes, GoesOn
  <1>2. CreatesExclude'
    BY DEF CatalogInvariant, CreatesExclude, RequestBecomes, GoesOn
  <1>3. OverlapsAreNoted'
    <2> SUFFICES ASSUME NEW s \in Visits, NEW t \in Visits, s # t,
                        Upgrades(request'[s]), Upgrades(request'[t]),
                        request'[s].of = request'[t].of
                 PROVE  request'[s].of \in overlapped'
      BY DEF OverlapsAreNoted, Upgrades, Passed
    <2>1. CASE s # r /\ t # r
      BY <2>1 DEF CatalogInvariant, OverlapsAreNoted, RequestBecomes, GoesOn
    <2>2. CASE s = r
      BY <2>2 DEF CatalogInvariant, OverlapsAreNoted, RequestBecomes, GoesOn
    <2>3. CASE t = r
      BY <2>3 DEF CatalogInvariant, OverlapsAreNoted, RequestBecomes, GoesOn
    <2> QED BY <2>1, <2>2, <2>3
  <1> QED BY <1>1, <1>2, <1>3

(* A request goes on and the rows stay.                                    *)
LEMMA GoingOnKeeps ==
    ASSUME CatalogInvariant, NEW r \in Visits, NEW c \in Records, RequestBecomes(r, c),
           GoesOn(r, c), RequestIsSound(c), UNCHANGED <<product, upgradeLog, cut>>,
           cache' \in Caches,
           cache'.cached /\ cache'.clean =>
               /\ ~ (Writes(c) /\ c.at = "answer")
               /\ cache'.list = Listed
               /\ cache' = cache \/ \A s \in Visits : ~ Writes(request[s])
    PROVE  CatalogInvariant'
  <1>1. Listed' = Listed /\ overlapped \subseteq overlapped' /\ overlapped' \subseteq Products
    BY DEF Listed, GoesOn
  <1>2. CatalogTypeOK'
    BY <1>1, CatalogTypes
    DEF CatalogInvariant, RequestBecomes, CatalogTypeOK, Rows, Upgrade, Records, Places,
        Changes, Caches
  <1>3. RequestsAreSound'
    <2> SUFFICES ASSUME NEW s \in Visits PROVE RequestIsSound(request[s])'
      BY DEF RequestsAreSound
    <2>1. RequestIsSound(request'[s])
      BY DEF CatalogInvariant, RequestsAreSound, RequestBecomes
    <2> QED BY <2>1 DEF RequestIsSound, Passed, Writes, Upgrades
  <1>4. ReadsHold'
    BY <1>1 DEF CatalogInvariant, ReadsHold, RequestBecomes, GoesOn
  <1>5. UpgradesAreLogged' /\ CleanListIsFresh'
    BY <1>1 DEF CatalogInvariant, UpgradesAreLogged, CleanListIsFresh
  <1>6. ListsAreFresh'
    BY <1>1 DEF CatalogInvariant, ListsAreFresh, RequestBecomes, GoesOn
  <1>7. ChangesInvalidate'
    BY DEF CatalogInvariant, ChangesInvalidate, RequestBecomes, GoesOn
  <1> QED BY <1>2, <1>3, <1>4, <1>5, <1>6, <1>7, ExclusionStays DEF CatalogInvariant

LEMMA CacheStays ==
    ASSUME CatalogInvariant
    PROVE  cache \in Caches /\ (cache.cached /\ cache.clean => cache.list = Listed)
  BY CatalogTypes DEF CatalogInvariant, CleanListIsFresh

-----------------------------------------------------------------------------
(* A request that begins has done nothing yet.                             *)
Opened(r, c, op, p, place) ==
    /\ RequestBecomes(r, c)
    /\ c.op = op /\ c.of = p /\ c.at = place /\ c.tx = "open"
    /\ c.wrote = NotWritten /\ c.logged = FALSE

LEMMA BeginFrame ==
    ASSUME CatalogTypeOK, NEW r \in Visits, NEW op \in {"create", "delete", "list", "upgrade"},
           NEW p \in Products \cup {NoProduct}, NEW place \in Places, NEW to \in Ranks,
           Begin(r, op, p, to, place)
    PROVE  \E c \in Records : Opened(r, c, op, p, place)
  <1>1. request \in [Visits -> Records] /\ request[r] \in Records
    BY CatalogTypes
  <1>2. request[r].wrote = NotWritten /\ request[r].logged = FALSE
    BY DEF NotStarted, Blank, Begin
  <1> DEFINE c == [[[[[request[r] EXCEPT !.op = op] EXCEPT !.of = p] EXCEPT !.to = to]
                    EXCEPT !.at = place] EXCEPT !.tx = "open"]
  <1>3. c \in Records
    BY <1>1 DEF Records
  <1>4. /\ c.op = op /\ c.of = p /\ c.at = place /\ c.tx = "open"
        /\ c.wrote = NotWritten /\ c.logged = FALSE
    BY <1>1, <1>2 DEF Records
  <1>5. request' = [request EXCEPT ![r] = c]
    BY <1>1 DEF Records, Begin
  <1> HIDE DEF c
  <1>6. RequestBecomes(r, c)
    BY <1>1, <1>3, <1>5 DEF RequestBecomes
  <1>7. Opened(r, c, op, p, place)
    BY <1>4, <1>6 DEF Opened
  <1> QED BY <1>3, <1>7

LEMMA BeginKeeps ==
    ASSUME CatalogInvariant, NEW r \in Visits,
           \/ StartList(r)
           \/ \E p \in Products :
                \/ StartCreate(r, p) \/ StartDelete(r, p)
                \/ \E to \in 1 .. TopRank : StartUpgrade(r, p, to)
    PROVE  CatalogInvariant'
  <1>1. /\ UNCHANGED <<product, upgradeLog, cache, overlapped, cut>>
        /\ overlapped \subseteq Products /\ CatalogTypeOK
    BY CatalogTypes DEF StartList, StartCreate, StartDelete, StartUpgrade, CatalogInvariant
  <1>2. /\ 0 \in Ranks /\ 1 .. TopRank \subseteq Ranks
        /\ "find" \in Places /\ "get" \in Places /\ "write" \in Places
    BY DEF Ranks, Places
  <1>3. ASSUME NEW c \in Records, RequestBecomes(r, c), c.tx = "open", c.wrote = NotWritten,
               c.logged = FALSE,
               \/ c.op \in {"upgrade", "delete"} /\ c.of \in Products /\ c.at = "find"
               \/ c.op = "list" /\ c.at = "get"
               \/ /\ c.op = "create" /\ c.at = "write" /\ c.of \in Products
                  /\ product[c.of] = Absent
                  /\ \A s \in Visits : ~ (request[s].op = "create" /\ request[s].of = c.of)
        PROVE  CatalogInvariant'
    <2>1. ~ Writes(c) /\ ~ Brings(c) /\ ~ Upgrades(c)
      BY <1>3 DEF Writes, Brings, Upgrades, Passed
    <2>2. RequestIsSound(c)
      BY <1>3, <2>1 DEF RequestIsSound, Passed, Writes, Upgrades
    <2>3. GoesOn(r, c)
      BY <1>1, <1>3, <2>1 DEF GoesOn
    <2> QED BY <1>1, <1>3, <2>1, <2>2, <2>3, CacheStays, GoingOnKeeps
  <1>4. CASE StartList(r)
    <2>1. \E c \in Records : Opened(r, c, "list", NoProduct, "get")
      BY <1>1, <1>2, <1>4, BeginFrame DEF StartList
    <2> QED BY <1>3, <2>1 DEF Opened
  <1>5. ASSUME NEW p \in Products, StartCreate(r, p) PROVE CatalogInvariant'
    <2>1. \E c \in Records : Opened(r, c, "create", p, "write")
      BY <1>1, <1>2, <1>5, BeginFrame DEF StartCreate
    <2>2. \A s \in Visits : ~ (request[s].op = "create" /\ request[s].of = p)
      BY <1>5 DEF StartCreate, At, CatalogInvariant, RequestsAreSound, RequestIsSound
    <2> QED BY <1>3, <1>5, <2>1, <2>2 DEF Opened, StartCreate
  <1>6. ASSUME NEW p \in Products, StartDelete(r, p) PROVE CatalogInvariant'
    <2>1. \E c \in Records : Opened(r, c, "delete", p, "find")
      BY <1>1, <1>2, <1>6, BeginFrame DEF StartDelete
    <2> QED BY <1>3, <2>1 DEF Opened
  <1>7. ASSUME NEW p \in Products, NEW to \in 1 .. TopRank, StartUpgrade(r, p, to)
        PROVE  CatalogInvariant'
    <2>1. \E c \in Records : Opened(r, c, "upgrade", p, "find")
      BY <1>1, <1>2, <1>7, BeginFrame DEF StartUpgrade
    <2> QED BY <1>3, <2>1 DEF Opened
  <1> QED BY <1>4, <1>5, <1>6, <1>7

LEMMA FindKeeps ==
    ASSUME CatalogInvariant, NEW r \in Visits, Find(r) PROVE CatalogInvariant'
  <1> DEFINE p == request[r].of
  <1>1. /\ request[r].at = "find" /\ request[r].tx = "open"
        /\ request' = [request EXCEPT ![r].at = "write", ![r].from = product[p].rank]
        /\ request[r].op = "upgrade" => product[p].state = "live" /\ request[r].to > product[p].rank
        /\ request[r].op # "upgrade" => product[p].state = "live"
        /\ overlapped' = IF /\ request[r].op = "upgrade"
                            /\ \E s \in Visits \ {r} : Upgrading(s, p)
                         THEN overlapped \cup {p} ELSE overlapped
        /\ UNCHANGED <<product, upgradeLog, cache, cut>>
    BY DEF Find, At, Open, MayUpgrade
  <1>2. /\ request \in [Visits -> Records] /\ request[r] \in Records
        /\ product \in [Products -> Rows] /\ overlapped \subseteq Products
        /\ RequestIsSound(request[r])
    BY CatalogTypes DEF CatalogInvariant, RequestsAreSound
  <1>3. /\ request[r].op \in {"upgrade", "delete"} /\ p \in Products
        /\ request[r].wrote = NotWritten /\ request[r].logged = FALSE
    BY <1>1, <1>2 DEF RequestIsSound, Writes, Records
  <1>4. product[p] \in Rows /\ product[p].rank \in Ranks /\ product[p].rank \in Int
    BY <1>2, <1>3 DEF Rows, Ranks
  <1>5. PICK c \in Records :
          /\ RequestBecomes(r, c)
          /\ c.at = "write" /\ c.from = product[p].rank
          /\ c.op = request[r].op /\ c.of = p /\ c.to = request[r].to
          /\ c.tx = "open" /\ c.wrote = NotWritten /\ c.logged = FALSE
    <2> DEFINE d == [[request[r] EXCEPT !.at = "write"] EXCEPT !.from = product[p].rank]
    <2>1. d \in Records
      BY <1>2, <1>4 DEF Records, Places
    <2>2. /\ d.at = "write" /\ d.from = product[p].rank
          /\ d.op = request[r].op /\ d.of = p /\ d.to = request[r].to
          /\ d.tx = "open" /\ d.wrote = NotWritten /\ d.logged = FALSE
      BY <1>1, <1>2, <1>3 DEF Records
    <2>3. request' = [request EXCEPT ![r] = d]
      BY <1>1, <1>2 DEF Records
    <2> HIDE DEF d
    <2>4. RequestBecomes(r, d)
      BY <1>2, <2>1, <2>3 DEF RequestBecomes
    <2> QED BY <2>1, <2>2, <2>4
  <1>6. ~ Writes(c) /\ ~ Brings(c)
    BY <1>5 DEF Writes, Brings
  <1>7. RequestIsSound(c)
    BY <1>1, <1>3, <1>4, <1>5, <1>6 DEF RequestIsSound, Passed, Upgrades, Absent
  <1>8. GoesOn(r, c)
    <2>1. \A s \in Visits : Upgrades(request[s]) /\ request[s].of = p => Upgrading(s, p)
      BY DEF Upgrades, Passed, Upgrading, Open, CatalogInvariant, RequestsAreSound,
             RequestIsSound, Writes
    <2> QED BY <1>1, <1>2, <1>3, <1>5, <1>6, <2>1 DEF GoesOn, Upgrades
  <1> QED BY <1>1, <1>5, <1>6, <1>7, <1>8, CacheStays, GoingOnKeeps

(* A request moves on, not to a place where it changes or stores           *)
(* something, and leaves its row alone or has changed it before.           *)
LEMMA MovesOn ==
    ASSUME CatalogInvariant, NEW r \in Visits, NEW place \in {"answer", "fetch"},
           request' = [request EXCEPT ![r].at = place],
           \/ request[r].at \in {"find", "get", "store"}
           \/ request[r].at = "invalidate" /\ place = "answer",
           UNCHANGED <<product, upgradeLog, overlapped, cut>>, cache' \in Caches,
           cache'.cached /\ cache'.clean =>
               /\ request[r].at # "invalidate"
               /\ cache'.list = Listed
               /\ cache' = cache \/ \A s \in Visits : ~ Writes(request[s])
    PROVE  CatalogInvariant'
  <1>1. /\ CatalogTypeOK /\ overlapped \subseteq Products /\ place \in Places
        /\ request[r] \in Records /\ RequestIsSound(request[r])
    BY CatalogTypes DEF CatalogInvariant, RequestsAreSound, Places
  <1>2. PICK c \in Records : RequestBecomes(r, c) /\ Moved(c, request[r], place)
    BY <1>1, MoveFrame
  <1>3. /\ ~ Brings(c) /\ (Writes(c) <=> Writes(request[r])) /\ (Upgrades(c) => Upgrades(request[r]))
        /\ Writes(c) => request[r].at = "invalidate"
    BY <1>1, <1>2 DEF Moved, Brings, Writes, Upgrades, Passed, RequestIsSound
  <1>4. RequestIsSound(c)
    BY <1>1, <1>2 DEF RequestIsSound, Moved, Writes, Upgrades, Passed
  <1>5. GoesOn(r, c)
    BY <1>1, <1>2, <1>3 DEF GoesOn, Moved
  <1> QED BY <1>2, <1>3, <1>4, <1>5, GoingOnKeeps

LEMMA MovesKeep ==
    ASSUME CatalogInvariant, NEW r \in Visits,
           Refuse(r) \/ Invalidate(r) \/ ListGet(r) \/ Store(r)
    PROVE  CatalogInvariant'
  <1>1. UNCHANGED <<product, upgradeLog, overlapped, cut>>
    BY DEF Refuse, Invalidate, ListGet, Store
  <1>2. /\ cache \in Caches /\ (cache.cached /\ cache.clean => cache.list = Listed)
        /\ request[r] \in Records
    BY CacheStays, CatalogTypes DEF CatalogInvariant
  <1>3. CASE Refuse(r)
    BY <1>1, <1>2, <1>3, MovesOn DEF Refuse, At
  <1>4. CASE Invalidate(r)
    <2>1. NoList \in Caches /\ ~ NoList.cached
      BY DEF NoList, Caches
    <2>2. [cache EXCEPT !.clean = FALSE] \in Caches /\ ~ [cache EXCEPT !.clean = FALSE].clean
      BY <1>2 DEF Caches
    <2>3. cache' \in Caches /\ ~ (cache'.cached /\ cache'.clean)
      BY <1>4, <2>1, <2>2 DEF Invalidate
    <2> QED BY <1>1, <1>4, <2>3, MovesOn DEF Invalidate, At
  <1>5. CASE ListGet(r)
    BY <1>1, <1>2, <1>5, MovesOn DEF ListGet, At
  <1>6. CASE Store(r)
    <2>1. request[r].at = "store" /\ request' = [request EXCEPT ![r].at = "answer"]
      BY <1>6 DEF Store, At
    <2>2. CASE cache' = cache
      BY <1>1, <1>2, <2>1, <2>2, MovesOn
    <2>3. CASE cache' = Filled(r)
      <3>1. Filled(r) \in Caches /\ Filled(r).list = request[r].seen
        BY <1>2 DEF Filled, Caches, Records
      <3>2. Filled(r).clean => Brings(request[r])
        BY <2>1 DEF Filled, Brings
      <3>3. Brings(request[r]) =>
              request[r].seen = Listed /\ \A s \in Visits : ~ Writes(request[s])
        BY DEF CatalogInvariant, ListsAreFresh
      <3> QED BY <1>1, <2>1, <2>3, <3>1, <3>2, <3>3, MovesOn
    <2> QED BY <1>6, <2>2, <2>3 DEF Store
  <1> QED BY <1>3, <1>4, <1>5, <1>6

LEMMA LogKeeps ==
    ASSUME CatalogInvariant, NEW r \in Visits, InsertLog(r) PROVE CatalogInvariant'
  <1>1. /\ request[r].at = "log" /\ request[r].tx = "open"
        /\ request' = [request EXCEPT ![r].logged = TRUE, ![r].at = "invalidate"]
        /\ UNCHANGED <<product, upgradeLog, cache, overlapped, cut>>
    BY DEF InsertLog, At, Open
  <1>2. /\ request \in [Visits -> Records] /\ request[r] \in Records
        /\ overlapped \subseteq Products /\ RequestIsSound(request[r])
    BY CatalogTypes DEF CatalogInvariant, RequestsAreSound
  <1> DEFINE d == [[request[r] EXCEPT !.logged = TRUE] EXCEPT !.at = "invalidate"]
  <1>3. d \in Records
    BY <1>2 DEF Records, Places
  <1>4. /\ d.at = "invalidate" /\ d.logged = TRUE
        /\ d.op = request[r].op /\ d.of = request[r].of /\ d.from = request[r].from
        /\ d.to = request[r].to /\ d.tx = request[r].tx /\ d.wrote = request[r].wrote
    BY <1>2 DEF Records
  <1>5. request' = [request EXCEPT ![r] = d]
    BY <1>1, <1>2 DEF Records
  <1> HIDE DEF d
  <1>6. RequestBecomes(r, d)
    BY <1>2, <1>3, <1>5 DEF RequestBecomes
  <1>7. /\ ~ Brings(d) /\ (Writes(d) <=> Writes(request[r])) /\ (Upgrades(d) <=> Upgrades(request[r]))
    BY <1>1, <1>2, <1>4 DEF Brings, Writes, Upgrades, Passed, RequestIsSound
  <1>8. RequestIsSound(d)
    BY <1>1, <1>2, <1>4 DEF RequestIsSound, Writes, Upgrades, Passed
  <1>9. GoesOn(r, d)
    BY <1>1, <1>2, <1>4, <1>7 DEF GoesOn
  <1> QED BY <1>1, <1>3, <1>4, <1>6, <1>8, <1>9, CacheStays, GoingOnKeeps

LEMMA FetchKeeps ==
    ASSUME CatalogInvariant, NEW r \in Visits, Fetch(r) PROVE CatalogInvariant'
  <1> DEFINE quiet == \A s \in Visits : ~ (Open(s) /\ Wrote(s))
  <1>1. /\ request[r].at = "fetch" /\ request[r].tx = "open"
        /\ request' = [request EXCEPT ![r].at = "store", ![r].seen = Listed, ![r].clean = quiet]
        /\ UNCHANGED <<product, upgradeLog, cache, overlapped, cut>>
    BY DEF Fetch, At, Open
  <1>2. /\ request \in [Visits -> Records] /\ request[r] \in Records
        /\ product \in [Products -> Rows] /\ overlapped \subseteq Products
        /\ RequestIsSound(request[r])
    BY CatalogTypes DEF CatalogInvariant, RequestsAreSound
  <1>3. Listed \in SUBSET (Products \X Ranks) /\ quiet \in BOOLEAN
    BY <1>2 DEF Listed, Rows
  <1> DEFINE d == [[[request[r] EXCEPT !.at = "store"] EXCEPT !.seen = Listed]
                   EXCEPT !.clean = quiet]
  <1> HIDE DEF quiet
  <1>4. d \in Records
    BY <1>2, <1>3 DEF Records, Places
  <1>5. /\ d.at = "store" /\ d.seen = Listed /\ d.clean = quiet
        /\ d.op = request[r].op /\ d.of = request[r].of /\ d.from = request[r].from
        /\ d.to = request[r].to /\ d.tx = request[r].tx /\ d.wrote = request[r].wrote
        /\ d.logged = request[r].logged
    BY <1>2 DEF Records
  <1>6. request' = [request EXCEPT ![r] = d]
    BY <1>1, <1>2 DEF Records
  <1> HIDE DEF d
  <1>7. RequestBecomes(r, d)
    BY <1>2, <1>4, <1>6 DEF RequestBecomes
  <1>8. ~ Writes(d) /\ ~ Upgrades(d)
    BY <1>1, <1>2, <1>5 DEF Writes, Upgrades, Passed, RequestIsSound
  <1>9. RequestIsSound(d)
    BY <1>1, <1>2, <1>5 DEF RequestIsSound, Writes, Upgrades, Passed
  <1>10. quiet => \A s \in Visits : ~ Writes(request[s])
    BY DEF quiet, Writes, Open, Wrote
  <1>11. GoesOn(r, d)
    BY <1>1, <1>2, <1>5, <1>8, <1>10 DEF GoesOn, Brings
  <1> QED BY <1>1, <1>4, <1>5, <1>7, <1>8, <1>9, <1>11, CacheStays, GoingOnKeeps

(* The transaction is over, or the request.                                *)
LEMMA OverKeeps ==
    ASSUME CatalogInvariant, NEW r \in Visits, RollBack(r) \/ Throw(r) \/ Die(r)
    PROVE  CatalogInvariant'
  <1>1. UNCHANGED <<product, upgradeLog, cache, overlapped, cut>>
    BY DEF RollBack, Throw, Die
  <1>2. /\ request \in [Visits -> Records] /\ request[r] \in Records /\ CatalogTypeOK
        /\ overlapped \subseteq Products /\ RequestIsSound(request[r])
    BY CatalogTypes DEF CatalogInvariant, RequestsAreSound
  <1>3. ASSUME NEW c \in Records, RequestBecomes(r, c), c.tx = "over",
               \/ c.op = "none" /\ c.at = "done"
               \/ /\ c.op = request[r].op /\ c.of = request[r].of /\ c.at = request[r].at
                  /\ c.seen = request[r].seen /\ c.clean = request[r].clean
        PROVE  CatalogInvariant'
    <2>1. ~ Writes(c) /\ ~ Upgrades(c) /\ ~ Passed(c)
      BY <1>3 DEF Writes, Upgrades, Passed
    <2>2. RequestIsSound(c)
      BY <1>2, <1>3, <2>1 DEF RequestIsSound
    <2>3. GoesOn(r, c)
      BY <1>1, <1>2, <1>3, <2>1 DEF GoesOn, Brings
    <2> QED BY <1>1, <1>3, <2>1, <2>2, <2>3, CacheStays, GoingOnKeeps
  <1>4. CASE request' = [request EXCEPT ![r] = Done]
    BY <1>2, <1>3, <1>4, BlankFrame
  <1>5. CASE RollBack(r)
    <2> DEFINE d == [[[request[r] EXCEPT !.tx = "over"] EXCEPT !.wrote = NotWritten]
                     EXCEPT !.logged = FALSE]
    <2>1. NotWritten \in Changes
      BY DEF NotWritten, Changes, Ranks
    <2>2. d \in Records
      BY <1>2, <2>1 DEF Records
    <2>3. /\ d.tx = "over" /\ d.op = request[r].op /\ d.of = request[r].of
          /\ d.at = request[r].at /\ d.seen = request[r].seen /\ d.clean = request[r].clean
      BY <1>2 DEF Records
    <2>4. request' = [request EXCEPT ![r] = d]
      BY <1>2, <1>5 DEF Records, RollBack
    <2> HIDE DEF d
    <2>5. RequestBecomes(r, d)
      BY <1>2, <2>2, <2>4 DEF RequestBecomes
    <2> QED BY <1>3, <2>2, <2>3, <2>5
  <1> QED BY <1>4, <1>5 DEF RollBack, Throw, Die

(* What the row becomes: never absent, and its category is the one of an   *)
(* upgrade or the one it had.                                              *)
LEMMA UpdatedRow ==
    ASSUME CatalogInvariant, NEW r \in Visits, Passed(request[r])
    PROVE  LET made == Updated(r, request[r].of)
           IN  /\ made \in Changes /\ made.state # "not written"
               /\ made.rank = IF request[r].op = "upgrade" THEN request[r].to
                             ELSE product[request[r].of].rank
  <1> DEFINE p == request[r].of
  <1>1. /\ product \in [Products -> Rows] /\ request[r] \in Records
        /\ RequestIsSound(request[r]) /\ p \in Products
        /\ request[r].op \in {"create", "upgrade", "delete"}
    BY CatalogTypes DEF CatalogInvariant, RequestsAreSound, RequestIsSound
  <1>2. product[p] \in Rows /\ request[r].to \in Ranks /\ 0 \in Ranks
    BY <1>1 DEF Records, Ranks
  <1>3. CASE request[r].op = "create"
    <2>1. Updated(r, p) = New
      BY <1>3 DEF Updated
    <2>2. product[p] = Absent
      BY <1>1, <1>3 DEF RequestIsSound
    <2>3. product[p].rank = 0
      BY <2>2 DEF Absent
    <2>4. New \in Changes /\ New.state = "live" /\ New.rank = 0
      BY <1>2 DEF New, Changes
    <2> QED BY <1>3, <2>1, <2>3, <2>4
  <1>4. CASE request[r].op = "upgrade"
    <2>1. Updated(r, p) = [product[p] EXCEPT !.rank = request[r].to]
      BY <1>4 DEF Updated
    <2>2. product[p].state \in {"live", "deleted"}
      BY <1>1, <1>2, <1>4 DEF RequestIsSound, Rows
    <2> QED BY <1>2, <1>4, <2>1, <2>2 DEF Rows, Changes
  <1>5. CASE request[r].op = "delete"
    <2>1. Updated(r, p) = [product[p] EXCEPT !.state = "deleted"]
      BY <1>5 DEF Updated
    <2> QED BY <1>2, <1>5, <2>1 DEF Rows, Changes
  <1> QED BY <1>1, <1>3, <1>4, <1>5

(* The same request, its list no longer clean.                             *)
Dulled(c, d) ==
    /\ c.clean = FALSE
    /\ c.at = d.at /\ c.op = d.op /\ c.of = d.of /\ c.from = d.from /\ c.to = d.to
    /\ c.tx = d.tx /\ c.wrote = d.wrote /\ c.logged = d.logged /\ c.seen = d.seen

LEMMA WriteKeeps ==
    ASSUME CatalogInvariant, NEW r \in Visits, WriteRow(r) PROVE CatalogInvariant'
  <1> DEFINE p == request[r].of
             made == Updated(r, p)
             next == IF request[r].op = "upgrade" THEN "log" ELSE "invalidate"
             c == request'[r]
  <1>1. /\ request[r].at = "write" /\ request[r].tx = "open"
        /\ Unlocked(p)
        /\ request' = [s \in Visits |->
             IF s = r THEN [request[r] EXCEPT !.wrote = made, !.at = next]
             ELSE [request[s] EXCEPT !.clean = FALSE]]
        /\ UNCHANGED <<product, upgradeLog, cache, overlapped, cut>>
    BY DEF WriteRow, At, Open
  <1>2. /\ request \in [Visits -> Records] /\ request[r] \in Records
        /\ RequestIsSound(request[r])
        /\ Passed(request[r]) /\ ~ Writes(request[r]) /\ request[r].logged = FALSE
        /\ request[r].wrote = NotWritten
    <2>1. request \in [Visits -> Records] /\ RequestIsSound(request[r])
      BY CatalogTypes DEF CatalogInvariant, RequestsAreSound
    <2> QED BY <1>1, <2>1 DEF RequestIsSound, Passed, Writes, Records
  <1>3. /\ made \in Changes /\ made # NotWritten /\ made.state # "not written"
        /\ made.rank = IF request[r].op = "upgrade" THEN request[r].to ELSE product[p].rank
    <2>1. NotWritten.state = "not written"
      BY DEF NotWritten
    <2> QED BY <1>2, <2>1, UpdatedRow
  <1>4. next \in Places
    BY DEF Places
  <1>5. /\ c \in Records /\ c.wrote = made /\ c.at = next /\ c.tx = "open"
        /\ c.op = request[r].op /\ c.of = p /\ c.from = request[r].from
        /\ c.to = request[r].to /\ c.logged = FALSE /\ c.clean = request[r].clean
    <2> HIDE DEF made, next, p
    <2>1. c = [request[r] EXCEPT !.wrote = made, !.at = next]
      BY <1>1
    <2> QED BY <1>1, <1>2, <1>3, <1>4, <2>1 DEF Records, p
  <1>6. \A s \in Visits \ {r} : request'[s] \in Records /\ Dulled(request'[s], request[s])
    <2> SUFFICES ASSUME NEW s \in Visits \ {r}
                 PROVE  request'[s] \in Records /\ Dulled(request'[s], request[s])
      OBVIOUS
    <2>1. request'[s] = [request[s] EXCEPT !.clean = FALSE] /\ request[s] \in Records
      BY <1>1, <1>2
    <2> QED BY <2>1 DEF Records, Dulled
  <1>7. /\ \A s \in Visits : Upgrades(request'[s]) <=> Upgrades(request[s])
        /\ \A s \in Visits \ {r} : Writes(request'[s]) <=> Writes(request[s])
        /\ Writes(request'[r]) /\ Passed(request'[r])
        /\ \A s \in Visits : ~ Brings(request'[s])
    <2>1. Writes(c) /\ Passed(c) /\ ~ Brings(c) /\ (Upgrades(c) <=> Upgrades(request[r]))
      <3> HIDE DEF made, next, c
      <3>1. next # "store"
        BY DEF next
      <3> QED BY <1>2, <1>3, <1>5, <3>1 DEF Upgrades, Passed, Writes, Brings
    <2>2. ASSUME NEW s \in Visits \ {r}
          PROVE  /\ Writes(request'[s]) <=> Writes(request[s])
                 /\ Upgrades(request'[s]) <=> Upgrades(request[s])
                 /\ ~ Brings(request'[s])
      BY <1>6 DEF Upgrades, Passed, Writes, Brings, Dulled
    <2> QED BY <2>1, <2>2
  <1>8. CatalogTypeOK'
    <2>1. request' \in [Visits -> Records]
      BY <1>1, <1>5, <1>6
    <2> QED BY <1>1, <2>1 DEF CatalogInvariant, CatalogTypeOK, Rows, Upgrade, Records, Places,
        Changes, Caches
  <1>9. RequestsAreSound'
    <2> SUFFICES ASSUME NEW s \in Visits PROVE RequestIsSound(request[s])'
      BY DEF RequestsAreSound
    <2>1. RequestIsSound(request[s])
      BY DEF CatalogInvariant, RequestsAreSound
    <2>2. RequestIsSound(request'[s])
      <3>1. CASE s = r
        BY <1>2, <1>3, <1>5, <1>7, <3>1 DEF RequestIsSound, Passed, Upgrades
      <3>2. CASE s # r
        BY <1>6, <2>1, <3>2 DEF RequestIsSound, Dulled, Passed, Upgrades, Writes
      <3> QED BY <3>1, <3>2
    <2>3. product' = product
      BY <1>1
    <2> HIDE DEF c, p, made, next
    <2> QED BY <2>2, <2>3 DEF RequestIsSound, Passed, Writes, Upgrades
  <1>10. LocksExclude'
    BY <1>1, <1>5, <1>6, <1>7
    DEF CatalogInvariant, LocksExclude, Unlocked, Open, Wrote, Writes, Dulled
  <1>11. CreatesExclude'
    BY <1>5, <1>6 DEF CatalogInvariant, CreatesExclude, Dulled
  <1>12. OverlapsAreNoted'
    <2>1. \A s \in Visits : request'[s].of = request[s].of
      BY <1>5, <1>6 DEF Dulled
    <2>2. overlapped' = overlapped
      BY <1>1
    <2> HIDE DEF c
    <2> QED BY <1>7, <2>1, <2>2 DEF CatalogInvariant, OverlapsAreNoted
  <1>13. ReadsHold'
    BY <1>1, <1>5, <1>6, <1>7 DEF CatalogInvariant, ReadsHold, Dulled
  <1>14. UpgradesAreLogged' /\ CleanListIsFresh'
    BY <1>1 DEF CatalogInvariant, UpgradesAreLogged, CleanListIsFresh, Listed
  <1>15. ListsAreFresh'
    BY <1>7 DEF ListsAreFresh
  <1>16. ChangesInvalidate'
    BY <1>1, <1>5, <1>6, <1>7 DEF CatalogInvariant, ChangesInvalidate, Dulled
  <1> QED BY <1>8, <1>9, <1>10, <1>11, <1>12, <1>13, <1>14, <1>15, <1>16
         DEF CatalogInvariant

-----------------------------------------------------------------------------
Rises(log) == \A i \in 1 .. Len(log) : log[i].from < log[i].to
Connects(log) == \A i \in 1 .. Len(log) - 1 : log[i + 1].from = log[i].to

(* The history of an upgrade that is committed: it ends with the category  *)
(* that is written, rises, and goes on from where it ended.                *)
LEMMA HistoryGrows ==
    ASSUME CatalogInvariant, NEW r \in Visits, Writes(request[r]), request[r].at # "log",
           request[r].op = "upgrade", request[r].of \notin cut,
           NEW log, log = Append(upgradeLog[request[r].of],
                             [from |-> request[r].from, to |-> request[r].to])
    PROVE  /\ log # <<>> /\ log[Len(log)].to = request[r].to
           /\ Rises(log) /\ (request[r].of \notin overlapped => Connects(log))
  <1> DEFINE p == request[r].of
             old == upgradeLog[p]
             entry == [from |-> request[r].from, to |-> request[r].to]
  <1>1. /\ request[r] \in Records /\ upgradeLog \in [Products -> Seq(Upgrade)]
        /\ p \in Products /\ Upgrades(request[r]) /\ request[r].from < request[r].to
    BY CatalogTypes
    DEF CatalogInvariant, RequestsAreSound, RequestIsSound, Writes, Upgrades, Passed
  <1>2. old \in Seq(Upgrade) /\ entry \in Upgrade
    BY <1>1 DEF Upgrade, Records
  <1>3. /\ product[p].rank = IF old = <<>> THEN 0 ELSE old[Len(old)].to
        /\ \A i \in 1 .. Len(old) : old[i].from < old[i].to
        /\ p \notin overlapped => \A i \in 1 .. Len(old) - 1 : old[i + 1].from = old[i].to
    BY <1>1 DEF CatalogInvariant, UpgradesAreLogged
  <1>4. p \notin overlapped => entry.from = product[p].rank
    BY <1>1 DEF CatalogInvariant, ReadsHold
  <1>5. entry.from < entry.to /\ entry.to = request[r].to
    BY <1>1
  <1> HIDE DEF old, entry
  <1>6. /\ log \in Seq(Upgrade) /\ log # <<>> /\ Len(log) = Len(old) + 1 /\ Len(old) \in Nat
        /\ log[Len(old) + 1] = entry
        /\ \A i \in 1 .. Len(old) : log[i] = old[i]
    BY <1>2, AppendProperties DEF old, entry
  <1>7. \A i \in 1 .. Len(log) : log[i].from < log[i].to
    BY <1>3, <1>5, <1>6
  <1>8. ASSUME p \notin overlapped, NEW i \in 1 .. Len(log) - 1
        PROVE  log[i + 1].from = log[i].to
    <2>1. CASE i = Len(old)
      <3>1. old # <<>> /\ log[i] = old[Len(old)] /\ log[i + 1] = entry
        BY <1>2, <1>6, <2>1
      <3> QED BY <1>3, <1>4, <1>8, <3>1
    <2>2. CASE i # Len(old)
      <3>1. /\ i \in 1 .. Len(old) - 1 /\ i \in 1 .. Len(old) /\ i + 1 \in 1 .. Len(old)
        BY <1>6, <2>2
      <3>2. log[i] = old[i] /\ log[i + 1] = old[i + 1]
        BY <1>6, <3>1
      <3> QED BY <1>3, <1>8, <3>1, <3>2
    <2> QED BY <2>1, <2>2
  <1> QED BY <1>5, <1>6, <1>7, <1>8 DEF Rises, Connects

(* The transaction of r is over and has committed what it did; the request *)
(* has ended, or goes on.                                                  *)
Committed(r, c) ==
    /\ Open(r) /\ Apply(r) /\ RequestBecomes(r, c)
    /\ c.tx = "over"
    /\ \/ c.op = "none" /\ c.at = "done"
       \/ /\ c.op = request[r].op /\ c.of = request[r].of /\ c.at = request[r].at
          /\ c.seen = request[r].seen /\ c.clean = request[r].clean
    /\ cut' = IF request[r].at = "log" THEN cut \cup {request[r].of} ELSE cut
    /\ overlapped' = overlapped
    /\ cache' \in Caches
    /\ Writes(request[r]) => ~ (cache'.cached /\ cache'.clean)
    /\ ~ Writes(request[r]) => cache' = cache

LEMMA CommitKeeps ==
    ASSUME CatalogInvariant, NEW r \in Visits, NEW c \in Records, Committed(r, c)
    PROVE  CatalogInvariant'
  <1> DEFINE p == request[r].of
             made == request[r].wrote
  <1>1. /\ request \in [Visits -> Records] /\ request[r] \in Records
        /\ product \in [Products -> Rows] /\ upgradeLog \in [Products -> Seq(Upgrade)]
        /\ overlapped \subseteq Products /\ cut \subseteq Products
        /\ RequestIsSound(request[r]) /\ request[r].tx = "open"
    BY CatalogTypes DEF CatalogInvariant, RequestsAreSound, Committed, Open
  <1>2. ~ Writes(c) /\ ~ Upgrades(c) /\ ~ Passed(c)
    BY DEF Committed, Writes, Upgrades, Passed
  <1>3. RequestIsSound(c)
    BY <1>1, <1>2 DEF RequestIsSound, Committed
  <1>4. GoesOn(r, c)
    BY <1>1, <1>2 DEF GoesOn, Brings, Committed
  <1>5. CASE ~ Writes(request[r])
    <2>1. ~ Wrote(r) /\ ~ request[r].logged /\ request[r].at # "log"
      BY <1>1, <1>5 DEF Writes, Wrote, RequestIsSound
    <2>2. UNCHANGED <<product, upgradeLog, cut, cache>>
      BY <1>5, <2>1 DEF Committed, Apply
    <2> QED BY <1>2, <1>3, <1>4, <2>2, CacheStays, GoingOnKeeps DEF Committed
  <1>6. CASE Writes(request[r])
    <2>1. /\ p \in Products /\ Passed(request[r]) /\ Wrote(r)
          /\ request[r].logged <=> request[r].op = "upgrade" /\ request[r].at # "log"
          /\ request[r].op # "upgrade" => request[r].at # "log"
          /\ made.rank = IF request[r].op = "upgrade" THEN request[r].to ELSE product[p].rank
      BY <1>1, <1>6 DEF RequestIsSound, Passed, Writes, Wrote
    <2>2. made \in Rows /\ made.state # "absent"
      <3>1. made \in Changes /\ made.state # "not written"
        BY <1>1, <1>6 DEF Records, RequestIsSound
      <3> QED BY <3>1 DEF Changes, Rows
    <2>3. /\ product' = [product EXCEPT ![p] = made]
          /\ upgradeLog' = IF request[r].logged
               THEN [upgradeLog EXCEPT ![p] =
                       Append(@, [from |-> request[r].from, to |-> request[r].to])]
               ELSE upgradeLog
          /\ ~ (cache'.cached /\ cache'.clean)
      BY <1>6, <2>1 DEF Committed, Apply
    <2> HIDE DEF made
    <2>4. /\ product' \in [Products -> Rows] /\ product'[p] = made
          /\ \A q \in Products \ {p} : product'[q] = product[q] /\ upgradeLog'[q] = upgradeLog[q]
      BY <1>1, <2>1, <2>2, <2>3
    <2>5. CatalogTypeOK'
      <3>1. [from |-> request[r].from, to |-> request[r].to] \in Upgrade
        BY <1>1 DEF Upgrade, Records
      <3>2. upgradeLog' \in [Products -> Seq(Upgrade)]
        <4>1. Append(upgradeLog[p], [from |-> request[r].from, to |-> request[r].to])
                \in Seq(Upgrade)
          BY <1>1, <2>1, <3>1, AppendProperties
        <4> QED BY <1>1, <2>1, <2>3, <4>1
      <3>3. cut' \subseteq Products /\ overlapped' \subseteq Products
        BY <1>1, <2>1 DEF Committed
      <3>4. request' \in [Visits -> Records] /\ cache' \in Caches
        BY DEF Committed, RequestBecomes
      <3> QED BY <2>4, <3>2, <3>3, <3>4
          DEF CatalogTypeOK, Rows, Upgrade, Records, Places, Changes, Caches
    <2>6. RequestsAreSound'
      <3> SUFFICES ASSUME NEW s \in Visits PROVE RequestIsSound(request[s])'
        BY DEF RequestsAreSound
      <3>1. CASE s = r
        <4>1. request'[s] = c
          BY <3>1 DEF Committed, RequestBecomes
        <4> QED BY <1>2, <1>3, <4>1 DEF RequestIsSound, Passed, Writes, Upgrades
      <3>2. CASE s # r
        <4> DEFINE d == request[s]
        <4>1. request'[s] = d /\ RequestIsSound(d)
          BY <3>2 DEF Committed, RequestBecomes, CatalogInvariant, RequestsAreSound
        <4>2. CASE d.of # p
          <5>1. Passed(d) => d.of \in Products /\ product'[d.of] = product[d.of]
            BY <2>4, <4>1, <4>2 DEF RequestIsSound
          <5>2. Writes(d) => Passed(d)
            BY DEF Writes, Passed
          <5> HIDE DEF d
          <5> QED BY <4>1, <5>1, <5>2 DEF RequestIsSound, Passed, Writes, Upgrades
        <4>3. CASE d.of = p
          <5>1. ~ Writes(d)
            BY <1>6, <3>2, <4>3 DEF CatalogInvariant, LocksExclude
          <5>2. ~ (Passed(d) /\ d.op = "create")
            <6>1. Passed(d) /\ d.op = "create" => product[p] = Absent
              BY <4>1, <4>3 DEF RequestIsSound
            <6>2. request[r].op # "create" => product[p].state # "absent"
              BY <1>1, <2>1 DEF RequestIsSound
            <6>3. ~ (request[r].op = "create" /\ d.op = "create")
              BY <3>2, <4>3 DEF CatalogInvariant, CreatesExclude
            <6> QED BY <6>1, <6>2, <6>3 DEF Absent
          <5> HIDE DEF d
          <5> QED BY <2>2, <2>4, <4>1, <4>3, <5>1, <5>2
              DEF RequestIsSound, Passed, Writes, Upgrades
        <4> QED BY <4>2, <4>3
      <3> QED BY <3>1, <3>2
    <2>7. ReadsHold'
      <3> SUFFICES ASSUME NEW s \in Visits, Upgrades(request'[s]),
                          request'[s].of \notin overlapped
                   PROVE  request'[s].from = product'[request'[s].of].rank
        BY DEF ReadsHold, Committed, Upgrades, Passed
      <3>1. s # r /\ request'[s] = request[s] /\ request[s].of \in Products
        BY <1>2 DEF Committed, RequestBecomes, CatalogInvariant, RequestsAreSound,
                    RequestIsSound, Upgrades
      <3>2. request[s].from = product[request[s].of].rank
        BY <3>1 DEF CatalogInvariant, ReadsHold
      <3>3. CASE request[s].of # p
        BY <2>4, <3>1, <3>2, <3>3
      <3>4. CASE request[s].of = p
        <4>1. request[r].op # "upgrade"
          BY <2>1, <3>1, <3>4 DEF CatalogInvariant, OverlapsAreNoted, Upgrades
        <4> QED BY <2>1, <2>4, <3>1, <3>2, <3>4, <4>1
      <3> QED BY <3>3, <3>4
    <2>8. UpgradesAreLogged'
      <3> SUFFICES ASSUME NEW q \in Products \ cut'
                   PROVE  LET log == upgradeLog'[q]
                          IN  /\ product'[q].rank = IF log = <<>> THEN 0 ELSE log[Len(log)].to
                              /\ \A i \in 1 .. Len(log) : log[i].from < log[i].to
                              /\ q \notin overlapped =>
                                   \A i \in 1 .. Len(log) - 1 : log[i + 1].from = log[i].to
        BY DEF UpgradesAreLogged, Committed
      <3>1. q \notin cut /\ (q = p => request[r].at # "log")
        BY DEF Committed
      <3>2. CASE upgradeLog'[q] = upgradeLog[q] /\ product'[q].rank = product[q].rank
        BY <3>1, <3>2 DEF CatalogInvariant, UpgradesAreLogged
      <3>3. CASE q = p /\ request[r].op = "upgrade"
        <4>1. upgradeLog'[p] = Append(upgradeLog[p],
                                 [from |-> request[r].from, to |-> request[r].to])
          BY <1>1, <2>1, <2>3, <3>1, <3>3
        <4> DEFINE log == upgradeLog'[p]
        <4>2. product'[q].rank = request[r].to
          BY <2>1, <2>4, <3>3
        <4> HIDE DEF log
        <4>3. /\ log # <<>> /\ log[Len(log)].to = request[r].to
              /\ Rises(log) /\ (p \notin overlapped => Connects(log))
          <5>1. request[r].of \notin cut /\ request[r].at # "log" /\ request[r].op = "upgrade"
            BY <3>1, <3>3
          <5>2. log = Append(upgradeLog[request[r].of],
                             [from |-> request[r].from, to |-> request[r].to])
            BY <4>1 DEF log
          <5> QED BY <1>6, <5>1, <5>2, HistoryGrows
        <4>4. log = upgradeLog'[q]
          BY <3>3 DEF log
        <4> QED BY <3>3, <4>2, <4>3, <4>4 DEF Rises, Connects
      <3>4. q = p /\ request[r].op # "upgrade" => upgradeLog'[q] = upgradeLog[q]
        BY <2>1, <2>3
      <3> QED BY <2>1, <2>4, <3>2, <3>3, <3>4
    <2>9. ListsAreFresh'
      <3>1. \A s \in Visits : ~ Brings(request[s])
        BY <1>6 DEF CatalogInvariant, ListsAreFresh
      <3>2. ~ Brings(c)
        BY <3>1 DEF Committed, Brings
      <3> QED BY <3>1, <3>2 DEF ListsAreFresh, Committed, RequestBecomes, Brings
    <2>10. ChangesInvalidate' /\ CleanListIsFresh'
      BY <2>3 DEF ChangesInvalidate, CleanListIsFresh
    <2> QED BY <1>4, <2>5, <2>6, <2>7, <2>8, <2>9, <2>10, ExclusionStays
        DEF CatalogInvariant, Committed
  <1> QED BY <1>5, <1>6

LEMMA CommitOnFinishKeeps ==
    ASSUME CatalogInvariant, NEW r \in Visits, CommitOnFinish(r) PROVE CatalogInvariant'
  <1>1. CatalogTypeOK /\ cache \in Caches
    BY CatalogTypes DEF CatalogInvariant
  <1>2. /\ request[r].at = "answer" /\ Open(r) /\ Apply(r)
        /\ request' = [request EXCEPT ![r] = Done] /\ UNCHANGED <<cache, overlapped, cut>>
    BY DEF CommitOnFinish, At
  <1>3. Writes(request[r]) => ~ (cache.cached /\ cache.clean)
    BY <1>2 DEF CatalogInvariant, ChangesInvalidate
  <1>4. /\ RequestBecomes(r, Done) /\ Done \in Records
        /\ Done.op = "none" /\ Done.tx = "over" /\ Done.at = "done"
    BY <1>1, <1>2, BlankFrame
  <1>5. Committed(r, Done)
    BY <1>1, <1>2, <1>3, <1>4 DEF Committed
  <1> QED BY <1>4, <1>5, CommitKeeps

LEMMA HangUpKeeps ==
    ASSUME CatalogInvariant, NEW r \in Visits, HangUp(r) PROVE CatalogInvariant'
  <1> DEFINE d == [request[r] EXCEPT !.tx = "over"]
  <1>1. /\ request \in [Visits -> Records] /\ request[r] \in Records /\ cache \in Caches
    BY CatalogTypes DEF CatalogInvariant
  <1>2. /\ Open(r) /\ Apply(r) /\ request' = [request EXCEPT ![r] = d]
        /\ cut' = IF request[r].at = "log" THEN cut \cup {request[r].of} ELSE cut
        /\ cache' = IF Wrote(r) THEN [cache EXCEPT !.clean = FALSE] ELSE cache
        /\ overlapped' = overlapped
    BY <1>1 DEF HangUp, At, Records
  <1>3. /\ d \in Records /\ d.tx = "over"
        /\ d.op = request[r].op /\ d.of = request[r].of /\ d.at = request[r].at
        /\ d.seen = request[r].seen /\ d.clean = request[r].clean
    BY <1>1 DEF Records
  <1> HIDE DEF d
  <1>4. RequestBecomes(r, d)
    BY <1>1, <1>2, <1>3 DEF RequestBecomes
  <1>5. Wrote(r) <=> Writes(request[r])
    BY <1>2 DEF Wrote, Writes, Open
  <1>6. /\ [cache EXCEPT !.clean = FALSE] \in Caches
        /\ ~ [cache EXCEPT !.clean = FALSE].clean
    BY <1>1 DEF Caches
  <1>7. Committed(r, d)
    BY <1>1, <1>2, <1>3, <1>4, <1>5, <1>6 DEF Committed
  <1> QED BY <1>3, <1>7, CommitKeeps

LEMMA ExpireKeeps ==
    ASSUME CatalogInvariant, Expire PROVE CatalogInvariant'
  <1>1. /\ cache' = NoList /\ ~ NoList.cached /\ NoList \in Caches
        /\ UNCHANGED <<product, upgradeLog, request, overlapped, cut>>
    BY DEF Expire, NoList, Caches
  <1>2. CatalogTypeOK'
    BY <1>1 DEF CatalogInvariant, CatalogTypeOK, Caches
  <1>3. RequestsAreSound'
    BY <1>1 DEF CatalogInvariant, RequestsAreSound, RequestIsSound, Passed, Writes, Upgrades
  <1>4. LocksExclude' /\ CreatesExclude' /\ OverlapsAreNoted' /\ ReadsHold'
    BY <1>1 DEF CatalogInvariant, LocksExclude, CreatesExclude, OverlapsAreNoted, ReadsHold
  <1>5. UpgradesAreLogged'
    BY <1>1 DEF CatalogInvariant, UpgradesAreLogged
  <1>6. ListsAreFresh' /\ ChangesInvalidate' /\ CleanListIsFresh'
    BY <1>1 DEF CatalogInvariant, ListsAreFresh, ChangesInvalidate, CleanListIsFresh, Listed
  <1> QED BY <1>2, <1>3, <1>4, <1>5, <1>6 DEF CatalogInvariant

LEMMA CatalogStaysAsItIs ==
    ASSUME CatalogInvariant, UNCHANGED catalogVars PROVE CatalogInvariant'
  <1>1. UNCHANGED <<product, upgradeLog, request, cache, overlapped, cut>>
    BY DEF catalogVars
  <1>2. CatalogTypeOK'
    BY <1>1 DEF CatalogInvariant, CatalogTypeOK
  <1>3. RequestsAreSound'
    BY <1>1 DEF CatalogInvariant, RequestsAreSound, RequestIsSound, Passed, Writes, Upgrades
  <1>4. LocksExclude' /\ CreatesExclude' /\ OverlapsAreNoted' /\ ReadsHold'
    BY <1>1 DEF CatalogInvariant, LocksExclude, CreatesExclude, OverlapsAreNoted, ReadsHold
  <1>5. UpgradesAreLogged'
    BY <1>1 DEF CatalogInvariant, UpgradesAreLogged
  <1>6. ListsAreFresh' /\ ChangesInvalidate' /\ CleanListIsFresh'
    BY <1>1 DEF CatalogInvariant, ListsAreFresh, ChangesInvalidate, CleanListIsFresh, Listed
  <1> QED BY <1>2, <1>3, <1>4, <1>5, <1>6 DEF CatalogInvariant

LEMMA CatalogStarts ==
    ASSUME CatalogInit PROVE CatalogInvariant
  <1>1. NotWritten \in Changes /\ 0 \in Ranks /\ Absent \in Rows /\ New \in Rows
    BY DEF NotWritten, Changes, Ranks, Absent, New, Rows
  <1>2. /\ NotStarted \in Records /\ NotStarted.op = "none" /\ NotStarted.at = "start"
        /\ NotStarted.tx = "none"
    BY <1>1 DEF NotStarted, Blank, Records, Places
  <1>3. NoList \in Caches /\ ~ NoList.cached
    BY DEF NoList, Caches
  <1>4. <<>> \in Seq(Upgrade) /\ Len(<<>>) = 0
    OBVIOUS
  <1>5. CatalogTypeOK
    BY <1>1, <1>2, <1>3, <1>4, CatalogTypes DEF CatalogInit
  <1>6. \A r \in Visits : request[r] = NotStarted
    BY DEF CatalogInit
  <1>7. ~ Passed(NotStarted) /\ ~ Writes(NotStarted) /\ ~ Upgrades(NotStarted) /\ ~ Brings(NotStarted)
    BY <1>2 DEF Passed, Writes, Upgrades, Brings
  <1>8. RequestsAreSound
    BY <1>2, <1>6, <1>7 DEF RequestsAreSound, RequestIsSound
  <1>9. LocksExclude /\ CreatesExclude /\ OverlapsAreNoted /\ ReadsHold /\ ListsAreFresh
    BY <1>2, <1>6, <1>7
    DEF LocksExclude, CreatesExclude, OverlapsAreNoted, ReadsHold, ListsAreFresh
  <1>10. ChangesInvalidate /\ CleanListIsFresh
    BY <1>3 DEF CatalogInit, ChangesInvalidate, CleanListIsFresh
  <1>11. UpgradesAreLogged
    <2>1. \A p \in Products : upgradeLog[p] = <<>> /\ product[p].rank = 0
      BY DEF CatalogInit, Absent, New
    <2> QED BY <1>4, <2>1 DEF UpgradesAreLogged
  <1> QED BY <1>5, <1>8, <1>9, <1>10, <1>11 DEF CatalogInvariant

LEMMA CatalogStep ==
    ASSUME CatalogInvariant, [CatalogNext]_catalogVars PROVE CatalogInvariant'
  <1>1. ASSUME NEW r \in Visits, Enter(r) PROVE CatalogInvariant'
    BY <1>1, BeginKeeps DEF Enter
  <1>2. ASSUME NEW r \in Visits, Advance(r) PROVE CatalogInvariant'
    BY <1>2, FindKeeps, WriteKeeps, LogKeeps, MovesKeep, FetchKeeps, CommitOnFinishKeeps,
       OverKeeps DEF Advance
  <1>3. ASSUME NEW r \in Visits, HangUp(r) PROVE CatalogInvariant'
    BY <1>3, HangUpKeeps
  <1>4. ASSUME NEW r \in Visits, RollBack(r) \/ Die(r) PROVE CatalogInvariant'
    BY <1>4, OverKeeps
  <1>5. CASE Expire
    BY <1>5, ExpireKeeps
  <1>6. CASE UNCHANGED catalogVars
    BY <1>6, CatalogStaysAsItIs
  <1> QED BY <1>1, <1>2, <1>3, <1>4, <1>5, <1>6 DEF CatalogNext

(* Whatever requests overlap, lose their connection, are rolled back or    *)
(* die, for any number of products, requests and categories: the category  *)
(* of a product is the one its last logged upgrade gave it, no upgrade     *)
(* lowers it, and a cached list that no write came across is what is       *)
(* committed.                                                              *)
THEOREM CatalogStaysCoherent == CatalogSpec => []CatalogIsCoherent
  <1>1. CatalogInvariant => CatalogIsCoherent
    BY DEF CatalogInvariant, CatalogIsCoherent
  <1> QED BY <1>1, CatalogStarts, CatalogStep, PTL DEF CatalogSpec
=============================================================================
