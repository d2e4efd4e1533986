----------------------------- MODULE AuditChain -----------------------------
(***************************************************************************)
(* The audit trail: AuditRepository.create, which appends a row to a chain *)
(* of hashes inside one transaction, and verifyChainIntegrity, which walks *)
(* the chain.                                                              *)
(*                                                                         *)
(* SHA-256 is taken to have no collisions: the hash of an entry after a    *)
(* previous hash is the sequence of all entries up to it, and the null of  *)
(* the genesis row is the empty sequence (computeHash hashes null as '').  *)
(* PostgreSQL runs the transactions at READ COMMITTED: what they insert    *)
(* is seen from the commit on, and a row lock is held until then.          *)
(***************************************************************************)
EXTENDS Integers, Sequences, FiniteSets

CONSTANTS Txs,        \* the calls of create; the entry of each is itself
          Changed,    \* what a row says after it has been altered
          Nobody,     \* the holder of a free lock
          Damages     \* the damage the table may suffer: "alter", "lose"

ASSUME EntriesAreDistinct ==
    Changed \notin Txs /\ Nobody \notin Txs

VARIABLES rows,       \* the committed rows of audit_logs
          state,      \* the last_hash of audit_chain_state, or NoHash
          lock,       \* who holds the lock of its row, or inserts it
          pc,         \* where each call of create stands
          prev,       \* the previousHash it has read
          damaged     \* history: the damage the table has suffered, or "race"
                      \* once two calls have found the chain without a state

vars == <<rows, state, lock, pc, prev, damaged>>

Entries == Txs \cup {Changed}
NoHash == <<>>

(* computeHash(canonicalize(entry), previousHash)                          *)
Hash(e, previous) == Append(previous, e)

Link(e, previous) == [entry |-> e, prev |-> previous, hash |-> Hash(e, previous)]

TypeOK ==
    /\ rows \subseteq [entry : Entries, prev : Seq(Entries), hash : Seq(Entries)]
    /\ state \in Seq(Entries)
    /\ lock \in Txs \cup {Nobody}
    /\ pc \in [Txs -> {"begin", "insert", "commit", "done"}]
    /\ prev \in [Txs -> Seq(Entries)]
    /\ damaged \in {"none", "race", "alter", "lose"}

(* The migration creates audit_chain_state without a row.                  *)
Init ==
    /\ rows = {} /\ state = NoHash /\ lock = Nobody
    /\ pc = [t \in Txs |-> "begin"]
    /\ prev = [t \in Txs |-> NoHash]
    /\ damaged = "none"

(* The transactions past their SELECT.                                     *)
Writers == {t \in Txs : pc[t] \in {"insert", "commit"}}

-----------------------------------------------------------------------------
NoteRace ==
    damaged' = IF state = NoHash /\ Writers # {} THEN "race" ELSE damaged

(* Mutant: the row is read without FOR UPDATE.                             *)
SelectUnlocked(t) ==
    /\ pc[t] = "begin"
    /\ prev' = [prev EXCEPT ![t] = state]
    /\ pc' = [pc EXCEPT ![t] = "insert"]
    /\ NoteRace
    /\ UNCHANGED <<rows, state, lock>>

(* SELECT ... FOR UPDATE waits for the row's lock and reads the row of     *)
(* this moment; it locks nothing when there is no row.                     *)
SelectForUpdate(t) ==
    /\ pc[t] = "begin"
    /\ IF state = NoHash THEN UNCHANGED lock
                         ELSE lock = Nobody /\ lock' = t
    /\ prev' = [prev EXCEPT ![t] = state]
    /\ pc' = [pc EXCEPT ![t] = "insert"]
    /\ NoteRace
    /\ UNCHANGED <<rows, state>>

(* The two inserts; the second one, ON CONFLICT (id) DO UPDATE, waits for  *)
(* whoever has locked the row or is inserting it.                          *)
Insert(t) ==
    /\ pc[t] = "insert"
    /\ lock \in {Nobody, t} /\ lock' = t
    /\ pc' = [pc EXCEPT ![t] = "commit"]
    /\ UNCHANGED <<rows, state, prev, damaged>>

Commit(t) ==
    /\ pc[t] = "commit"
    /\ rows' = rows \cup {Link(t, prev[t])}
    /\ state' = Hash(t, prev[t])
    /\ lock' = Nobody
    /\ pc' = [pc EXCEPT ![t] = "done"]
    /\ UNCHANGED <<prev, damaged>>

(* An error or a crash rolls the transaction back; AuditService logs it    *)
(* and goes on without the entry.                                          *)
Rollback(t) ==
    /\ t \in Writers
    /\ lock' = IF lock = t THEN Nobody ELSE lock
    /\ pc' = [pc EXCEPT ![t] = "done"]
    /\ UNCHANGED <<rows, state, prev, damaged>>

Write == \E t \in Txs :
    SelectForUpdate(t) \/ Insert(t) \/ Commit(t) \/ Rollback(t)

(* The damage verifyChainIntegrity is there for: past the trigger that     *)
(* forbids it, a row is altered or lost.                                   *)
Alter(r) ==
    /\ "alter" \in Damages /\ damaged = "none"
    /\ rows' = (rows \ {r}) \cup {[r EXCEPT !.entry = Changed]}
    /\ damaged' = "alter"
    /\ UNCHANGED <<state, lock, pc, prev>>

Lose(r) ==
    /\ "lose" \in Damages /\ damaged = "none"
    /\ rows' = rows \ {r}
    /\ damaged' = "lose"
    /\ UNCHANGED <<state, lock, pc, prev>>

Next == Write \/ \E r \in rows : Alter(r) \/ Lose(r)

Spec == Init /\ [][Next]_vars

-----------------------------------------------------------------------------
(* verifyChainIntegrity                                                    *)
Forked(rs) == \E r, s \in rs : r # s /\ r.prev = s.prev

(* The rows that continue the chain after the hash h.                      *)
After(rs, h) == {r \in rs : r.prev = h}

(* Mutant: what the row says is not compared with its hash.                *)
Hashed(r) == r.hash # NoHash

Sound(r) == r.hash = Hash(r.entry, r.prev)

(* The hash of the row the walk visits after the hash h, or NoHash when    *)
(* there is none or it is not sound.                                       *)
Visit(rs, h) ==
    LET next == {r \in After(rs, h) : Sound(r)}
    IN  IF next = {} THEN NoHash ELSE (CHOOSE r \in next : TRUE).hash

(* Walked(rs)[n] is the hash the walk stands at after n rows, each of them *)
(* sound, or NoHash when it has come to an end or to a broken row before.  *)
Walked(rs) ==
    LET walk[n \in 0..Cardinality(rs)] ==
            IF n = 0 \/ (n > 1 /\ walk[n - 1] = NoHash) THEN NoHash
            ELSE Visit(rs, walk[n - 1])
    IN  walk

Verify(rs) ==
    /\ ~ Forked(rs)
    /\ rs # {} => Walked(rs)[Cardinality(rs)] # NoHash

-----------------------------------------------------------------------------
(* The check tells an intact trail from a damaged one, in the middle of    *)
(* whatever writes are going on (docs/audit-log-immutability.md:17-20,     *)
(* 43-49; audit.repository.ts:80-84).  A trail no one has damaged passes,  *)
(* unless its first two entries raced; an altered row is found out for     *)
(* good, whatever is appended after it; a lost one once the chain goes on  *)
(* after it, and a row stands on a hash that has no row.                   *)
VerificationTells ==
    CASE damaged = "none" -> Verify(rows)
      [] damaged = "race" -> TRUE
      [] damaged = "alter" -> ~ Verify(rows)
      [] damaged = "lose" -> (\E r \in rows : r.hash = state) => ~ Verify(rows)

(* No two rows claim the same predecessor (audit.repository.ts:80-84).     *)
ChainIsLinear == damaged = "none" =>
    \A r, s \in rows : r.prev = s.prev => r = s

(* Every entry the chain's state stands for has a row of its own.          *)
ChainIsWhole == damaged = "none" =>
    \A k \in 1..Len(state) : \E r \in rows : r.hash = SubSeq(state, 1, k)

(* The inductive invariant: at most one call is past its SELECT; it has    *)
(* read the state that still stands and, once there is one, holds the lock *)
(* of its row.  Every row is a prefix of what that state stands for.       *)
WritersAreSerial ==
    /\ lock # Nobody => lock \in Writers
    /\ \A t \in Writers :
        /\ prev[t] = state
        /\ state # NoHash => lock = t
        /\ \A u \in Writers : u = t

RowsArePrefixes == \A r \in rows :
    /\ r = Link(r.entry, r.prev)
    /\ Len(r.hash) <= Len(state)
    /\ r.hash = SubSeq(state, 1, Len(r.hash))

ChainInvariant ==
    /\ TypeOK
    /\ damaged # "race" => WritersAreSerial
    /\ damaged = "none" => RowsArePrefixes /\ ChainIsWhole

(* The chain's state is an append-only log, as long as its first entries   *)
(* do not race.                                                            *)
Chained == IF damaged = "race" THEN NoHash ELSE state
Log == INSTANCE AppendOnlyLog WITH log <- Chained
ImplementsLog == Log!Spec
=============================================================================
