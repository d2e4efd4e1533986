--------------------------- MODULE CacheStampede ---------------------------
(***************************************************************************)
(* getOrSetCacheWithStampedeProtection of src/shared/cache for one key:    *)
(* of the requests that miss the cache at the same time one fetches the    *)
(* value under a distributed lock, and the others wait for it a while and  *)
(* then fetch it too.  The lock and the entry have the same time to live.  *)
(* A fetcher may fail, or never return.                                    *)
(***************************************************************************)
EXTENDS DistributedLock

CONSTANT MaxRetries  \* STAMPEDE_MAX_WAIT_RETRIES

VARIABLES
    entry,   \* what is left of the TTL of the cached value, 0 if there is none
    reader,  \* where each call is
    tries,   \* how often it has looked again
    began,   \* history: the calls that began to fetch under the lock in this round
    gaveUp,  \* history: in this round somebody fetches after a wait in vain
    blamed   \* history: something went wrong in this round

round == <<began, gaveUp, blamed>>
stampedeVars == <<lockVars, entry, reader, tries, round>>

StampedeTypeOK ==
    /\ LockTypeOK
    /\ entry \in 0 .. TTL
    /\ reader \in [Clients -> {"out", "missed", "check", "fetch", "free", "wait", "alone"}]
    /\ tries \in [Clients -> 0 .. MaxRetries]
    /\ began \subseteq Clients /\ gaveUp \in BOOLEAN /\ blamed \in BOOLEAN

StampedeInit ==
    /\ LockInit
    /\ entry = 0
    /\ reader = [r \in Clients |-> "out"]
    /\ tries = [r \in Clients |-> 0]
    /\ began = {} /\ gaveUp = FALSE /\ blamed = FALSE

Cached == entry > 0
Turns(r, step) == reader' = [reader EXCEPT ![r] = step]

(* tryReadCache: a value, or none, or an error of Redis, which is none.    *)
Read(r) ==
    /\ reader[r] = "out"
    /\ \/ ~ Cached /\ UNCHANGED blamed
       \/ Cached /\ blamed' = TRUE
    /\ Turns(r, "missed")
    /\ UNCHANGED <<lockVars, entry, tries, began, gaveUp>>

(* withLock                                                                *)
Lock(r) ==
    /\ reader[r] = "missed"
    /\ \/ Acquire(r) /\ Turns(r, "check") /\ UNCHANGED blamed
       \/ AcquireFailsOpen(r) /\ Turns(r, "check") /\ blamed' = TRUE
       \/ Refused(r) /\ Turns(r, "wait") /\ UNCHANGED <<lockVars, blamed>>
    /\ UNCHANGED <<entry, tries, began, gaveUp>>

(* getOrSetCache, under the lock: the cache is read once more ...          *)
Check(r) ==
    /\ reader[r] = "check"
    /\ \/ Cached /\ Finish(r) /\ Turns(r, "free") /\ UNCHANGED round
       \/ /\ Turns(r, "fetch") /\ began' = began \cup {r}
          /\ blamed' = (blamed \/ Cached)
          /\ UNCHANGED <<lockVars, gaveUp>>
    /\ UNCHANGED <<entry, tries>>

(* ... and the fetcher called; what it returns is stored, unless it throws *)
(* or Redis fails.                                                         *)
Fetched(r) ==
    /\ reader[r] = "fetch"
    /\ \/ entry' = TTL /\ UNCHANGED blamed
       \/ UNCHANGED entry /\ blamed' = TRUE
    /\ Finish(r) /\ Turns(r, "free")
    /\ UNCHANGED <<tries, began, gaveUp>>

Return(r) ==
    /\ reader[r] = "free"
    /\ Release(r) /\ Turns(r, "out")
    /\ UNCHANGED <<entry, tries, round>>

(* Every 100 ms: is the value there?  After the last try the call fetches  *)
(* it by itself, though another may be at it under the lock, and stores    *)
(* nothing.                                                                *)
LookAgain(r) ==
    /\ reader[r] = "wait"
    /\ \/ /\ Cached /\ Turns(r, "out") /\ tries' = [tries EXCEPT ![r] = 0]
          /\ UNCHANGED gaveUp
       \/ /\ tries[r] < MaxRetries
          /\ tries' = [tries EXCEPT ![r] = @ + 1]
          /\ IF tries[r] + 1 = MaxRetries
             THEN Turns(r, "alone") /\ gaveUp' = TRUE
             ELSE UNCHANGED <<reader, gaveUp>>
    /\ UNCHANGED <<lockVars, entry, began, blamed>>

FetchedAlone(r) ==
    /\ reader[r] = "alone"
    /\ Turns(r, "out") /\ tries' = [tries EXCEPT ![r] = 0]
    /\ UNCHANGED <<lockVars, entry, round>>

ReaderDies(r) ==
    /\ Crash(r)
    /\ Turns(r, "out")
    /\ blamed' = TRUE
    /\ UNCHANGED <<entry, tries, began, gaveUp>>

(* The entry goes: a new round begins, perhaps with fetches under way or   *)
(* calls that have got past the lock without it.                           *)
NewRound ==
    /\ began' = {r \in Clients : reader[r] = "fetch"}
    /\ gaveUp' = \E r \in Clients : reader[r] = "alone"
    /\ blamed' = \E r \in Clients :
         reader[r] = "fetch" \/ (reader[r] = "check" /\ client'[r].left = 0)

(* invalidateCache                                                         *)
Invalidate ==
    /\ Cached
    /\ UNCHANGED <<lockVars, reader, tries>>
    /\ entry' = 0 /\ NewRound

(* Time passes; somebody may still work when its lock has expired.         *)
EntryAges ==
    /\ Tick
    /\ entry' = Less(entry)
    /\ IF entry = 1 THEN NewRound
       ELSE /\ blamed' = (blamed \/ \E r \in Clients : client[r].left = 1)
            /\ UNCHANGED <<began, gaveUp>>
    /\ UNCHANGED <<reader, tries>>

StampedeNext ==
    \/ \E r \in Clients :
         \/ Read(r) \/ Lock(r) \/ Check(r) \/ Fetched(r) \/ Return(r)
         \/ LookAgain(r) \/ FetchedAlone(r) \/ ReaderDies(r)
    \/ Invalidate \/ EntryAges

StampedeSpec == StampedeInit /\ [][StampedeNext]_stampedeVars

-----------------------------------------------------------------------------
(* Of all the calls that miss the cache one fetches the value under the    *)
(* lock, and no other does until a wait for it has run out (cache-manager. *)
(* ts:23-30, 147-170), as long as no command and no fetcher fails, nobody  *)
(* dies and the work is done in the time of the lock.                      *)
Fetching == {r \in Clients : reader[r] \in {"fetch", "alone"}}
OneFetchesForAll ==
    blamed \/ (Cardinality(began) <= 1 /\ (gaveUp \/ Fetching \subseteq began))

=============================================================================
