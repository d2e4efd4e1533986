----------------------------- MODULE CacheTags -----------------------------
(***************************************************************************)
(* getOrSetCacheWithTags and invalidateTag of src/shared/cache for one     *)
(* tag: entries of the cache, each with a time to live of its own, and the *)
(* set in Redis of the keys that belong to the tag, with another.  Redis   *)
(* may fail at each command, which is logged and otherwise ignored.  What  *)
(* the entries hold does not matter here.                                  *)
(***************************************************************************)
EXTENDS Naturals

CONSTANTS
    Calls,    \* the calls of getOrSetCacheWithTags there are at a time
    Writers,  \* the calls of invalidateTag
    Keys,     \* the keys that belong to the tag
    NoEntry,  \* the key of a call that is over
    Ttl,      \* ttlSeconds of each key
    Spare     \* the 60 seconds that the set lives longer

(* The code sets the life of the whole set when any key is added to it, so *)
(* its callers must give the keys of one tag lives that differ by no more  *)
(* than that; there are no callers yet.                                    *)
ASSUME TagOptions ==
    /\ Ttl \in [Keys -> Nat] /\ Spare \in Nat /\ NoEntry \notin Keys
    /\ \A j, k \in Keys : Ttl[j] <= Ttl[k] + Spare

VARIABLES
    ttlOf,    \* what is left of the TTL of each key, 0 if it is not cached
    members,  \* the set of the tag
    setTtl,   \* what is left of its TTL
    getter,   \* what each call of getOrSetCacheWithTags does, and its key
    writer,   \* what each call of invalidateTag does, and the keys it found
    known     \* history: cached keys registered since they were stored

setVars == <<members, setTtl>>
tagVars == <<ttlOf, setVars, getter, writer, known>>

Lives == UNION {0 .. Ttl[k] + Spare : k \in Keys}
NoGetter == [step |-> "out", key |-> NoEntry]
NoWriter == [step |-> "out", keys |-> {}]

TagsTypeOK ==
    /\ ttlOf \in [Keys -> Lives]
    /\ members \subseteq Keys /\ setTtl \in Lives
    /\ getter \in [Calls -> [step : {"out", "store", "register"},
                           key : Keys \cup {NoEntry}]]
    /\ writer \in [Writers -> [step : {"out", "find", "drop", "forget"}, keys : SUBSET Keys]]
    /\ known \subseteq Keys

TagsInit ==
    /\ ttlOf = [k \in Keys |-> 0]
    /\ members = {} /\ setTtl = 0
    /\ getter = [c \in Calls |-> NoGetter]
    /\ writer = [w \in Writers |-> NoWriter]
    /\ known = {}

Stored(k) == ttlOf[k] > 0

-----------------------------------------------------------------------------
(* getOrSetCache: a hit will be registered again; after a miss the value   *)
(* is fetched ...                                                          *)
Get(c, k) ==
    /\ getter[c].step = "out"
    /\ getter' = [getter EXCEPT ![c] =
                    [step |-> IF Stored(k) THEN "register" ELSE "store", key |-> k]]
    /\ UNCHANGED <<ttlOf, setVars, writer, known>>

(* ... and stored, unless that fails ...                                   *)
StoreValue(c) ==
    /\ getter[c].step = "store"
    /\ LET k == getter[c].key IN
       \/ ttlOf' = [ttlOf EXCEPT ![k] = Ttl[k]] /\ known' = known \ {k}
       \/ UNCHANGED <<ttlOf, known>>
    /\ getter' = [getter EXCEPT ![c].step = "register"]
    /\ UNCHANGED <<setVars, writer>>

(* Mutant: the set gets its time to live only once.                        *)
ExpireOnce(k) == IF setTtl > 0 THEN setTtl ELSE Ttl[k] + Spare

(* The EXPIRE of the set.                                                  *)
SetLives(k) == Ttl[k] + Spare

(* ... and the key is added to the set.                                    *)
RegisterKey(c) ==
    /\ getter[c].step = "register"
    /\ LET k == getter[c].key IN
       \/ /\ members' = members \cup {k} /\ setTtl' = SetLives(k)
          /\ known' = known \cup {j \in {k} : Stored(j)}
       \/ UNCHANGED <<setVars, known>>
    /\ getter' = [getter EXCEPT ![c] = NoGetter]
    /\ UNCHANGED <<ttlOf, writer>>

-----------------------------------------------------------------------------
Becomes(w, x) == writer' = [writer EXCEPT ![w] = x]

(* The data behind the entries has changed, and invalidateTag is called.   *)
InvalidateTag(w) ==
    /\ writer[w].step = "out"
    /\ Becomes(w, [step |-> "find", keys |-> {}])
    /\ UNCHANGED <<ttlOf, setVars, getter, known>>

(* SMEMBERS                                                                *)
FindKeys(w) ==
    /\ writer[w].step = "find"
    /\ Becomes(w, [step |-> "drop", keys |-> members])
    /\ UNCHANGED <<ttlOf, setVars, getter, known>>

(* DEL of the keys ...                                                     *)
DropKeys(w) ==
    /\ writer[w].step = "drop"
    /\ ttlOf' = [k \in Keys |-> IF k \in writer[w].keys THEN 0 ELSE ttlOf[k]]
    /\ known' = known \ writer[w].keys
    /\ Becomes(w, [step |-> "forget", keys |-> {}])
    /\ UNCHANGED <<setVars, getter>>

(* ... and then of the set.                                                *)
DropTag(w) ==
    /\ writer[w].step = "forget"
    /\ members' = {} /\ setTtl' = 0
    /\ Becomes(w, NoWriter)
    /\ UNCHANGED <<ttlOf, getter, known>>

(* A command of invalidateTag fails: the rest is left out.                 *)
GiveUp(w) ==
    /\ writer[w].step # "out"
    /\ Becomes(w, NoWriter)
    /\ UNCHANGED <<ttlOf, setVars, getter, known>>

Lower(n) == IF n > 0 THEN n - 1 ELSE 0

(* Time passes, and Redis drops what has expired.                          *)
TagsExpire ==
    /\ ttlOf' = [k \in Keys |-> Lower(ttlOf[k])]
    /\ setTtl' = Lower(setTtl)
    /\ members' = IF setTtl <= 1 THEN {} ELSE members
    /\ known' = {k \in known : ttlOf[k] > 1}
    /\ UNCHANGED <<getter, writer>>

TagsNext ==
    \/ \E c \in Calls : StoreValue(c) \/ RegisterKey(c) \/ \E k \in Keys : Get(c, k)
    \/ \E w \in Writers :
         InvalidateTag(w) \/ FindKeys(w) \/ DropKeys(w) \/ DropTag(w) \/ GiveUp(w)
    \/ TagsExpire

TagsSpec == TagsInit /\ [][TagsNext]_tagVars

-----------------------------------------------------------------------------
(* The set of a tag does not expire before the entries it is there to      *)
(* find, however often they are stored again (cache-manager.ts:58-61).     *)
SetOutlivesItsKeys == \A k \in known \cap members : ttlOf[k] <= setTtl

=============================================================================
