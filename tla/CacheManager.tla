---------------------------- MODULE CacheManager ----------------------------
(***************************************************************************)
(* src/shared/cache: the two helpers around the cache, which share nothing *)
(* but the file they are in.                                               *)
(***************************************************************************)
EXTENDS CacheTags, CacheStampede

(* The set of a tag does not expire before the entries it is there to find *)
(* (cache-manager.ts:58-61), and of the calls that miss an entry one       *)
(* fetches for all, as long as nothing fails and nobody tires of waiting   *)
(* for it (23-30, 147-170).                                                *)
CacheHelpersHold == SetOutlivesItsKeys /\ OneFetchesForAll
=============================================================================
