------------------------------ MODULE Callers ------------------------------
(***************************************************************************)
(* The callers that share one key of the breaker and of the bulkhead: the  *)
(* map entries of circuit-breaker.ts and bulkhead.ts are found by the key  *)
(* resilientCall is given, so all of them contend for the same two records.*)
(***************************************************************************)
CONSTANT Calls   \* concurrent callers of resilientCall with this key
=============================================================================
