------------------------------ MODULE MCLimits ------------------------------
(***************************************************************************)
(* Small instances of the modules that limit what clients may do, for TLC. *)
(* A behaviour is one of LoginAttempts, or of RequestGate: with its        *)
(* counters and one status of the tenant, or with changes of the status    *)
(* and counters that Redis refuses.  The rest stays as it is.              *)
(***************************************************************************)
EXTENDS LoginAttempts, RequestGate

VARIABLES part

limitsVars == <<vars, part, gateVars>>

LimitsInit ==
    /\ part \in {"attempts", "counting", "suspending"}
    /\ Init /\ GateInit

OnItsWay(k) == \E r \in Reqs : at'[r] # "idle" /\ kind'[r] = k

(* What the behaviours of a part leave out.                                *)
Counting == status' = status /\ ~ OnItsWay("keyed")
Suspending == hits' = hits /\ quota' = quota /\ ~ OnItsWay("plain")

LimitsNext ==
    /\ UNCHANGED part
    /\ \/ part = "attempts" /\ Next /\ UNCHANGED gateVars
       \/ part = "counting" /\ GateNext /\ Counting /\ UNCHANGED vars
       \/ part = "suspending" /\ GateNext /\ Suspending /\ UNCHANGED vars

(* The fairness of FairSpec of LoginAttempts and of FairGateSpec, each for *)
(* the behaviours of its module.                                           *)
Attempting(A) == part = "attempts" /\ A /\ UNCHANGED <<part, gateVars>>
Gating(A) ==
    /\ A /\ UNCHANGED <<part, vars>>
    /\ \/ part = "counting" /\ Counting
       \/ part = "suspending" /\ Suspending

LimitsSpec ==
    /\ LimitsInit /\ [][LimitsNext]_limitsVars
    /\ WF_limitsVars(Attempting(Tick))
    /\ \A a \in Attempts : WF_limitsVars(Attempting(Expire(a) \/ SetLock(a)))
    /\ \A r \in Reqs : WF_limitsVars(Gating(Advance(r)))
    /\ \A e \in Entries : WF_limitsVars(Gating(EntryExpires(e)))
    /\ WF_limitsVars(Gating(QuotaExpires))
=============================================================================
