--------------------------- MODULE MCReliability ---------------------------
(***************************************************************************)
(* Small instances, for TLC, of what keeps the process and its callers     *)
(* going.  A behaviour is one of ResilientCall, or of ServerProcess with   *)
(* two clients and a pool of two.  The rest stays as it is.                *)
(***************************************************************************)
EXTENDS ResilientCall, ServerProcess

VARIABLE part

reliabilityVars == <<resilientVars, part, serverVars>>

ReliabilityInit ==
    /\ part \in {"calls", "server"}
    /\ Init /\ ServerInit

ReliabilityNext ==
    /\ UNCHANGED part
    /\ \/ part = "calls" /\ Next /\ UNCHANGED serverVars
       \/ part = "server" /\ ServerNext /\ UNCHANGED resilientVars

(* The fairness of FairSpec of ResilientCall and of ServerSpec, each for   *)
(* the behaviours of its module.                                           *)
Resilient(A) == part = "calls" /\ A /\ UNCHANGED <<part, serverVars>>
Serving(A) == part = "server" /\ A /\ UNCHANGED <<part, resilientVars>>

ReliabilitySpec ==
    /\ ReliabilityInit /\ [][ReliabilityNext]_reliabilityVars
    /\ \A c \in Calls :
         /\ WF_reliabilityVars(Resilient(Respond(c) \/ Reject(c)))
         /\ WF_reliabilityVars(Resilient(Retry(c)))
         /\ WF_reliabilityVars(Resilient(Enter(c) /\ phase[c] = "woken"))
         /\ WF_reliabilityVars(Resilient(HandBack(c)))
    /\ \A c \in Clients :
         /\ WF_reliabilityVars(Serving(WaitIsOver(c)))
         /\ WF_reliabilityVars(Serving(TransactionTimesOut(c) \/ Commit(c)))
    /\ \A s \in {"cache", "queue"} : WF_reliabilityVars(Serving(QuitTimesOut(s)))
    /\ WF_reliabilityVars(Serving(Disconnect \/ DisconnectFails))
    /\ WF_reliabilityVars(Serving(Finish))
=============================================================================
