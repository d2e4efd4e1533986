----------------------------- MODULE MCChanges -----------------------------
(***************************************************************************)
(* Small instances, for TLC, of what has to follow a change: of data (the  *)
(* audit trail, the lists of products), of the files of a user, of the     *)
(* secrets, of a user's role and tenant, and of the processes (their       *)
(* heartbeats and probes).  A behaviour is one of AuditChain,              *)
(* ProductCatalog, KeyRotation, AccessRights, UserData, WorkerHealth (with *)
(* the periods of the code) or Readiness (with its time-outs, and those of *)
(* the Helm chart); the rest stays as it is.                               *)
(***************************************************************************)
EXTENDS AuditChain, KeyRotation, AccessRights, UserData, ProductCatalog,
        WorkerHealth, Readiness, TLC

CONSTANTS p1, r1, r2, r3, u1

OwnerOfAll == [f \in Files |-> u1]

VARIABLE part

changeVars ==
    <<vars, part, catalogVars, keyVars, rightsVars, dataVars, workerVars, readyVars>>

ChangesInit ==
    /\ part \in {"audit", "catalog", "keys", "rights", "files", "workers", "ready"}
    /\ Init /\ CatalogInit
    /\ KeyInit /\ RightsInit /\ DataInit /\ WorkersInit /\ ReadyInit
    /\ part = "catalog" \/ product[p1] = Absent

(* What has nothing to do with a part stays as it is.                      *)
Idle(p) == part # p
Others ==
    /\ Idle("audit") => UNCHANGED vars
    /\ Idle("catalog") => UNCHANGED catalogVars
    /\ Idle("keys") => UNCHANGED keyVars
    /\ Idle("rights") => UNCHANGED rightsVars
    /\ Idle("files") => UNCHANGED dataVars
    /\ Idle("workers") => UNCHANGED workerVars
    /\ Idle("ready") => UNCHANGED readyVars

ChangesNext ==
    /\ UNCHANGED part
    /\ \/ part = "audit" /\ Next
       \/ part = "catalog" /\ CatalogNext
       \/ part = "keys" /\ KeyNext
       \/ part = "rights" /\ RightsNext
       \/ part = "files" /\ DataNext
       \/ part = "workers" /\ WorkersNext
       \/ part = "ready" /\ ReadyNext
    /\ Others

ChangesSpec == ChangesInit /\ [][ChangesNext]_changeVars

(* Requests for products are interchangeable, and so are processes.        *)
Symmetry == Permutations({r1, r2, r3})
=============================================================================
