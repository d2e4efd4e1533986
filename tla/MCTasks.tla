------------------------------ MODULE MCTasks ------------------------------
(***************************************************************************)
(* Small instances, for TLC, of the modules whose work outlasts a request. *)
(* A behaviour is one of ExportJobs, of WebhookDelivery, or of UserData,   *)
(* with two users, one of whom cannot be erased and one has a profile.     *)
(* The rest stays as it is.                                                *)
(***************************************************************************)
EXTENDS ExportJobs, WebhookDelivery

CONSTANTS u1, u2, r1, r2, c1, e1

VARIABLES part, account, signedIn, used, object, listing, profile, doing, user, file,
          todo, batch, listed, missed, tardy

OneHook == {<<c1, u1>>}
AllTasks == {e1} \cup OneHook

Retaining == INSTANCE UserData WITH
    Users <- {u1, u2}, Files <- {}, Owner <- [f \in {} |-> u1],
    Reqs <- {r1, r2}, Job <- Nobody, Stubborn <- {u1}, Readers <- {u2},
    NoOne <- Nobody, NoFile <- Nobody, row <- listing, lost <- missed

userState == <<account, signedIn, used, object, listing, profile, doing, user, file,
               todo, batch, listed, missed, tardy>>
exportState == <<exportVars, history>>
webhookState == <<apiVars, active, call, got, deliveryHistory>>
taskVars == <<queueVars, part, exportState, webhookState, userState>>

TasksInit ==
    /\ part \in {"exports", "accounts", "webhooks"}
    /\ Init /\ DeliveryInit /\ Retaining!DataInit

Exporting(A) == part = "exports" /\ A /\ UNCHANGED <<part, userState, webhookState>>
Delivering(A) == part = "webhooks" /\ A /\ UNCHANGED <<part, userState, exportState>>
Keeping(A) ==
    part = "accounts" /\ A /\ UNCHANGED <<part, queueVars, exportState, webhookState>>

TasksNext ==
    \/ part = "exports" /\ Next /\ UNCHANGED <<part, userState, webhookState>>
    \/ part = "webhooks" /\ DeliveryNext /\ UNCHANGED <<part, userState, exportState>>
    \/ /\ part = "accounts" /\ Retaining!DataNext
       /\ UNCHANGED <<part, queueVars, exportState, webhookState>>

(* The fairness of FairSpec of ExportJobs, of FairDeliverySpec, and of the *)
(* specification of UserData.  As a behaviour is of one part for good, a   *)
(* condition that joins steps of several says the same of each.            *)
TasksSpec ==
    /\ TasksInit /\ [][TasksNext]_taskVars
    /\ \A e \in Exports, t \in Hooks :
         /\ WF_taskVars(\/ Exporting(RequestStep(e)) \/ Delivering(OwnStep(t))
                        \/ Keeping(Retaining!StartJob))
         /\ WF_taskVars(\/ Exporting(Process(e)) \/ Delivering(Post(t))
                        \/ Keeping(Retaining!RunJob))
         /\ SF_taskVars(\/ Exporting(\E w \in Workers : WorkerTakes(w, e))
                        \/ Delivering(\E w \in Workers : DeliveryTaken(w, t)))
         /\ WF_taskVars(\/ Exporting(Abandoned(e) /\ JobStalls(e))
                        \/ Delivering(Stranded(t) /\ DeliveryStalls(t))
                        \/ Keeping(Retaining!ProfileExpires(u2)))
    /\ \A w \in Workers :
         /\ WF_taskVars(Exporting(Process(w)) \/ Delivering(Post(w)))
         /\ WF_taskVars(Exporting(WorkerEnds(w)) \/ Delivering(DeliveryEnds(w)))
    /\ \A r \in {r1, r2} : WF_taskVars(Keeping(Retaining!Work(r)))
    /\ WF_taskVars(Delivering(LookUp(c1)))

(* The behaviours of WebhookDelivery alone.                                *)
WebhooksSpec == TasksInit /\ part = "webhooks" /\ [][TasksNext]_taskVars

(* UserData: the retention job erases every account that is due, even if   *)
(* it fails on another one every day (enforce-data-retention.job.ts:21),   *)
(* and an erased profile leaves the cache.                                 *)
ErasureComesToAnEnd == Retaining!ErasureComesToAnEnd
=============================================================================
