--------------------------- MODULE WebhookDelivery ---------------------------
(***************************************************************************)
(* Webhooks of one tenant, from the change of an event or a product        *)
(* (EventService, ProductService) to the receiver: WebhookService.trigger, *)
(* which nobody waits for, the queue webhook-delivery, its worker, and     *)
(* delivery by the API process itself when the queue cannot be reached.    *)
(* The request's database transaction ends after its response has been     *)
(* sent, or when its client hangs up (tenantMiddleware).                   *)
(*                                                                         *)
(* A hook <<c, e>> is the webhook of change c for endpoint e; its id is    *)
(* the same in every attempt.  The policy of the call has no retries of    *)
(* its own; its breaker and bulkhead are in ResilientCall.  Caches of      *)
(* lists are as in ProductCatalog; mails and notifications go through      *)
(* queues of the same kind, whose processors only send or log.             *)
(***************************************************************************)
EXTENDS TaskQueue

CONSTANTS Changes, Endpoints, Hooks

ASSUME HooksAreTasks ==
    /\ Hooks \subseteq Tasks \cap (Changes \X Endpoints)
    /\ Hooks \cap Workers = {} /\ Nobody \notin Hooks

VARIABLES
    tx,        \* the transaction of each change's request
    change,    \* how far that request is
    trigger,   \* how far WebhookService.trigger is
    active,    \* the endpoints that are not revoked
    send,      \* how far enqueueWebhookDelivery is, for each task
    call,      \* the call of processWebhookDeliveryJob of each deliverer
    got,       \* how often the receiver has got each task
    spared,    \* history: the endpoints revoked before each change began
    early,     \* history: tasks received before their change was committed
    twice,     \* history: tasks that may be delivered twice
    dropped    \* history: tasks hit by a failure that nothing retries

apiVars == <<tx, change, trigger, send>>
deliveryHistory == <<spared, early, twice, dropped>>
deliveryVars == <<queueVars, apiVars, active, call, got, deliveryHistory>>

Deliverers == Workers \cup Hooks
For(c) == {t \in Hooks : t[1] = c}
NoCall == [of |-> Nobody, step |-> "off"]

DeliveryTypeOK ==
    /\ QueueTypeOK
    /\ tx \in [Changes -> {"none", "open", "committed", "rolled back"}]
    /\ change \in [Changes -> {"new", "written", "dispatched", "answered", "dead"}]
    /\ trigger \in [Changes -> {"none", "looking", "done"}]
    /\ active \subseteq Endpoints
    /\ send \in [Hooks -> {"none", "add", "adding", "inline", "done"}]
    /\ call \in [Deliverers -> [of : Hooks \cup {Nobody},
                                step : {"off", "post", "ok", "failed"}]]
    /\ got \in [Hooks -> Nat]
    /\ spared \in [Changes -> SUBSET Endpoints]
    /\ early \subseteq Hooks /\ twice \subseteq Hooks /\ dropped \subseteq Hooks

DeliveryInit ==
    /\ QueueInit
    /\ tx = [c \in Changes |-> "none"]
    /\ change = [c \in Changes |-> "new"]
    /\ trigger = [c \in Changes |-> "none"]
    /\ active = Endpoints
    /\ send = [t \in Hooks |-> "none"]
    /\ call = [x \in Deliverers |-> NoCall]
    /\ got = [t \in Hooks |-> 0]
    /\ spared = [c \in Changes |-> {}]
    /\ early = {} /\ twice = {} /\ dropped = {}

-----------------------------------------------------------------------------
(* createEvent, updateEvent, deleteEvent: the row is written in the        *)
(* transaction of the request, the cached lists are dropped, the owner     *)
(* notified of a moderation.                                               *)
WriteChange(c) ==
    /\ change[c] = "new"
    /\ change' = [change EXCEPT ![c] = "written"]
    /\ tx' = [tx EXCEPT ![c] = "open"]
    /\ spared' = [spared EXCEPT ![c] = Endpoints \ active]
    /\ UNCHANGED <<queueVars, trigger, active, send, call, got, early, twice, dropped>>

(* dispatchWebhook, which returns at once.                                 *)
Dispatch(c) ==
    /\ change[c] = "written"
    /\ change' = [change EXCEPT ![c] = "dispatched"]
    /\ trigger' = [trigger EXCEPT ![c] = "looking"]
    /\ UNCHANGED <<queueVars, tx, active, send, call, got, deliveryHistory>>

(* The controller writes the audit log, which never fails, and answers.    *)
Answer(c) ==
    /\ change[c] = "dispatched"
    /\ change' = [change EXCEPT ![c] = "answered"]
    /\ UNCHANGED <<queueVars, tx, trigger, active, send, call, got, deliveryHistory>>

(* The transaction commits, or fails to, after the response, or as soon as *)
(* the client hangs up, while the handler goes on.                         *)
CommitChange(c) ==
    /\ tx[c] = "open"
    /\ tx' \in {[tx EXCEPT ![c] = s] : s \in {"committed", "rolled back"}}
    /\ UNCHANGED <<queueVars, change, trigger, active, send, call, got>>
    /\ UNCHANGED deliveryHistory

(* Its 30 seconds are over.                                                *)
TransactionTimesOut(c) ==
    /\ tx[c] = "open"
    /\ tx' = [tx EXCEPT ![c] = "rolled back"]
    /\ UNCHANGED <<queueVars, change, trigger, active, send, call, got>>
    /\ UNCHANGED deliveryHistory

(* WebhookService.revoke                                                   *)
Revoke(e) ==
    /\ e \in active
    /\ active' = active \ {e}
    /\ UNCHANGED <<queueVars, apiVars, call, got, deliveryHistory>>

-----------------------------------------------------------------------------
(* findActiveByEventType                                                   *)
ActiveByEventType == active

(* trigger: the endpoints are looked up in a transaction of its own; if    *)
(* that fails the webhooks of the change are skipped, and nobody is told.  *)
LookUp(c) ==
    /\ trigger[c] = "looking"
    /\ trigger' = [trigger EXCEPT ![c] = "done"]
    /\ LET found == {t \in For(c) : t[2] \in ActiveByEventType} IN
       \/ /\ send' = [t \in Hooks |-> IF t \in found THEN "add" ELSE send[t]]
          /\ UNCHANGED dropped
       \/ dropped' = dropped \cup found /\ UNCHANGED send
    /\ UNCHANGED <<queueVars, tx, change, active, call, got, spared, early, twice>>

Sent(t, s) == send' = [send EXCEPT ![t] = s]

(* tryEnqueue: the connection is down, and the task is delivered here ...  *)
EnqueueSkips(t) ==
    /\ send[t] = "add"
    /\ Sent(t, "inline")
    /\ UNCHANGED <<queueVars, tx, change, trigger, active, call, got, deliveryHistory>>

(* ... or the job is added ...                                             *)
EnqueueSends(t) ==
    /\ send[t] = "add"
    /\ Sent(t, "adding") /\ Send(t)
    /\ UNCHANGED <<tx, change, trigger, active, call, got, deliveryHistory>>

EnqueueArrives(t) ==
    /\ Arrive(t)
    /\ UNCHANGED <<apiVars, active, call, got, deliveryHistory>>

EnqueueResolves(t) ==
    /\ send[t] = "adding" /\ job[t].state # "sent"
    /\ Sent(t, "done")
    /\ UNCHANGED <<queueVars, tx, change, trigger, active, call, got, deliveryHistory>>

(* Mutant: an error of the queue is taken for an answer.                   *)
EnqueueIgnored(t) ==
    /\ send[t] = "adding"
    /\ Sent(t, "done") /\ DropSent(t)
    /\ UNCHANGED <<tx, change, trigger, active, call, got, deliveryHistory>>

(* ... unless that is refused ...                                          *)
EnqueueRejects(t) ==
    /\ send[t] = "adding" /\ job[t].state = "sent"
    /\ Sent(t, "inline") /\ DropSent(t)
    /\ UNCHANGED <<tx, change, trigger, active, call, got, deliveryHistory>>

(* Mutant: the answer of the queue is waited for as long as it takes.      *)
EnqueueWaits(t) == FALSE

(* ... or gives no answer for two seconds, which does not stop the job     *)
(* from arriving.                                                          *)
EnqueueTimesOut(t) ==
    /\ send[t] = "adding"
    /\ Sent(t, "inline")
    /\ twice' = twice \cup {t}
    /\ UNCHANGED <<queueVars, tx, change, trigger, active, call, got>>
    /\ UNCHANGED <<spared, early, dropped>>

-----------------------------------------------------------------------------
(* processWebhookDeliveryJob begins, in a worker or in the API process.    *)
DeliveryTaken(w, t) ==
    /\ call[w] = NoCall
    /\ Take(w, t)
    /\ call' = [call EXCEPT ![w] = [of |-> t, step |-> "post"]]
    /\ UNCHANGED <<apiVars, active, got, deliveryHistory>>

DeliverDirectly(t) ==
    /\ send[t] = "inline"
    /\ Sent(t, "done")
    /\ call' = [call EXCEPT ![t] = [of |-> t, step |-> "post"]]
    /\ UNCHANGED <<queueVars, tx, change, trigger, active, got, deliveryHistory>>

(* The POST: it is not sent, as the address is refused or the breaker      *)
(* open, or it is lost; the receiver gets it, and its answer is 2xx; or    *)
(* the answer is another one, or is lost.                                  *)
Post(x) ==
    /\ call[x].step = "post"
    /\ LET t == call[x].of IN
       \/ /\ call' = [call EXCEPT ![x].step = "failed"]
          /\ UNCHANGED <<got, early, twice>>
       \/ /\ got' = [got EXCEPT ![t] = @ + 1]
          /\ early' = IF tx[t[1]] = "committed" THEN early ELSE early \cup {t}
          /\ \/ call' = [call EXCEPT ![x].step = "ok"] /\ UNCHANGED twice
             \/ call' = [call EXCEPT ![x].step = "failed"] /\ twice' = twice \cup {t}
    /\ UNCHANGED <<queueVars, apiVars, active, spared, dropped>>

(* The worker's job ends; if its last attempt failed it becomes a dead     *)
(* letter, unless that cannot be stored.                                   *)
DeliveryEnds(w) ==
    /\ call[w].step \in {"ok", "failed"}
    /\ LET t == call[w].of IN
       IF call[w].step = "ok" THEN JobCompletes(w, t) /\ UNCHANGED dropped
       ELSE /\ JobFails(w, t)
            /\ dropped' = IF job'[t].state = "failed" /\ t \notin dead'
                          THEN dropped \cup {t} ELSE dropped
    /\ call' = [call EXCEPT ![w] = NoCall]
    /\ UNCHANGED <<apiVars, active, got, spared, early, twice>>

(* A failure of the API process's own delivery is only logged.             *)
DirectEnds(t) ==
    /\ call[t].step \in {"ok", "failed"}
    /\ dropped' = IF call[t].step = "failed" THEN dropped \cup {t} ELSE dropped
    /\ call' = [call EXCEPT ![t] = NoCall]
    /\ UNCHANGED <<queueVars, apiVars, active, got, spared, early, twice>>

DelivererDies(w) ==
    /\ call[w] # NoCall
    /\ call' = [call EXCEPT ![w] = NoCall]
    /\ UNCHANGED <<queueVars, apiVars, active, got, deliveryHistory>>

(* The job of a worker that is dead, or too slow, goes to another one.     *)
DeliveryStalls(t) ==
    /\ Stalls(t)
    /\ twice' = twice \cup {t}
    /\ dropped' = IF job'[t].state = "failed" THEN dropped \cup {t} ELSE dropped
    /\ UNCHANGED <<apiVars, active, call, got, spared, early>>

Unsent(t) == \/ send[t] \in {"add", "inline"} \/ call[t].step \in {"post", "failed"}
             \/ send[t] = "adding" /\ job[t].state = "sent"
             \/ trigger[t[1]] = "looking" /\ t[2] \in active

(* The API process dies, or exits: shutdown waits for requests only.       *)
ApiExits ==
    /\ \E c \in Changes : change[c] \notin {"new", "dead"}
    /\ change' = [c \in Changes |-> IF change[c] = "new" THEN "new" ELSE "dead"]
    /\ tx' = [c \in Changes |-> IF tx[c] = "open" THEN "rolled back" ELSE tx[c]]
    /\ trigger' = [c \in Changes |->
                     IF trigger[c] = "looking" THEN "done" ELSE trigger[c]]
    /\ dropped' = dropped \cup {t \in Hooks : Unsent(t)}
    /\ send' = [t \in Hooks |-> IF send[t] = "none" THEN "none" ELSE "done"]
    /\ job' = [t \in Tasks |-> IF job[t].state = "sent" THEN NoJob ELSE job[t]]
    /\ call' = [x \in Deliverers |-> IF x \in Hooks THEN NoCall ELSE call[x]]
    /\ UNCHANGED <<dead, active, got, spared, early, twice>>

ChangeStep(c) == WriteChange(c) \/ Dispatch(c) \/ Answer(c) \/ CommitChange(c)

(* What the API process does with a task, be Redis up or down.             *)
OwnStep(t) ==
    \/ EnqueueSkips(t) \/ EnqueueSends(t) \/ EnqueueResolves(t) \/ EnqueueTimesOut(t)
    \/ DeliverDirectly(t) \/ DirectEnds(t)

DeliveryNext ==
    \/ \E c \in Changes : ChangeStep(c) \/ TransactionTimesOut(c) \/ LookUp(c)
    \/ \E e \in Endpoints : Revoke(e)
    \/ \E t \in Hooks :
         \/ OwnStep(t) \/ EnqueueRejects(t) \/ EnqueueArrives(t) \/ DeliveryStalls(t)
         \/ \E w \in Workers : DeliveryTaken(w, t)
    \/ \E x \in Deliverers : Post(x)
    \/ \E w \in Workers : DeliveryEnds(w) \/ DelivererDies(w)
    \/ ApiExits

DeliverySpec == DeliveryInit /\ [][DeliveryNext]_deliveryVars

(* The API process and the workers go on, a free worker takes what waits,  *)
(* and jobs nobody works on are found to have stalled.                     *)
Stranded(t) == job[t].state = "active" /\ call[job[t].owner].of # t

DeliveryFairness ==
    /\ \A c \in Changes : WF_deliveryVars(LookUp(c))
    /\ \A t \in Hooks :
         /\ WF_deliveryVars(OwnStep(t))
         /\ SF_deliveryVars(\E w \in Workers : DeliveryTaken(w, t))
         /\ WF_deliveryVars(Stranded(t) /\ DeliveryStalls(t))
    /\ \A x \in Deliverers : WF_deliveryVars(Post(x))
    /\ \A w \in Workers : WF_deliveryVars(DeliveryEnds(w))

FairDeliverySpec == DeliverySpec /\ DeliveryFairness

-----------------------------------------------------------------------------
Underway(t) ==
    \/ send[t] \in {"add", "adding", "inline"} \/ call[t] # NoCall
    \/ job[t].state \in {"sent", "waiting", "active", "delayed"}

(* A webhook is not lost in silence (webhook-delivery.queue.ts:59-65): one *)
(* that has not come through is under way, is a dead letter, or met one of *)
(* the failures that nothing retries.                                      *)
UndeliveredIsAccountedFor ==
    \A t \in Hooks :
        send[t] # "none" => got[t] > 0 \/ Underway(t) \/ t \in dead \cup dropped

(* A receiver gets a webhook a second time only if its first answer was    *)
(* lost or bad, a job stalled, or an add came through too late             *)
(* (safe-enqueue.ts:27-32).                                                *)
RepeatHasACause == \A t \in Hooks : got[t] > 1 => t \in twice

(* Whoever revoked an endpoint hears nothing of later changes.             *)
RevokedHearsNothing ==
    \A t \in Hooks : t[2] \in spared[t[1]] => got[t] = 0

(* Whatever a receiver got, or did not get, has its reason.                *)
DeliveriesAreAccountedFor ==
    UndeliveredIsAccountedFor /\ RepeatHasACause /\ RevokedHearsNothing

(* Every webhook that an endpoint was found for comes through or ends as a *)
(* dead letter, unless it meets a failure that nothing retries.            *)
EveryWebhookSettles ==
    \A t \in Hooks : ([] (t \notin dropped)) =>
        (send[t] = "add" ~> got[t] > 0 \/ t \in dead)

(* "The business event has happened and has succeeded"                     *)
(* (webhook.service.ts:87-93): what a receiver is told has been committed. *)
WebhooksTellFacts == early = {}
=============================================================================
