----------------------------- MODULE ExportJobs -----------------------------
(***************************************************************************)
(* Exports of one tenant: ExportService, ExportRepository, and the worker  *)
(* of the export queue.  A request stores its row, enqueues a job with     *)
(* tryEnqueue and, when that gives up, runs processExportJob itself inside *)
(* the request's own database transaction, whose writes are seen, and      *)
(* whose lock on the row is let go, when the response has been sent or the *)
(* client has hung up.  A worker writes each status in a transaction of    *)
(* its own.                                                                *)
(***************************************************************************)
EXTENDS TaskQueue, FiniteSets

CONSTANTS
    Exports,   \* the tasks of the export queue
    NoRun

(* Whoever runs processExportJob: a worker, or the request of an export.   *)
Runners == Workers \cup Exports

ASSUME ExportsAreTasks ==
    Exports \subseteq Tasks /\ Workers \cap Exports = {} /\ NoRun \notin Exports

VARIABLES
    row,       \* the committed row of export_jobs
    draft,     \* the row as the request's transaction has changed it, NoRow
               \* if it has not, Closed once it is over before its time
    request,   \* where the request of each export stands
    run,       \* the call of processExportJob of each runner
    stored,    \* how many files of an export the object storage has
    repeated,  \* history: exports whose job may be worked on twice
    lost       \* history: exports hit by a failure that nothing retries, or
               \* run by a request that lost its transaction to a hang-up or
               \* a roll-back before the run had written how it went

exportVars == <<row, draft, request, run, stored>>
history == <<repeated, lost>>
vars == <<queueVars, exportVars, history>>

NoRow == [status |-> "none", file |-> 0]
Closed == [status |-> "closed", file |-> 0]
Statuses == {"QUEUED", "PROCESSING", "COMPLETED", "FAILED"}
Off == [of |-> NoRun, step |-> "off", file |-> 0]

Init ==
    /\ QueueInit
    /\ row = [e \in Exports |-> NoRow]
    /\ draft = [e \in Exports |-> NoRow]
    /\ request = [e \in Exports |-> "create"]
    /\ run = [x \in Runners |-> Off]
    /\ stored = [e \in Exports |-> 0]
    /\ repeated = {}
    /\ lost = {}

On(x, e) == run[x].of = e
Busy(e) == {x \in Runners : On(x, e)}

Enter(x, e) == run' = [run EXCEPT ![x] = [of |-> e, step |-> "processing", file |-> 0]]
Goto(x, step) == run' = [run EXCEPT ![x].step = step, ![x].file = 0]
At(x, step) == run[x].step = step

Locked(e) == draft[e] \notin {NoRow, Closed}

(* The row as runner x sees it.                                            *)
Seen(x) ==
    LET e == run[x].of IN IF x = e /\ Locked(e) THEN draft[e] ELSE row[e]

(* An UPDATE of the row by runner x: a worker's waits for the row's lock,  *)
(* a request's needs its transaction.                                      *)
Write(x, changed) ==
    LET e == run[x].of IN
    IF x = e
    THEN /\ draft[e] # Closed
         /\ draft' = [draft EXCEPT ![e] = changed] /\ UNCHANGED row
    ELSE ~ Locked(e) /\ row' = [row EXCEPT ![e] = changed] /\ UNCHANGED draft

WriteStatus(x, s) == Write(x, [Seen(x) EXCEPT !.status = s])

-----------------------------------------------------------------------------
(* requestExport: the row is committed before anything is enqueued.        *)
Create(e) ==
    /\ request[e] = "create"
    /\ row' = [row EXCEPT ![e].status = "QUEUED"]
    /\ request' = [request EXCEPT ![e] = "enqueue"]
    /\ UNCHANGED <<queueVars, draft, run, stored, history>>

Inline(e) ==
    /\ request' = [request EXCEPT ![e] = "inline"]
    /\ Enter(e, e)

(* tryEnqueue: there is no queue, or its connection is known to be down.   *)
SkipAdd(e) ==
    /\ request[e] = "enqueue"
    /\ Inline(e)
    /\ UNCHANGED <<queueVars, row, draft, stored, history>>

Add(e) ==
    /\ request[e] = "enqueue"
    /\ Send(e)
    /\ request' = [request EXCEPT ![e] = "adding"]
    /\ UNCHANGED <<row, draft, run, stored, history>>

AddArrives(e) == Arrive(e) /\ UNCHANGED <<exportVars, history>>

(* Mutant: the result of tryEnqueue is not looked at.                      *)
AddAndRun(e) ==
    /\ request[e] = "adding"
    /\ job[e].state # "sent"
    /\ Inline(e)
    /\ UNCHANGED <<queueVars, row, draft, stored, history>>

AddResolves(e) ==
    /\ request[e] = "adding"
    /\ job[e].state # "sent"
    /\ request' = [request EXCEPT ![e] = "answered"]
    /\ UNCHANGED <<queueVars, row, draft, run, stored, history>>

AddRejects(e) ==
    /\ request[e] = "adding"
    /\ job[e].state = "sent" /\ DropSent(e)
    /\ Inline(e)
    /\ UNCHANGED <<row, draft, stored, history>>

(* The timer of ENQUEUE_TIMEOUT_MS wins the race; the add goes on.         *)
AddTimesOut(e) ==
    /\ request[e] = "adding"
    /\ Inline(e)
    /\ repeated' = repeated \cup {e}
    /\ UNCHANGED <<queueVars, row, draft, stored, lost>>

-----------------------------------------------------------------------------
(* A worker's slot takes a job and calls processExportJob.                 *)
WorkerTakes(w, e) ==
    /\ run[w] = Off
    /\ Take(w, e)
    /\ Enter(w, e)
    /\ UNCHANGED <<row, draft, request, stored, history>>

MarkProcessing(x) ==
    /\ At(x, "processing")
    /\ WriteStatus(x, "PROCESSING")
    /\ Goto(x, "generate")
    /\ UNCHANGED <<queueVars, request, stored, history>>

(* generateFile: the data is read and the file is rendered, or not.        *)
Generate(x) ==
    /\ At(x, "generate")
    /\ Goto(x, "upload") \/ Goto(x, "failed")
    /\ UNCHANGED <<queueVars, row, draft, request, stored, history>>

(* Mutant: the row is completed while the upload is still to come.         *)
UploadLater(x) ==
    /\ At(x, "upload")
    /\ run' = [run EXCEPT ![x].step = "complete", ![x].file = stored[run[x].of] + 1]
    /\ UNCHANGED <<queueVars, row, draft, request, stored, history>>

(* objectStorageProvider.upload, under a key of its own each time.         *)
Upload(x) ==
    /\ At(x, "upload")
    /\ LET e == run[x].of IN
       \/ /\ stored' = [stored EXCEPT ![e] = @ + 1]
          /\ run' = [run EXCEPT ![x].step = "complete", ![x].file = stored'[e]]
       \/ Goto(x, "failed") /\ UNCHANGED stored
    /\ UNCHANGED <<queueVars, row, draft, request, history>>

MarkCompleted(x) ==
    /\ At(x, "complete")
    /\ Write(x, [status |-> "COMPLETED", file |-> run[x].file])
    /\ Goto(x, "resolved")
    /\ UNCHANGED <<queueVars, request, stored, history>>

(* Mutant: the error goes straight to BullMQ.                              *)
MarkNothing(x) ==
    /\ At(x, "failed")
    /\ Goto(x, "thrown")
    /\ UNCHANGED <<queueVars, row, draft, request, stored, history>>

(* FAILED is stored before the error is thrown again.                      *)
MarkFailed(x) ==
    /\ At(x, "failed")
    /\ WriteStatus(x, "FAILED")
    /\ Goto(x, "thrown")
    /\ UNCHANGED <<queueVars, request, stored, history>>

(* The database refuses a worker's statement: markProcessing stands before *)
(* the try, a failed markCompleted leads to markFailed.                    *)
DatabaseFails(w) ==
    /\ w \in Workers
    /\ \/ (At(w, "processing") \/ At(w, "failed")) /\ Goto(w, "thrown")
       \/ At(w, "complete") /\ Goto(w, "failed")
    /\ lost' = lost \cup {run[w].of}
    /\ UNCHANGED <<queueVars, row, draft, request, stored, repeated>>

WorkerEnds(w) ==
    /\ w \in Workers
    /\ \/ At(w, "resolved") /\ JobCompletes(w, run[w].of)
       \/ At(w, "thrown") /\ JobFails(w, run[w].of)
    /\ run' = [run EXCEPT ![w] = Off]
    /\ UNCHANGED <<row, draft, request, stored, history>>

(* What the request's transaction has done so far is committed.            *)
Commit(e) == row' = IF Locked(e) THEN [row EXCEPT ![e] = draft[e]] ELSE row

(* The request answers, 202 or an error; then its transaction commits,     *)
(* unless it is over already.                                              *)
InlineEnds(e) ==
    /\ At(e, "resolved") \/ At(e, "thrown")
    /\ Commit(e)
    /\ draft' = [draft EXCEPT ![e] = NoRow]
    /\ run' = [run EXCEPT ![e] = Off]
    /\ request' = [request EXCEPT ![e] = "answered"]
    /\ UNCHANGED <<queueVars, stored, history>>

(* The client hangs up: 'close' ends the wait of tenantMiddleware too, so  *)
(* that what has been written is committed while the handler goes on.      *)
(* With nothing written yet this is a roll-back as well, and one before    *)
(* the run is the same as one when the run begins.                         *)
HangUp(e) ==
    /\ request[e] = "inline" /\ draft[e] # Closed
    /\ Commit(e)
    /\ draft' = [draft EXCEPT ![e] = Closed]
    /\ UNCHANGED <<queueVars, request, run, stored, history>>

(* The 30 seconds of the transaction are over, or one of its statements    *)
(* fails: what has been written is not kept, and the handler goes on.      *)
RollBack(e) ==
    /\ Locked(e)
    /\ draft' = [draft EXCEPT ![e] = Closed]
    /\ lost' = lost \cup {e}
    /\ UNCHANGED <<queueVars, row, request, run, stored, repeated>>

(* A statement throws when the transaction is over, markFailed's too.      *)
CutOff(e) ==
    /\ draft[e] = Closed
    /\ \/ (At(e, "processing") \/ At(e, "failed")) /\ Goto(e, "thrown")
       \/ At(e, "complete") /\ Goto(e, "failed")
    /\ lost' = lost \cup {e}
    /\ UNCHANGED <<queueVars, row, draft, request, stored, repeated>>

(* The API process dies: what the request has not committed is gone.       *)
RequestDies(e) ==
    /\ request[e] \in {"enqueue", "adding", "inline"}
    /\ DropSent(e)
    /\ draft' = [draft EXCEPT ![e] = NoRow]
    /\ run' = [run EXCEPT ![e] = Off]
    /\ request' = [request EXCEPT ![e] = "answered"]
    /\ lost' = lost \cup {e}
    /\ UNCHANGED <<row, stored, repeated>>

(* A worker process dies; what it was running is left to the stall check,  *)
(* unless another worker had already taken its job over.                   *)
WorkerDies(w) ==
    /\ run[w] # Off
    /\ run' = [run EXCEPT ![w] = Off]
    /\ lost' = IF Owns(w, run[w].of) THEN lost ELSE lost \cup {run[w].of}
    /\ UNCHANGED <<queueVars, row, draft, request, stored, repeated>>

(* BullMQ takes an active job back, be its worker dead or only slow.       *)
JobStalls(e) ==
    /\ Stalls(e)
    /\ repeated' = repeated \cup {e}
    /\ lost' = IF job[e].stalls < MaxStalls THEN lost ELSE lost \cup {e}
    /\ UNCHANGED exportVars

-----------------------------------------------------------------------------
RequestStep(e) ==
    \/ Create(e) \/ SkipAdd(e) \/ Add(e)
    \/ AddResolves(e) \/ AddRejects(e) \/ AddTimesOut(e)
    \/ CutOff(e) \/ InlineEnds(e)

Process(x) ==
    MarkProcessing(x) \/ Generate(x) \/ Upload(x) \/ MarkCompleted(x) \/ MarkFailed(x)

Next ==
    \/ \E e \in Exports :
         \/ RequestStep(e) \/ HangUp(e) \/ RollBack(e) \/ RequestDies(e)
         \/ AddArrives(e) \/ JobStalls(e)
         \/ \E w \in Workers : WorkerTakes(w, e)
    \/ \E x \in Runners : Process(x)
    \/ \E w \in Workers : DatabaseFails(w) \/ WorkerEnds(w) \/ WorkerDies(w)

Spec == Init /\ [][Next]_vars

(* Requests and runs go on, a free worker takes what is waiting, and the   *)
(* job of a dead worker is found to have stalled.                          *)
Abandoned(e) == job[e].state = "active" /\ ~ On(job[e].owner, e)
FairSpec ==
    /\ Spec
    /\ \A e \in Exports :
         /\ WF_vars(RequestStep(e))
         /\ SF_vars(\E w \in Workers : WorkerTakes(w, e))
         /\ WF_vars(Abandoned(e) /\ JobStalls(e))
    /\ \A x \in Runners : WF_vars(Process(x))
    /\ \A w \in Workers : WF_vars(WorkerEnds(w))

-----------------------------------------------------------------------------
(* Every variable keeps its type.                                          *)
TypeOK ==
    /\ QueueTypeOK
    /\ row \in [Exports -> [status : Statuses \cup {"none"}, file : Nat]]
    /\ draft \in [Exports -> [status : Statuses \cup {"none"}, file : Nat] \cup {Closed}]
    /\ request \in [Exports -> {"create", "enqueue", "adding", "inline", "answered"}]
    /\ run \in [Runners -> [of : Exports \cup {NoRun}, file : Nat,
          step : {"off", "processing", "generate", "upload", "complete",
                  "failed", "resolved", "thrown"}]]
    /\ stored \in [Exports -> Nat]
    /\ repeated \subseteq Exports
    /\ lost \subseteq Exports

(* A job is worked on twice only when its add answered after the time-out  *)
(* or when it stalled (safe-enqueue.ts:27-32, "diterima"): else no two     *)
(* runs of processExportJob for one export ever overlap.                   *)
OneRunAtATime ==
    \A e \in Exports : e \notin repeated => Cardinality(Busy(e)) <= 1

(* Such an export, once COMPLETED, stays so and keeps its file.            *)
FinishedStaysFinished ==
    [][\A e \in Exports : row[e].status = "COMPLETED" /\ e \notin repeated' =>
            row'[e] = row[e]]_vars

(* PROCESSING means that work remains: while a job pauses between two      *)
(* attempts, or has ended, its row says how the last run went              *)
(* (export.service.ts:134-138, "bukan nyangkut di PROCESSING selamanya").  *)
(* Those of lost are not so: a client that hangs up while its request runs *)
(* the export itself has PROCESSING committed and the COMPLETED or FAILED  *)
(* that was to follow refused (CutOff, tenant.middleware.ts:141-145).      *)
ProcessingIsBeingDone ==
    \A e \in Exports \ lost : row[e].status = "PROCESSING" =>
        Busy(e) # {} \/ job[e].state \in {"waiting", "active"}

(* Whoever sees COMPLETED gets a file: the one the row names has been      *)
(* stored, whichever of several runs wrote the row.  What the operator     *)
(* finds in the dead-letter queue has used up all its attempts             *)
(* (dead-letter.queue.ts:31-35), and its row says FAILED.                  *)
OutcomesAreReal ==
    /\ \A e \in Exports :
          row[e].status = "COMPLETED" => row[e].file \in 1 .. stored[e]
    /\ \A e \in dead \cap Exports :
          /\ job[e].state = "failed" /\ job[e].made = MaxAttempts
          /\ e \notin lost \cup repeated => row[e].status = "FAILED"

(* What a row says of its export is true (export.service.ts:100-140).      *)
RowsTellTheTruth == OutcomesAreReal /\ ProcessingIsBeingDone

Settled(e) == row[e].status \in {"COMPLETED", "FAILED"}

(* Every export that has been accepted ends as COMPLETED or FAILED, by its *)
(* worker, by another one or by the request itself, unless something fails *)
(* that nothing retries, or the request that runs it itself loses its      *)
(* transaction, by a hang-up or a roll-back, before its run is written: it *)
(* is then left QUEUED or PROCESSING.  What is COMPLETED stays so.         *)
EveryExportSettles ==
    /\ FinishedStaysFinished
    /\ \A e \in Exports : ([] (e \notin lost)) =>
          (row[e].status = "QUEUED" ~> Settled(e))
=============================================================================
