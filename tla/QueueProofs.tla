----------------------------- MODULE QueueProofs -----------------------------
(***************************************************************************)
(* Proofs about the two users of TaskQueue, ExportJobs and                 *)
(* WebhookDelivery, for any set of exports, of hooks and of workers and    *)
(* any number of attempts and stalls: two runs of one export overlap only  *)
(* if BullMQ or the time-out of tryEnqueue made them, and what a row says  *)
(* of its export is true; a webhook that has not come through, or came     *)
(* through twice, has its reason.                                          *)
(***************************************************************************)
EXTENDS ExportJobs, WebhookDelivery, FiniteSetTheorems, TLAPS

(* A runner that works has an export, an inline run its own.               *)
RunsHaveExports ==
    \A x \in Runners :
        run[x] = Off \/ (/\ run[x].of \in Exports /\ run[x].step # "off"
                         /\ x \in Workers \/ x = run[x].of)

(* A request is inline as long as its run is under way, and only then does *)
(* its transaction hold the lock on its row, or is over before its time.   *)
RequestsFollowRuns ==
    \A e \in Exports :
        /\ request[e] = "inline" <=> On(e, e)
        /\ draft[e] # NoRow => On(e, e)

(* What the transaction of an inline run has written when the run stands   *)
(* at a step, unless it is over before its time.                           *)
Fits(written, step) ==
    \/ written = Closed
    \/ written = NoRow /\ step \in {"off", "processing"}
    \/ /\ written.status = "PROCESSING"
       /\ step \in {"generate", "upload", "complete", "failed"}
    \/ written.status = "COMPLETED" /\ step = "resolved"
    \/ written.status = "FAILED" /\ step = "thrown"

DraftsAreFinal == \A e \in Exports : Fits(draft[e], run[e].step)

(* Unless an export may be worked on twice, its request does so only if    *)
(* there is no job, and a worker only as the owner of the job.             *)
OneSideWorks ==
    \A e \in Exports \ repeated :
        /\ request[e] \in {"create", "enqueue", "inline"} => job[e].state = "none"
        /\ \A w \in Workers : On(w, e) => Owns(w, e)

(* A job that has not failed has attempts left, one that is active has a   *)
(* worker.                                                                 *)
JobsAreSound ==
    \A e \in Tasks :
        /\ job[e].state # "failed" => job[e].made < MaxAttempts
        /\ job[e].state = "active" => job[e].owner \in Workers

(* A file that a row or a run names has been stored.                       *)
FilesAreStored ==
    /\ \A x \in Runners : At(x, "complete") => run[x].file \in 1 .. stored[run[x].of]
    /\ \A e \in Exports :
         /\ row[e].status = "COMPLETED" => row[e].file \in 1 .. stored[e]
         /\ draft[e].status = "COMPLETED" => draft[e].file \in 1 .. stored[e]

(* A worker that gives an export back as failed has said so in its row.    *)
ThrownIsStored ==
    \A w \in Workers, e \in Exports \ (lost \cup repeated) :
        On(w, e) /\ At(w, "thrown") => row[e].status = "FAILED"

DeadAreFailed ==
    \A e \in dead \cap Exports :
        /\ job[e].state = "failed" /\ job[e].made = MaxAttempts
        /\ e \notin lost \cup repeated => row[e].status = "FAILED"

(* Who has found the row of e or left it as PROCESSING and is not done: a  *)
(* worker, or a request whose client has hung up.                          *)
AtWork(x, e) == On(x, e) /\ run[x].step \in {"generate", "upload", "complete", "failed"}
Owing(e) ==
    \/ \E w \in Workers : AtWork(w, e)
    \/ draft[e] = Closed /\ AtWork(e, e)

(* The worker that owns the job is not about to give it back.              *)
StillOwned(e) ==
    /\ job[e].state = "active"
    /\ ~ (On(job[e].owner, e) /\ run[job[e].owner].step \in {"resolved", "thrown"})

ProcessingIsOwed ==
    \A e \in Exports \ lost : row[e].status = "PROCESSING" =>
        Owing(e) \/ job[e].state = "waiting" \/ StillOwned(e)

(* A COMPLETED export that is worked on once is over.                      *)
Over(e) ==
    \/ job[e].state = "none" /\ request[e] = "answered"
    \/ job[e].state = "none" /\ draft[e] = Closed /\ At(e, "resolved")
    \/ job[e].state = "completed"
    \/ job[e].state = "active" /\ \A w \in Workers : On(w, e) => At(w, "resolved")

CompletedIsOver ==
    \A e \in Exports \ repeated : row[e].status = "COMPLETED" => Over(e)

ExportInvariant ==
    /\ TypeOK
    /\ RunsHaveExports
    /\ RequestsFollowRuns
    /\ DraftsAreFinal
    /\ OneSideWorks
    /\ JobsAreSound
    /\ FilesAreStored
    /\ ThrownIsStored
    /\ DeadAreFailed
    /\ ProcessingIsOwed
    /\ CompletedIsOver

-----------------------------------------------------------------------------
(* What the variables range over.                                          *)
RowRecords == [status : Statuses \cup {"none"}, file : Nat]
DraftRecords == RowRecords \cup {Closed}
RunSteps == {"off", "processing", "generate", "upload", "complete",
             "failed", "resolved", "thrown"}
RunRecords == [of : Exports \cup {NoRun}, file : Nat, step : RunSteps]
JobRecords == [state : JobStates, owner : Workers \cup {Nobody},
               made : 0 .. MaxAttempts, stalls : 0 .. MaxStalls]

(* The run of x, and no other one, becomes r.                              *)
RunBecomes(x, r) ==
    /\ run' \in [Runners -> RunRecords] /\ run'[x] = r
    /\ \A y \in Runners \ {x} : run'[y] = run[y]

(* The job of e, and no other one, gets state s and owner o, m attempts    *)
(* having been made.                                                       *)
JobBecomes(e, s, o, m) ==
    /\ job' \in [Tasks -> JobRecords]
    /\ job'[e].state = s /\ job'[e].owner = o /\ job'[e].made = m
    /\ \A d \in Tasks \ {e} : job'[d] = job[d]

(* The committed row of e, and no other one, becomes r.                    *)
RowBecomes(e, r) ==
    /\ row' \in [Exports -> RowRecords] /\ row'[e] = r
    /\ \A d \in Exports \ {e} : row'[d] = row[d]

DraftBecomes(e, r) ==
    /\ draft' \in [Exports -> DraftRecords] /\ draft'[e] = r
    /\ \A d \in Exports \ {e} : draft'[d] = draft[d]

(* Run x stores a file of e and remembers it.                              *)
StoresFile(x, e) ==
    /\ stored' \in [Exports -> Nat] /\ stored'[e] = stored[e] + 1
    /\ \A d \in Exports \ {e} : stored'[d] = stored[d]
    /\ stored[e] + 1 \in 1 .. stored'[e]
    /\ RunBecomes(x, [of |-> e, file |-> stored[e] + 1, step |-> "complete"])

LEMMA Types ==
    ASSUME TypeOK
    PROVE  /\ QueueTypeOK /\ Exports \subseteq Tasks
           /\ job \in [Tasks -> JobRecords] /\ run \in [Runners -> RunRecords]
           /\ row \in [Exports -> RowRecords] /\ draft \in [Exports -> DraftRecords]
           /\ dead \subseteq Tasks /\ stored \in [Exports -> Nat]
           /\ request \in [Exports -> {"create", "enqueue", "adding", "inline", "answered"}]
           /\ Workers \subseteq Runners /\ Exports \subseteq Runners
  BY ExportsAreTasks
     DEF TypeOK, QueueTypeOK, Runners, JobRecords, RunRecords, RunSteps, RowRecords,
         DraftRecords

LEMMA TypesBack ==
    ASSUME job' \in [Tasks -> JobRecords], dead' \subseteq Tasks,
           run' \in [Runners -> RunRecords],
           row' \in [Exports -> RowRecords], draft' \in [Exports -> DraftRecords],
           request' \in [Exports -> {"create", "enqueue", "adding", "inline", "answered"}],
           stored' \in [Exports -> Nat],
           repeated' \subseteq Exports, lost' \subseteq Exports
    PROVE  TypeOK'
  BY DEF TypeOK, QueueTypeOK, JobRecords, RunRecords, RunSteps, RowRecords,
         DraftRecords

(* What the helpers of the actions do to run, job, row and draft.          *)
LEMMA GotoFrame ==
    ASSUME TypeOK, NEW x \in Runners, NEW s \in RunSteps, Goto(x, s)
    PROVE  RunBecomes(x, [of |-> run[x].of, file |-> 0, step |-> s])
  BY Types DEF Goto, RunBecomes, RunRecords

LEMMA EnterFrame ==
    ASSUME TypeOK, NEW x \in Runners, NEW e \in Exports, Enter(x, e)
    PROVE  RunBecomes(x, [of |-> e, file |-> 0, step |-> "processing"])
  BY Types DEF Enter, RunBecomes, RunRecords, RunSteps

LEMMA OffFrame ==
    ASSUME TypeOK, NEW x \in Runners, run' = [run EXCEPT ![x] = Off]
    PROVE  RunBecomes(x, Off)
  BY Types DEF Off, RunBecomes, RunRecords, RunSteps

LEMMA QueueTypes ==
    ASSUME QueueTypeOK
    PROVE  job \in [Tasks -> JobRecords] /\ dead \subseteq Tasks
  BY DEF QueueTypeOK, JobRecords

LEMMA DropFrame ==
    ASSUME QueueTypeOK, NEW e \in Tasks, DropSent(e)
    PROVE  /\ JobBecomes(e, IF job[e].state = "sent" THEN "none" ELSE job[e].state,
                         job[e].owner, job[e].made)
           /\ dead' = dead
  <1>1. job[e] \in JobRecords
    BY QueueTypes
  <1>2. [job[e] EXCEPT !.state = IF @ = "sent" THEN "none" ELSE @] \in JobRecords
    BY <1>1 DEF JobRecords, JobStates
  <1> QED BY <1>2, QueueTypes DEF DropSent, JobBecomes

LEMMA SendFrame ==
    ASSUME QueueTypeOK, NEW e \in Tasks, Send(e)
    PROVE  /\ JobBecomes(e, "sent", job[e].owner, job[e].made) /\ job[e].state = "none"
           /\ dead' = dead
  BY QueueTypes DEF Send, JobBecomes, JobRecords, JobStates

LEMMA ArriveFrame ==
    ASSUME QueueTypeOK, NEW e \in Tasks, Arrive(e)
    PROVE  /\ JobBecomes(e, "waiting", job[e].owner, job[e].made)
           /\ job[e].state = "sent" /\ dead' = dead
  BY QueueTypes DEF Arrive, JobBecomes, JobRecords, JobStates

LEMMA TakeFrame ==
    ASSUME QueueTypeOK, NEW e \in Tasks, NEW w \in Workers, Take(w, e)
    PROVE  /\ JobBecomes(e, "active", w, job[e].made)
           /\ job[e].state \in {"waiting", "delayed"}
           /\ dead' = dead
  BY QueueTypes DEF Take, JobBecomes, JobRecords, JobStates

LEMMA CompletesFrame ==
    ASSUME QueueTypeOK, NEW e \in Tasks, NEW w \in Workers, JobCompletes(w, e)
    PROVE  /\ IF Owns(w, e) THEN JobBecomes(e, "completed", Nobody, job[e].made) ELSE job' = job
           /\ dead' = dead
  BY QueueTypes DEF JobCompletes, JobBecomes, JobRecords, JobStates

LEMMA FailsFrame ==
    ASSUME QueueTypeOK, JobsAreSound,
           NEW e \in Tasks, NEW w \in Workers, JobFails(w, e), Owns(w, e)
    PROVE  \/ /\ JobBecomes(e, "delayed", Nobody, job[e].made + 1)
              /\ job[e].made + 1 < MaxAttempts /\ dead' = dead
           \/ /\ JobBecomes(e, "failed", Nobody, MaxAttempts)
              /\ dead' \in {dead, dead \cup {e}}
  <1> DEFINE made == job[e].made + 1
             s == IF GaveUp(made) THEN "failed" ELSE "delayed"
  <1>1. job[e] \in JobRecords /\ job[e].made \in 0 .. MaxAttempts
    BY QueueTypes DEF JobRecords
  <1>2. job' = [job EXCEPT ![e].made = made, ![e].owner = Nobody, ![e].state = s]
    BY DEF JobFails
  <1>3. /\ made \in 0 .. MaxAttempts
        /\ IF GaveUp(made) THEN made = MaxAttempts ELSE made < MaxAttempts
    BY <1>1, QueueOptions DEF GaveUp, JobsAreSound, Owns
  <1>4. dead' \in IF GaveUp(made) THEN {dead, dead \cup {e}} ELSE {dead}
    BY DEF JobFails
  <1> HIDE DEF made
  <1>5. JobBecomes(e, s, Nobody, made)
    BY <1>2, <1>3, QueueTypes DEF JobBecomes, JobRecords, JobStates
  <1> QED BY <1>3, <1>4, <1>5 DEF made

LEMMA StallsFrame ==
    ASSUME QueueTypeOK, NEW e \in Tasks, Stalls(e)
    PROVE  /\ job[e].state = "active" /\ dead' = dead
           /\ JobBecomes(e, IF job[e].stalls < MaxStalls THEN "waiting" ELSE "failed",
                            Nobody, job[e].made)
  BY QueueTypes DEF Stalls, JobRecords

LEMMA WriteFrame ==
    ASSUME TypeOK, NEW x \in Runners, NEW r \in RowRecords, run[x].of \in Exports, Write(x, r)
    PROVE  IF x = run[x].of
           THEN DraftBecomes(x, r) /\ row' = row /\ draft[x] # Closed
           ELSE RowBecomes(run[x].of, r) /\ draft' = draft /\ ~ Locked(run[x].of)
  BY Types DEF Write, RowBecomes, DraftBecomes, DraftRecords

LEMMA WriteStatusFrame ==
    ASSUME TypeOK, NEW x \in Runners, NEW s \in Statuses, run[x].of \in Exports,
           WriteStatus(x, s)
    PROVE  \E f \in Nat :
           IF x = run[x].of
           THEN DraftBecomes(x, [status |-> s, file |-> f]) /\ row' = row /\ draft[x] # Closed
           ELSE /\ RowBecomes(run[x].of, [status |-> s, file |-> f])
                /\ draft' = draft /\ ~ Locked(run[x].of)
  <1>1. Seen(x) \in RowRecords
    BY Types DEF Seen, Locked, DraftRecords
  <1>2. PICK f \in Nat : [Seen(x) EXCEPT !.status = s] = [status |-> s, file |-> f]
    BY <1>1 DEF RowRecords
  <1>3. [status |-> s, file |-> f] \in RowRecords
    BY DEF RowRecords
  <1> QED BY <1>2, <1>3, WriteFrame DEF WriteStatus

LEMMA UploadFrame ==
    ASSUME TypeOK, NEW x \in Runners, run[x].of \in Exports, Upload(x)
    PROVE  /\ \/ StoresFile(x, run[x].of)
              \/ /\ RunBecomes(x, [of |-> run[x].of, file |-> 0, step |-> "failed"])
                 /\ stored' = stored
           /\ \A d \in Exports : 1 .. stored[d] \subseteq 1 .. stored'[d]
  <1> DEFINE e == run[x].of
  <1>1. CASE /\ stored' = [stored EXCEPT ![e] = @ + 1]
             /\ run' = [run EXCEPT ![x].step = "complete", ![x].file = stored'[e]]
    <2>1. stored[e] \in Nat /\ stored'[e] = stored[e] + 1
      BY <1>1, Types
    <2>2. run[x] \in RunRecords
      BY Types
    <2>3. run'[x] = [of |-> e, file |-> stored[e] + 1, step |-> "complete"]
      BY <1>1, Types DEF RunRecords
    <2>4. run'[x] \in RunRecords
      BY <2>1, <2>3 DEF RunRecords, RunSteps
    <2>5. StoresFile(x, e)
      BY <1>1, <2>3, <2>4, Types DEF StoresFile, RunBecomes
    <2>6. ASSUME NEW d \in Exports PROVE 1 .. stored[d] \subseteq 1 .. stored'[d]
      <3>1. stored[d] \in Nat /\ (stored'[d] = stored[d] \/ stored'[d] = stored[d] + 1)
        BY <1>1, Types
      <3> QED BY <3>1
    <2> QED BY <2>5, <2>6
  <1>2. CASE Goto(x, "failed") /\ UNCHANGED stored
    BY <1>2, GotoFrame DEF RunSteps
  <1> QED BY <1>1, <1>2 DEF Upload

LEMMA CreateKeeps ==
    ASSUME ExportInvariant, NEW e \in Exports, Create(e)
    PROVE  ExportInvariant'
  <1> USE DEF ExportInvariant
  <1>1. RowBecomes(e, [status |-> "QUEUED", file |-> row[e].file])
    BY Types DEF Create, RowBecomes, RowRecords, Statuses
  <1>2. /\ request[e] = "create" /\ request' = [request EXCEPT ![e] = "enqueue"]
        /\ UNCHANGED <<job, dead, draft, run, stored, repeated, lost>>
    BY DEF Create, queueVars, history
  <1>3. TypeOK'
    BY Types, <1>1, <1>2, TypesBack DEF TypeOK, RowBecomes
  <1>4. RunsHaveExports'
    BY <1>2 DEF RunsHaveExports
  <1>5. RequestsFollowRuns'
    BY <1>2
      DEF RequestsFollowRuns, On, Locked, NoRow, Runners, RunsHaveExports, RowBecomes
  <1>6. DraftsAreFinal'
    BY <1>2 DEF DraftsAreFinal
  <1>7. OneSideWorks'
    BY <1>2 DEF OneSideWorks, On, Owns, Runners, RunsHaveExports, RowBecomes
  <1>8. JobsAreSound'
    BY <1>2 DEF JobsAreSound
  <1>9. FilesAreStored'
    BY <1>1, <1>2 DEF FilesAreStored, At, RunsHaveExports, On, RowBecomes
  <1>10. ThrownIsStored'
    BY <1>1, <1>2
      DEF ThrownIsStored, On, At, Runners, OneSideWorks, RequestsFollowRuns, Owns,
          RowBecomes
  <1>11. DeadAreFailed'
    BY <1>1, <1>2, Types
      DEF DeadAreFailed, OneSideWorks, On, Owns, Runners, ThrownIsStored, At, RowBecomes
  <1>12. ProcessingIsOwed'
    BY <1>1, <1>2
      DEF ProcessingIsOwed, On, Owing, AtWork, StillOwned, Runners, DraftsAreFinal,
          JobsAreSound, At, Owns, RowBecomes
  <1>13. CompletedIsOver'
    BY <1>1, <1>2
      DEF CompletedIsOver, On, At, Over, Runners, OneSideWorks, RequestsFollowRuns,
          Owns, DraftsAreFinal, RowBecomes
  <1> QED BY <1>3, <1>4, <1>5, <1>6, <1>7, <1>8, <1>9, <1>10, <1>11, <1>12, <1>13

LEMMA SkipAddKeeps ==
    ASSUME ExportInvariant, NEW e \in Exports, SkipAdd(e)
    PROVE  ExportInvariant'
  <1> USE DEF ExportInvariant
  <1>1. RunBecomes(e, [of |-> e, file |-> 0, step |-> "processing"])
    BY EnterFrame, Types DEF SkipAdd, Inline
  <1>2. /\ request[e] = "enqueue" /\ request' = [request EXCEPT ![e] = "inline"]
        /\ UNCHANGED <<job, dead, row, draft, stored, repeated, lost>>
    BY DEF SkipAdd, Inline, queueVars, history
  <1>3. TypeOK'
    BY Types, <1>1, <1>2, TypesBack DEF TypeOK, RunBecomes
  <1>4. RunsHaveExports'
    BY <1>1 DEF RunsHaveExports, RunBecomes
  <1>5. RequestsFollowRuns'
    BY <1>1, <1>2, Types
      DEF RequestsFollowRuns, On, Locked, NoRow, Runners, RunsHaveExports, RunBecomes
  <1>6. DraftsAreFinal'
    BY <1>1, <1>2, Types DEF DraftsAreFinal, Fits, RequestsFollowRuns, On, RunBecomes
  <1>7. OneSideWorks'
    BY <1>1, <1>2, ExportsAreTasks
      DEF OneSideWorks, On, Owns, Runners, RunsHaveExports, RunBecomes
  <1>8. JobsAreSound'
    BY <1>2 DEF JobsAreSound
  <1>9. FilesAreStored'
    BY <1>1, <1>2 DEF FilesAreStored, At, RunsHaveExports, On, RunBecomes
  <1>10. ThrownIsStored'
    BY <1>1, <1>2
      DEF ThrownIsStored, On, At, Runners, OneSideWorks, RequestsFollowRuns, Owns,
          RunBecomes
  <1>11. DeadAreFailed'
    BY <1>2 DEF DeadAreFailed, On, Owns, Runners, ThrownIsStored, At, RunBecomes
  <1>12. ProcessingIsOwed'
    BY <1>1, <1>2, Types, ExportsAreTasks
      DEF ProcessingIsOwed, RequestsFollowRuns, On, Owing, AtWork, StillOwned, JobsAreSound,
          RunBecomes, NoRow, Closed
  <1>13. CompletedIsOver'
    BY <1>1, <1>2, Types, ExportsAreTasks
      DEF CompletedIsOver, RequestsFollowRuns, On, At, Over, OneSideWorks, Owns,
          RunBecomes, NoRow, Closed
  <1> QED BY <1>3, <1>4, <1>5, <1>6, <1>7, <1>8, <1>9, <1>10, <1>11, <1>12, <1>13

LEMMA AddKeeps ==
    ASSUME ExportInvariant, NEW e \in Exports, Add(e)
    PROVE  ExportInvariant'
  <1> USE DEF ExportInvariant
  <1>1. /\ JobBecomes(e, "sent", job[e].owner, job[e].made) /\ job[e].state = "none"
    BY SendFrame, Types DEF Add
  <1>2. /\ request[e] = "enqueue" /\ request' = [request EXCEPT ![e] = "adding"]
        /\ UNCHANGED <<dead, row, draft, run, stored, repeated, lost>>
    BY SendFrame, Types DEF Add, history
  <1>3. TypeOK'
    BY Types, <1>1, <1>2, TypesBack DEF TypeOK, JobBecomes
  <1>4. RunsHaveExports'
    BY <1>2 DEF RunsHaveExports
  <1>5. RequestsFollowRuns'
    BY <1>2
      DEF RequestsFollowRuns, On, Locked, NoRow, Runners, RunsHaveExports, JobBecomes
  <1>6. DraftsAreFinal'
    BY <1>2 DEF DraftsAreFinal
  <1>7. OneSideWorks'
    BY <1>1, <1>2, Types
      DEF OneSideWorks, On, Owns, Runners, RunsHaveExports, JobBecomes
  <1>8. JobsAreSound'
    BY <1>1 DEF JobsAreSound, JobBecomes
  <1>9. FilesAreStored'
    BY <1>2 DEF FilesAreStored, At, RunsHaveExports, On, JobBecomes
  <1>10. ThrownIsStored'
    BY <1>2
      DEF ThrownIsStored, On, At, Runners, OneSideWorks, RequestsFollowRuns, Owns,
          JobBecomes
  <1>11. DeadAreFailed'
    BY <1>1, <1>2, Types
      DEF DeadAreFailed, On, Owns, Runners, ThrownIsStored, At, JobBecomes
  <1>12. ProcessingIsOwed'
    BY Types, <1>1, <1>2
      DEF ProcessingIsOwed, On, Owing, AtWork, StillOwned, Runners, DraftsAreFinal,
          JobsAreSound, At, Owns, JobBecomes
  <1>13. CompletedIsOver'
    BY <1>1, <1>2, Types
      DEF CompletedIsOver, RequestsFollowRuns, On, At, Over, OneSideWorks, Owns,
          JobBecomes, NoRow, Closed
  <1> QED BY <1>3, <1>4, <1>5, <1>6, <1>7, <1>8, <1>9, <1>10, <1>11, <1>12, <1>13

LEMMA AddArrivesKeeps ==
    ASSUME ExportInvariant, NEW e \in Exports, AddArrives(e)
    PROVE  ExportInvariant'
  <1> USE DEF ExportInvariant
  <1>1. /\ JobBecomes(e, "waiting", job[e].owner, job[e].made) /\ job[e].state = "sent"
    BY ArriveFrame, Types DEF AddArrives
  <1>2. UNCHANGED <<dead, row, draft, request, run, stored, repeated, lost>>
    BY ArriveFrame, Types DEF AddArrives, exportVars, history
  <1>3. TypeOK'
    BY Types, <1>1, <1>2, TypesBack DEF TypeOK, JobBecomes
  <1>4. RunsHaveExports'
    BY <1>2 DEF RunsHaveExports
  <1>5. RequestsFollowRuns'
    BY <1>2
      DEF RequestsFollowRuns, On, Locked, NoRow, Runners, RunsHaveExports, JobBecomes
  <1>6. DraftsAreFinal'
    BY <1>2 DEF DraftsAreFinal
  <1>7. OneSideWorks'
    BY Types, <1>1, <1>2 DEF OneSideWorks, On, Owns, Runners, RunsHaveExports, JobBecomes
  <1>8. JobsAreSound'
    BY <1>1 DEF JobsAreSound, JobBecomes
  <1>9. FilesAreStored'
    BY <1>2 DEF FilesAreStored, At, RunsHaveExports, On, JobBecomes
  <1>10. ThrownIsStored'
    BY <1>2
      DEF ThrownIsStored, On, At, Runners, OneSideWorks, RequestsFollowRuns, Owns,
          JobBecomes
  <1>11. DeadAreFailed'
    BY <1>1, <1>2, Types
      DEF DeadAreFailed, On, Owns, Runners, ThrownIsStored, At, JobBecomes
  <1>12. ProcessingIsOwed'
    BY Types, <1>1, <1>2
      DEF ProcessingIsOwed, On, Owing, AtWork, StillOwned, Runners, DraftsAreFinal,
          JobsAreSound, At, Owns, JobBecomes
  <1>13. CompletedIsOver'
    BY Types, <1>1, <1>2
      DEF CompletedIsOver, On, At, Over, Runners, OneSideWorks, RequestsFollowRuns,
          Owns, DraftsAreFinal, JobBecomes
  <1> QED BY <1>3, <1>4, <1>5, <1>6, <1>7, <1>8, <1>9, <1>10, <1>11, <1>12, <1>13

LEMMA AddResolvesKeeps ==
    ASSUME ExportInvariant, NEW e \in Exports, AddResolves(e)
    PROVE  ExportInvariant'
  <1> USE DEF ExportInvariant
  <1>1. /\ request[e] = "adding" /\ job[e].state # "sent"
        /\ request' = [request EXCEPT ![e] = "answered"]
        /\ UNCHANGED <<job, dead, row, draft, run, stored, repeated, lost>>
    BY DEF AddResolves, queueVars, history
  <1>2. TypeOK'
    BY Types, <1>1, TypesBack DEF TypeOK
  <1>3. RunsHaveExports'
    BY <1>1 DEF RunsHaveExports
  <1>4. RequestsFollowRuns'
    BY <1>1 DEF RequestsFollowRuns, On, Locked, Runners, RunsHaveExports
  <1>5. DraftsAreFinal'
    BY <1>1 DEF DraftsAreFinal
  <1>6. OneSideWorks'
    BY <1>1 DEF OneSideWorks, On, Owns, RunsHaveExports
  <1>7. JobsAreSound'
    BY <1>1 DEF JobsAreSound
  <1>8. FilesAreStored'
    BY <1>1 DEF FilesAreStored, At, On
  <1>9. ThrownIsStored'
    BY <1>1 DEF ThrownIsStored, On, At, OneSideWorks, RequestsFollowRuns, Owns
  <1>10. DeadAreFailed'
    BY <1>1 DEF DeadAreFailed, Owns, Runners, ThrownIsStored, At
  <1>11. ProcessingIsOwed'
    BY <1>1
      DEF ProcessingIsOwed, On, Owing, AtWork, StillOwned, Runners, DraftsAreFinal,
          JobsAreSound, At, Owns
  <1>12. CompletedIsOver'
    BY <1>1
      DEF CompletedIsOver, On, At, Over, Runners, OneSideWorks, RequestsFollowRuns,
          Owns, DraftsAreFinal
  <1> QED BY <1>2, <1>3, <1>4, <1>5, <1>6, <1>7, <1>8, <1>9, <1>10, <1>11, <1>12

LEMMA AddRejectsKeeps ==
    ASSUME ExportInvariant, NEW e \in Exports, AddRejects(e)
    PROVE  ExportInvariant'
  <1> USE DEF ExportInvariant
  <1>1. /\ JobBecomes(e, "none", job[e].owner, job[e].made) /\ job[e].state = "sent"
    BY DropFrame, Types DEF AddRejects
  <1>2. RunBecomes(e, [of |-> e, file |-> 0, step |-> "processing"])
    BY EnterFrame, Types DEF AddRejects, Inline
  <1>3. /\ request[e] = "adding" /\ request' = [request EXCEPT ![e] = "inline"]
        /\ UNCHANGED <<dead, row, draft, stored, repeated, lost>>
    BY DropFrame, Types DEF AddRejects, Inline, history
  <1>4. TypeOK'
    BY Types, <1>1, <1>2, <1>3, TypesBack DEF TypeOK, RunBecomes, JobBecomes
  <1>5. RunsHaveExports'
    BY <1>2 DEF RunsHaveExports, RunBecomes, JobBecomes
  <1>6. RequestsFollowRuns'
    BY <1>2, <1>3, Types
      DEF RequestsFollowRuns, On, Locked, NoRow, Runners, RunsHaveExports, RunBecomes,
          JobBecomes
  <1>7. DraftsAreFinal'
    BY <1>2, <1>3, Types DEF DraftsAreFinal, Fits, RequestsFollowRuns, On, RunBecomes
  <1>8. OneSideWorks'
    BY <1>1, <1>2, <1>3, ExportsAreTasks
      DEF OneSideWorks, On, Owns, Runners, RunsHaveExports, RunBecomes, JobBecomes
  <1>9. JobsAreSound'
    BY <1>1 DEF JobsAreSound, RunBecomes, JobBecomes
  <1>10. FilesAreStored'
    BY <1>2, <1>3
      DEF FilesAreStored, At, Runners, RunsHaveExports, On, RunBecomes, JobBecomes
  <1>11. ThrownIsStored'
    BY <1>2, <1>3
      DEF ThrownIsStored, On, At, Runners, OneSideWorks, RequestsFollowRuns, Owns,
          RunBecomes, JobBecomes
  <1>12. DeadAreFailed'
    BY <1>1, <1>3, Types
      DEF DeadAreFailed, RequestsFollowRuns, On, Owns, Runners, ThrownIsStored, At,
          RunBecomes, JobBecomes
  <1>13. ProcessingIsOwed'
    BY <1>1, <1>2, <1>3, Types, ExportsAreTasks
      DEF ProcessingIsOwed, RequestsFollowRuns, On, Owing, AtWork, StillOwned, JobsAreSound,
          RunBecomes, JobBecomes, NoRow, Closed
  <1>14. CompletedIsOver'
    BY Types, <1>1, <1>2, <1>3
      DEF CompletedIsOver, On, At, Over, Runners, OneSideWorks, RequestsFollowRuns,
          Owns, DraftsAreFinal, RunBecomes, JobBecomes
  <1> QED BY <1>4, <1>5, <1>6, <1>7, <1>8, <1>9, <1>10, <1>11, <1>12, <1>13, <1>14

LEMMA AddTimesOutKeeps ==
    ASSUME ExportInvariant, NEW e \in Exports, AddTimesOut(e)
    PROVE  ExportInvariant'
  <1> USE DEF ExportInvariant
  <1>1. RunBecomes(e, [of |-> e, file |-> 0, step |-> "processing"])
    BY EnterFrame, Types DEF AddTimesOut, Inline
  <1>2. /\ request[e] = "adding" /\ request' = [request EXCEPT ![e] = "inline"]
        /\ repeated' = repeated \cup {e}
        /\ UNCHANGED <<job, dead, row, draft, stored, lost>>
    BY DEF AddTimesOut, Inline, queueVars
  <1>3. TypeOK'
    BY Types, <1>1, <1>2, TypesBack DEF TypeOK, RunBecomes
  <1>4. RunsHaveExports'
    BY <1>1 DEF RunsHaveExports, RunBecomes
  <1>5. RequestsFollowRuns'
    BY <1>1, <1>2, Types
      DEF RequestsFollowRuns, On, Locked, NoRow, Runners, RunsHaveExports, RunBecomes
  <1>6. DraftsAreFinal'
    BY <1>1, <1>2, Types DEF DraftsAreFinal, Fits, RequestsFollowRuns, On, RunBecomes
  <1>7. OneSideWorks'
    BY <1>1, <1>2 DEF OneSideWorks, On, Owns, Runners, RunsHaveExports, RunBecomes
  <1>8. JobsAreSound'
    BY <1>2 DEF JobsAreSound
  <1>9. FilesAreStored'
    BY <1>1, <1>2 DEF FilesAreStored, At, RunsHaveExports, On, RunBecomes
  <1>10. ThrownIsStored'
    BY <1>1, <1>2
      DEF ThrownIsStored, On, At, Runners, OneSideWorks, RequestsFollowRuns, Owns,
          RunBecomes
  <1>11. DeadAreFailed'
    BY <1>2 DEF DeadAreFailed, On, Owns, Runners, ThrownIsStored, At, RunBecomes
  <1>12. ProcessingIsOwed'
    BY <1>1, <1>2, Types, ExportsAreTasks
      DEF ProcessingIsOwed, RequestsFollowRuns, On, Owing, AtWork, StillOwned, JobsAreSound,
          RunBecomes, NoRow, Closed
  <1>13. CompletedIsOver'
    BY <1>1, <1>2
      DEF CompletedIsOver, On, At, Over, Runners, OneSideWorks, RequestsFollowRuns,
          Owns, DraftsAreFinal, RunBecomes
  <1> QED BY <1>3, <1>4, <1>5, <1>6, <1>7, <1>8, <1>9, <1>10, <1>11, <1>12, <1>13

LEMMA InlineEndsKeeps ==
    ASSUME ExportInvariant, NEW e \in Exports, InlineEnds(e)
    PROVE  ExportInvariant'
  <1> USE DEF ExportInvariant
  <1>1. /\ On(e, e) /\ request[e] = "inline"
        /\ At(e, "resolved") \/ At(e, "thrown")
    BY ExportsAreTasks
      DEF InlineEnds, RunsHaveExports, RequestsFollowRuns, At, On, Off, Runners
  <1>2. /\ IF Locked(e) THEN RowBecomes(e, draft[e]) ELSE row' = row
        /\ DraftBecomes(e, NoRow)
    BY Types DEF InlineEnds, Commit, RowBecomes, DraftBecomes, Locked, NoRow, RowRecords,
                 DraftRecords
  <1>3. RunBecomes(e, Off)
    BY OffFrame, Types DEF InlineEnds
  <1>4. /\ request' = [request EXCEPT ![e] = "answered"]
        /\ UNCHANGED <<job, dead, stored, repeated, lost>>
    BY DEF InlineEnds, queueVars, history
  <1>5. TypeOK'
    BY Types, <1>2, <1>3, <1>4, TypesBack
      DEF TypeOK, RunBecomes, RowBecomes, DraftBecomes
  <1>6. RunsHaveExports'
    BY <1>3
      DEF RunsHaveExports, Runners, RunBecomes, RowBecomes, DraftBecomes, Off, NoRow
  <1>7. RequestsFollowRuns'
    BY <1>2, <1>3, <1>4, Types, ExportsAreTasks
      DEF RequestsFollowRuns, On, Locked, NoRow, Runners, RunsHaveExports, RunBecomes,
          RowBecomes, DraftBecomes, Off
  <1>8. DraftsAreFinal'
    BY <1>2, <1>3, Types DEF DraftsAreFinal, Fits, RunBecomes, DraftBecomes, Off
  <1>9. OneSideWorks'
    BY <1>3, <1>4, ExportsAreTasks
      DEF OneSideWorks, On, Owns, Runners, RunsHaveExports, RunBecomes, RowBecomes,
          DraftBecomes, Off, NoRow
  <1>10. JobsAreSound'
    BY <1>4 DEF JobsAreSound, Owns, RunBecomes, RowBecomes, DraftBecomes, Off, NoRow
  <1>11. FilesAreStored'
    BY <1>2, <1>3, <1>4
      DEF FilesAreStored, Locked, At, Runners, RunsHaveExports, On, RunBecomes, RowBecomes,
          DraftBecomes, Off, NoRow
  <1>12. ThrownIsStored'
    BY <1>1, <1>2, <1>3, <1>4
      DEF ThrownIsStored, On, At, Runners, OneSideWorks, RequestsFollowRuns, Owns,
          RunBecomes, RowBecomes, DraftBecomes, Off, NoRow
  <1>13. DeadAreFailed'
    BY <1>1, <1>2, <1>4, Types
      DEF DeadAreFailed, OneSideWorks, RequestsFollowRuns, On, Owns, Runners,
          ThrownIsStored, At, RunBecomes, RowBecomes, DraftBecomes, Off, NoRow
  <1>14. ProcessingIsOwed'
    <2> SUFFICES ASSUME NEW d \in Exports \ lost, row'[d].status = "PROCESSING"
                 PROVE  Owing(d)' \/ job'[d].state = "waiting" \/ StillOwned(d)'
      BY <1>4 DEF ProcessingIsOwed
    <2>1. e \notin Workers /\ \A y \in Runners \ {e} : run'[y] = run[y]
      BY <1>3, ExportsAreTasks DEF RunBecomes
    <2>2. row'[d] = row[d]
      BY <1>1, <1>2 DEF RowBecomes, Locked, DraftsAreFinal, Fits, At
    <2>3. ~ AtWork(e, e) /\ \A y \in Exports \ {e} : draft'[y] = draft[y]
      BY <1>1, <1>2 DEF AtWork, At, DraftBecomes
    <2>4. Owing(d) => Owing(d)'
      BY <2>1, <2>3, Types DEF Owing, AtWork, On
    <2>5. StillOwned(d) => StillOwned(d)'
      BY <1>4, <2>1, Types DEF StillOwned, JobsAreSound, On
    <2> QED BY <1>4, <2>2, <2>4, <2>5 DEF ProcessingIsOwed
  <1>15. CompletedIsOver'
    <2> SUFFICES ASSUME NEW d \in Exports \ repeated, row'[d].status = "COMPLETED"
                 PROVE  Over(d)'
      BY <1>4 DEF CompletedIsOver
    <2>1. CASE d = e
      <3>1. job[e].state = "none"
        BY <1>1, <2>1 DEF OneSideWorks
      <3> QED BY <1>4, <2>1, <3>1, Types DEF Over
    <2>2. CASE d # e
      <3>1. row'[d] = row[d] /\ draft'[d] = draft[d]
        BY <1>2, <2>2 DEF RowBecomes, DraftBecomes
      <3>2. \A y \in Workers \cup {d} : run'[y] = run[y]
        BY <1>3, <2>2, Types, ExportsAreTasks DEF RunBecomes
      <3> QED BY <1>4, <2>2, <3>1, <3>2, Types DEF CompletedIsOver, Over, On, At
    <2> QED BY <2>1, <2>2
  <1> QED BY <1>5, <1>6, <1>7, <1>8, <1>9, <1>10, <1>11, <1>12, <1>13, <1>14, <1>15

LEMMA HangUpKeeps ==
    ASSUME ExportInvariant, NEW e \in Exports, HangUp(e)
    PROVE  ExportInvariant'
  <1> USE DEF ExportInvariant
  <1>1. /\ On(e, e) /\ request[e] = "inline" /\ draft[e] # Closed
    BY DEF HangUp, RequestsFollowRuns
  <1>2. /\ IF Locked(e) THEN RowBecomes(e, draft[e]) ELSE row' = row
        /\ DraftBecomes(e, Closed)
    BY Types DEF HangUp, Commit, RowBecomes, DraftBecomes, Locked, DraftRecords
  <1>3. UNCHANGED <<job, dead, request, run, stored, repeated, lost>>
    BY DEF HangUp, queueVars, history
  <1>4. /\ draft[e].status = "PROCESSING" => AtWork(e, e)
        /\ draft[e].status = "COMPLETED" => At(e, "resolved")
    BY <1>1 DEF DraftsAreFinal, Fits, AtWork, At, NoRow
  <1>5. TypeOK'
    BY Types, <1>2, <1>3, TypesBack DEF TypeOK, RowBecomes, DraftBecomes
  <1>6. RunsHaveExports'
    BY <1>3 DEF RunsHaveExports
  <1>7. RequestsFollowRuns'
    BY <1>1, <1>2, <1>3 DEF RequestsFollowRuns, On, DraftBecomes
  <1>8. DraftsAreFinal'
    BY <1>2, <1>3 DEF DraftsAreFinal, Fits, DraftBecomes
  <1>9. OneSideWorks'
    BY <1>3 DEF OneSideWorks, On, Owns
  <1>10. JobsAreSound'
    BY <1>3 DEF JobsAreSound
  <1>11. FilesAreStored'
    BY <1>2, <1>3 DEF FilesAreStored, At, RowBecomes, DraftBecomes, Closed, Locked
  <1>12. ThrownIsStored'
    BY <1>1, <1>2, <1>3
      DEF ThrownIsStored, On, At, OneSideWorks, Owns, RowBecomes
  <1>13. DeadAreFailed'
    BY <1>1, <1>2, <1>3 DEF DeadAreFailed, OneSideWorks, RowBecomes
  <1>14. ProcessingIsOwed'
    <2> SUFFICES ASSUME NEW d \in Exports \ lost, row'[d].status = "PROCESSING"
                 PROVE  Owing(d)' \/ job'[d].state = "waiting" \/ StillOwned(d)'
      BY <1>3 DEF ProcessingIsOwed
    <2>1. CASE row'[d] = row[d]
      <3>1. draft'[d] = draft[d] \/ draft'[d] = Closed
        BY <1>2 DEF DraftBecomes
      <3> QED BY <1>3, <2>1, <3>1 DEF ProcessingIsOwed, Owing, AtWork, On, StillOwned
    <2>2. CASE row'[d] # row[d]
      <3>1. d = e /\ draft[e].status = "PROCESSING" /\ draft'[e] = Closed
        BY <1>2, <2>2 DEF RowBecomes, DraftBecomes
      <3>2. AtWork(e, e)
        BY <1>4, <3>1
      <3> QED BY <1>3, <3>1, <3>2 DEF Owing, AtWork, On
    <2> QED BY <2>1, <2>2
  <1>15. CompletedIsOver'
    <2> SUFFICES ASSUME NEW d \in Exports \ repeated, row'[d].status = "COMPLETED"
                 PROVE  Over(d)'
      BY <1>3 DEF CompletedIsOver
    <2>1. CASE d # e
      BY <1>2, <1>3, <2>1 DEF CompletedIsOver, Over, On, At, RowBecomes, DraftBecomes
    <2>2. CASE d = e
      <3>1. job[e].state = "none" /\ draft'[e] = Closed
        BY <1>1, <1>2, <2>2 DEF OneSideWorks, DraftBecomes
      <3>2. draft[e].status = "COMPLETED"
        BY <1>1, <1>2, <2>2, <3>1 DEF CompletedIsOver, Over, RowBecomes
      <3>3. At(e, "resolved")
        BY <1>4, <3>2
      <3> QED BY <1>3, <2>2, <3>1, <3>3 DEF Over, At
    <2> QED BY <2>1, <2>2
  <1> QED BY <1>5, <1>6, <1>7, <1>8, <1>9, <1>10, <1>11, <1>12, <1>13, <1>14, <1>15

LEMMA RollBackKeeps ==
    ASSUME ExportInvariant, NEW e \in Exports, RollBack(e)
    PROVE  ExportInvariant'
  <1> USE DEF ExportInvariant
  <1>1. On(e, e)
    BY DEF RollBack, RequestsFollowRuns, Locked
  <1>2. DraftBecomes(e, Closed)
    BY Types DEF RollBack, DraftBecomes, DraftRecords
  <1>3. /\ lost' = lost \cup {e}
        /\ UNCHANGED <<job, dead, row, request, run, stored, repeated>>
    BY DEF RollBack, queueVars
  <1>4. TypeOK'
    BY Types, <1>2, <1>3, TypesBack DEF TypeOK, DraftBecomes
  <1>5. RunsHaveExports'
    BY <1>3 DEF RunsHaveExports
  <1>6. RequestsFollowRuns'
    BY <1>1, <1>2, <1>3 DEF RequestsFollowRuns, On, DraftBecomes
  <1>7. DraftsAreFinal'
    BY <1>2, <1>3 DEF DraftsAreFinal, Fits, DraftBecomes
  <1>8. OneSideWorks' /\ JobsAreSound'
    BY <1>3 DEF OneSideWorks, On, Owns, JobsAreSound
  <1>9. FilesAreStored'
    BY <1>2, <1>3 DEF FilesAreStored, At, DraftBecomes, Closed
  <1>10. ThrownIsStored' /\ DeadAreFailed'
    BY <1>3 DEF ThrownIsStored, DeadAreFailed, On, At
  <1>11. ProcessingIsOwed'
    BY <1>2, <1>3 DEF ProcessingIsOwed, Owing, AtWork, On, StillOwned, DraftBecomes
  <1>12. CompletedIsOver'
    BY <1>2, <1>3 DEF CompletedIsOver, Over, On, At, DraftBecomes
  <1> QED BY <1>4, <1>5, <1>6, <1>7, <1>8, <1>9, <1>10, <1>11, <1>12

LEMMA CutOffKeeps ==
    ASSUME ExportInvariant, NEW e \in Exports, CutOff(e)
    PROVE  ExportInvariant'
  <1> USE DEF ExportInvariant
  <1>1. On(e, e) /\ draft[e] = Closed /\ e \notin Workers
    BY ExportsAreTasks DEF CutOff, RequestsFollowRuns, Closed, NoRow
  <1>2. /\ At(e, "processing") \/ At(e, "failed") \/ At(e, "complete")
        /\ \E s \in {"failed", "thrown"} :
             RunBecomes(e, [of |-> e, file |-> 0, step |-> s])
    BY <1>1, GotoFrame, Types DEF CutOff, On, RunSteps
  <1>3. /\ lost' = lost \cup {e}
        /\ UNCHANGED <<job, dead, row, draft, request, stored, repeated>>
    BY DEF CutOff, queueVars
  <1>4. TypeOK'
    BY Types, <1>2, <1>3, TypesBack DEF TypeOK, RunBecomes
  <1>5. RunsHaveExports'
    BY <1>2 DEF RunsHaveExports, RunBecomes
  <1>6. RequestsFollowRuns'
    BY <1>1, <1>2, <1>3, Types DEF RequestsFollowRuns, On, RunBecomes
  <1>7. DraftsAreFinal'
    BY <1>1, <1>2, <1>3, Types DEF DraftsAreFinal, Fits, RunBecomes
  <1>8. OneSideWorks'
    BY <1>1, <1>2, <1>3, Types DEF OneSideWorks, On, Owns, RunBecomes
  <1>9. JobsAreSound'
    BY <1>3 DEF JobsAreSound
  <1>10. FilesAreStored'
    BY <1>2, <1>3 DEF FilesAreStored, At, RunBecomes
  <1>11. ThrownIsStored'
    BY <1>1, <1>2, <1>3, Types DEF ThrownIsStored, On, At, RunBecomes
  <1>12. DeadAreFailed'
    BY <1>3 DEF DeadAreFailed
  <1>13. ProcessingIsOwed'
    <2>1. \A y \in Runners \ {e} : run'[y] = run[y]
      BY <1>2 DEF RunBecomes
    <2>2. ASSUME NEW d \in Exports \ lost', StillOwned(d) PROVE StillOwned(d)'
      BY <1>1, <1>3, <2>1, <2>2, Types DEF StillOwned, On, JobsAreSound
    <2>3. ASSUME NEW d \in Exports \ lost', Owing(d) PROVE Owing(d)'
      BY <1>1, <1>3, <2>1, <2>3, Types DEF Owing, AtWork, On
    <2> QED BY <1>3, <2>2, <2>3 DEF ProcessingIsOwed
  <1>14. CompletedIsOver'
    BY <1>1, <1>2, <1>3, Types DEF CompletedIsOver, Over, On, At, RunBecomes
  <1> QED BY <1>4, <1>5, <1>6, <1>7, <1>8, <1>9, <1>10, <1>11, <1>12, <1>13, <1>14

LEMMA RequestDiesKeeps ==
    ASSUME ExportInvariant, NEW e \in Exports, RequestDies(e)
    PROVE  ExportInvariant'
  <1> USE DEF ExportInvariant
  <1>1. JobBecomes(e, IF job[e].state = "sent" THEN "none" ELSE job[e].state,
                   job[e].owner, job[e].made)
    BY DropFrame, Types DEF RequestDies
  <1>2. DraftBecomes(e, NoRow)
    BY Types DEF RequestDies, DraftBecomes, NoRow, RowRecords, DraftRecords
  <1>3. RunBecomes(e, Off)
    BY OffFrame, Types DEF RequestDies
  <1>4. /\ request[e] \in {"enqueue", "adding", "inline"}
        /\ request' = [request EXCEPT ![e] = "answered"]
        /\ lost' = lost \cup {e} /\ UNCHANGED <<dead, row, stored, repeated>>
    BY DropFrame, Types DEF RequestDies
  <1>5. TypeOK'
    BY Types, <1>1, <1>2, <1>3, <1>4, TypesBack
      DEF TypeOK, RunBecomes, JobBecomes, DraftBecomes
  <1>6. RunsHaveExports'
    BY <1>3
      DEF RunsHaveExports, Runners, RunBecomes, JobBecomes, DraftBecomes, Off, NoRow
  <1>7. RequestsFollowRuns'
    BY <1>2, <1>3, <1>4, Types, ExportsAreTasks
      DEF RequestsFollowRuns, On, Locked, NoRow, Runners, RunsHaveExports, RunBecomes,
          JobBecomes, DraftBecomes, Off
  <1>8. DraftsAreFinal'
    BY <1>2, <1>3, Types DEF DraftsAreFinal, Fits, RunBecomes, DraftBecomes, Off
  <1>9. OneSideWorks'
    BY <1>1, <1>3, <1>4, ExportsAreTasks
      DEF OneSideWorks, On, Owns, Runners, RunsHaveExports, RunBecomes, JobBecomes,
          DraftBecomes, Off, NoRow
  <1>10. JobsAreSound'
    BY <1>1 DEF JobsAreSound, Owns, RunBecomes, JobBecomes, DraftBecomes, Off, NoRow
  <1>11. FilesAreStored'
    BY <1>2, <1>3, <1>4
      DEF FilesAreStored, At, Runners, RunsHaveExports, On, RunBecomes, JobBecomes,
          DraftBecomes, Off, NoRow
  <1>12. ThrownIsStored'
    BY <1>3, <1>4
      DEF ThrownIsStored, On, At, Runners, OneSideWorks, RequestsFollowRuns, Owns,
          RunBecomes, JobBecomes, DraftBecomes, Off, NoRow
  <1>13. DeadAreFailed'
    BY <1>1, <1>4, Types
      DEF DeadAreFailed, OneSideWorks, RequestsFollowRuns, On, Owns, Runners,
          ThrownIsStored, At, RunBecomes, JobBecomes, DraftBecomes, Off, NoRow
  <1>14. ProcessingIsOwed'
    BY <1>1, <1>2, <1>3, <1>4, Types, ExportsAreTasks
      DEF ProcessingIsOwed, RequestsFollowRuns, On, Owing, AtWork, StillOwned, JobsAreSound,
          RunBecomes, JobBecomes, DraftBecomes, Off
  <1>15. CompletedIsOver'
    <2> SUFFICES ASSUME NEW d \in Exports \ repeated, row[d].status = "COMPLETED"
                 PROVE  Over(d)'
      BY <1>4 DEF CompletedIsOver
    <2>1. Over(d) /\ d \in Tasks
      BY Types DEF CompletedIsOver
    <2>2. CASE d = e
      <3>1. job[e].state # "sent" => job'[e].state = job[e].state
        BY <1>1 DEF JobBecomes
      <3>2. request'[e] = "answered"
        BY <1>4, Types
      <3>3. \A w \in Workers : run'[w] = run[w]
        BY <1>3, Types, ExportsAreTasks DEF RunBecomes
      <3> QED BY <2>1, <2>2, <3>1, <3>2, <3>3 DEF Over, On, At
    <2>3. CASE d # e
      <3>1. job'[d] = job[d] /\ draft'[d] = draft[d] /\ request'[d] = request[d]
        BY <1>1, <1>2, <1>4, <2>1, <2>3, Types DEF JobBecomes, DraftBecomes
      <3>2. \A y \in Workers \cup {d} : run'[y] = run[y]
        BY <1>3, <2>3, Types, ExportsAreTasks DEF RunBecomes
      <3> QED BY <2>1, <3>1, <3>2 DEF Over, On, At
    <2> QED BY <2>2, <2>3
  <1> QED BY <1>5, <1>6, <1>7, <1>8, <1>9, <1>10, <1>11, <1>12, <1>13, <1>14, <1>15

LEMMA JobStallsKeeps ==
    ASSUME ExportInvariant, NEW e \in Exports, JobStalls(e)
    PROVE  ExportInvariant'
  <1> USE DEF ExportInvariant
  <1>1. /\ job[e].state = "active"
        /\ JobBecomes(e, IF job[e].stalls < MaxStalls THEN "waiting" ELSE "failed",
                         Nobody, job[e].made)
    BY StallsFrame, Types DEF JobStalls
  <1>2. /\ repeated' = repeated \cup {e}
        /\ lost' = (IF job[e].stalls < MaxStalls THEN lost ELSE lost \cup {e})
        /\ UNCHANGED <<dead, row, draft, request, run, stored>>
    BY StallsFrame, Types DEF JobStalls, exportVars
  <1>3. TypeOK'
    BY Types, <1>1, <1>2, TypesBack DEF TypeOK, JobBecomes
  <1>4. RunsHaveExports'
    BY <1>2 DEF RunsHaveExports
  <1>5. RequestsFollowRuns'
    BY <1>2
      DEF RequestsFollowRuns, On, Locked, NoRow, Runners, RunsHaveExports, JobBecomes
  <1>6. DraftsAreFinal'
    BY <1>2 DEF DraftsAreFinal
  <1>7. OneSideWorks'
    BY Types, <1>1, <1>2 DEF OneSideWorks, On, Owns, Runners, RunsHaveExports, JobBecomes
  <1>8. JobsAreSound'
    BY <1>1 DEF JobsAreSound, JobBecomes
  <1>9. FilesAreStored'
    BY <1>2 DEF FilesAreStored, At, RunsHaveExports, On, JobBecomes
  <1>10. ThrownIsStored'
    BY <1>2
      DEF ThrownIsStored, On, At, Runners, OneSideWorks, RequestsFollowRuns, Owns,
          JobBecomes
  <1>11. DeadAreFailed'
    BY <1>1, <1>2, Types
      DEF DeadAreFailed, On, Owns, Runners, ThrownIsStored, At, JobBecomes
  <1>12. ProcessingIsOwed'
    BY Types, <1>1, <1>2
      DEF ProcessingIsOwed, On, Owing, AtWork, StillOwned, Runners, DraftsAreFinal,
          JobsAreSound, At, Owns, JobBecomes
  <1>13. CompletedIsOver'
    BY Types, <1>1, <1>2
      DEF CompletedIsOver, On, At, Over, Runners, OneSideWorks, RequestsFollowRuns,
          Owns, DraftsAreFinal, JobBecomes
  <1> QED BY <1>3, <1>4, <1>5, <1>6, <1>7, <1>8, <1>9, <1>10, <1>11, <1>12, <1>13

LEMMA WorkerTakesKeeps ==
    ASSUME ExportInvariant, NEW w \in Workers, NEW e \in Exports, WorkerTakes(w, e)
    PROVE  ExportInvariant'
  <1> USE DEF ExportInvariant
  <1>1. /\ JobBecomes(e, "active", w, job[e].made)
        /\ job[e].state \in {"waiting", "delayed"}
    BY TakeFrame, Types DEF WorkerTakes
  <1>2. /\ run[w] = Off /\ RunBecomes(w, [of |-> e, file |-> 0, step |-> "processing"])
    BY EnterFrame, Types DEF WorkerTakes
  <1>3. UNCHANGED <<dead, row, draft, request, stored, repeated, lost>>
    BY TakeFrame, Types DEF WorkerTakes, history
  <1>4. TypeOK'
    BY Types, <1>1, <1>2, <1>3, TypesBack DEF TypeOK, RunBecomes, JobBecomes
  <1>5. RunsHaveExports'
    BY <1>2 DEF RunsHaveExports, RunBecomes, JobBecomes, Off, NoRow
  <1>6. RequestsFollowRuns'
    BY <1>2, <1>3, ExportsAreTasks
      DEF RequestsFollowRuns, On, Locked, NoRow, Runners, RunsHaveExports, RunBecomes,
          JobBecomes, Off
  <1>7. DraftsAreFinal'
    BY <1>2, <1>3, Types, ExportsAreTasks DEF DraftsAreFinal, RunBecomes
  <1>8. OneSideWorks'
    BY Types, <1>1, <1>2, <1>3
      DEF OneSideWorks, On, Owns, Runners, RunsHaveExports, RunBecomes, JobBecomes, Off,
          NoRow
  <1>9. JobsAreSound'
    BY <1>1 DEF JobsAreSound, RunBecomes, JobBecomes, Off, NoRow
  <1>10. FilesAreStored'
    BY <1>2, <1>3
      DEF FilesAreStored, At, Runners, RunsHaveExports, On, RunBecomes, JobBecomes, Off,
          NoRow
  <1>11. ThrownIsStored'
    BY <1>2, <1>3
      DEF ThrownIsStored, On, At, Runners, OneSideWorks, RequestsFollowRuns, Owns,
          RunBecomes, JobBecomes, Off, NoRow
  <1>12. DeadAreFailed'
    BY <1>1, <1>3, Types
      DEF DeadAreFailed, RequestsFollowRuns, On, Owns, Runners, ThrownIsStored, At,
          RunBecomes, JobBecomes, Off, NoRow
  <1>13. ProcessingIsOwed'
    <2> SUFFICES ASSUME NEW d \in Exports \ lost, row[d].status = "PROCESSING"
                 PROVE  Owing(d)' \/ job'[d].state = "waiting" \/ StillOwned(d)'
      BY <1>3 DEF ProcessingIsOwed
    <2>1. Owing(d) \/ job[d].state = "waiting" \/ StillOwned(d)
      BY DEF ProcessingIsOwed
    <2>2. Owing(d) => Owing(d)'
      BY <1>2, <1>3, <2>1, ExportsAreTasks DEF Owing, AtWork, On, Runners, RunBecomes, Off
    <2>3. CASE d = e
      <3>1. job'[e].state = "active" /\ job'[e].owner = w /\ run'[w].step = "processing"
        BY <1>1, <1>2 DEF JobBecomes, RunBecomes
      <3> QED BY <2>3, <3>1 DEF StillOwned
    <2>4. CASE d # e
      <3>1. job'[d] = job[d]
        BY <1>1, <2>4, Types DEF JobBecomes
      <3>2. StillOwned(d) => job[d].owner \in Runners
        BY Types DEF StillOwned, JobsAreSound, Runners
      <3>3. StillOwned(d) => StillOwned(d)'
        BY <1>2, <2>4, <3>1, <3>2 DEF StillOwned, On, RunBecomes
      <3> QED BY <2>1, <2>2, <3>1, <3>3
    <2> QED BY <2>3, <2>4
  <1>14. CompletedIsOver'
    <2> SUFFICES ASSUME NEW d \in Exports \ repeated, row[d].status = "COMPLETED"
                 PROVE  Over(d)'
      BY <1>3 DEF CompletedIsOver
    <2>1. Over(d)
      BY DEF CompletedIsOver
    <2>2. d # e
      BY <1>1, <2>1 DEF Over
    <2>3. job'[d] = job[d]
      BY <1>1, <2>2, Types DEF JobBecomes
    <2>4. \A y \in Runners : On(y, d)' => On(y, d) /\ run'[y] = run[y]
      BY <1>2, <2>2 DEF On, RunBecomes
    <2>5. run'[d] = run[d]
      BY <1>2, Types, ExportsAreTasks DEF RunBecomes
    <2> QED BY <1>3, <2>1, <2>3, <2>4, <2>5, Types DEF Over, At
  <1> QED BY <1>4, <1>5, <1>6, <1>7, <1>8, <1>9, <1>10, <1>11, <1>12, <1>13, <1>14

LEMMA MarkProcessingKeeps ==
    ASSUME ExportInvariant, NEW x \in Runners, MarkProcessing(x)
    PROVE  ExportInvariant'
  <1> USE DEF ExportInvariant
  <1>1. /\ run[x].of \in Exports /\ (x \in Workers \/ x = run[x].of)
        /\ (x = run[x].of <=> x \notin Workers) /\ (x = run[x].of => request[x] = "inline")
    BY ExportsAreTasks
      DEF RunsHaveExports, RequestsFollowRuns, On, Off, At, MarkProcessing
  <1>2. /\ At(x, "processing")
        /\ RunBecomes(x, [of |-> run[x].of, file |-> 0, step |-> "generate"])
    BY GotoFrame DEF MarkProcessing, RunSteps
  <1>3. \E f \in Nat : IF x = run[x].of
             THEN DraftBecomes(x, [status |-> "PROCESSING", file |-> f])
                  /\ row' = row /\ draft[x] # Closed
             ELSE /\ RowBecomes(run[x].of, [status |-> "PROCESSING", file |-> f])
                  /\ draft' = draft /\ ~ Locked(run[x].of)
    BY <1>1, WriteStatusFrame DEF MarkProcessing, Statuses
  <1>4. UNCHANGED <<job, dead, request, stored, repeated, lost>>
    BY DEF MarkProcessing, queueVars, history
  <1>5. TypeOK'
    BY Types, <1>2, <1>3, <1>4, TypesBack
      DEF TypeOK, RunBecomes, RowBecomes, DraftBecomes
  <1>6. RunsHaveExports'
    BY <1>1, <1>2 DEF RunsHaveExports, Runners, RunBecomes, RowBecomes, DraftBecomes
  <1>7. RequestsFollowRuns'
    BY <1>2, <1>3, <1>4
      DEF RequestsFollowRuns, On, Locked, NoRow, Runners, RunsHaveExports, RunBecomes,
          RowBecomes, DraftBecomes
  <1>8. DraftsAreFinal'
    BY <1>1, <1>2, <1>3, Types, ExportsAreTasks
      DEF DraftsAreFinal, Fits, RunBecomes, DraftBecomes
  <1>9. OneSideWorks'
    BY <1>2, <1>4
      DEF OneSideWorks, On, Owns, Runners, RunsHaveExports, RunBecomes, RowBecomes,
          DraftBecomes
  <1>10. JobsAreSound'
    BY <1>4 DEF JobsAreSound, Owns, RunBecomes, RowBecomes, DraftBecomes
  <1>11. FilesAreStored'
    BY <1>2, <1>3, <1>4
      DEF FilesAreStored, At, Runners, RunsHaveExports, On, RunBecomes, RowBecomes,
          DraftBecomes
  <1>12. ThrownIsStored'
    BY <1>1, <1>2, <1>3, <1>4
      DEF ThrownIsStored, On, At, Runners, OneSideWorks, RequestsFollowRuns, Owns,
          RunBecomes, RowBecomes, DraftBecomes
  <1>13. DeadAreFailed'
    BY <1>1, <1>3, <1>4, Types
      DEF DeadAreFailed, OneSideWorks, RequestsFollowRuns, On, Owns, Runners,
          ThrownIsStored, At, RunBecomes, RowBecomes, DraftBecomes
  <1>14. ProcessingIsOwed'
    <2> SUFFICES ASSUME NEW d \in Exports \ lost, row'[d].status = "PROCESSING"
                 PROVE  Owing(d)' \/ job'[d].state = "waiting" \/ StillOwned(d)'
      BY <1>4 DEF ProcessingIsOwed
    <2>1. \A y \in Runners \ {x} : run'[y] = run[y]
      BY <1>2 DEF RunBecomes
    <2>2. StillOwned(d) => job[d].owner \in Runners
      BY Types DEF StillOwned, JobsAreSound
    <2>3. CASE x = run[x].of
      <3>1. row' = row /\ draft[x] # Closed /\ \A y \in Exports \ {x} : draft'[y] = draft[y]
        BY <1>3, <2>3 DEF DraftBecomes
      <3>2. x \notin Workers
        BY <1>1, <2>3
      <3>3. Owing(d) => Owing(d)'
        BY <2>1, <3>1, <3>2, Types DEF Owing, AtWork, On
      <3>4. StillOwned(d) => StillOwned(d)'
        BY <1>4, <2>1, <3>2, Types DEF StillOwned, JobsAreSound, On
      <3> QED BY <1>4, <3>1, <3>3, <3>4 DEF ProcessingIsOwed
    <2>4. CASE x # run[x].of
      <3>1. x \in Workers /\ draft' = draft /\ x \notin Exports
        BY <1>1, <1>3, <2>4, ExportsAreTasks
      <3>2. CASE d = run[x].of
        BY <1>2, <3>1, <3>2 DEF Owing, AtWork, On, RunBecomes
      <3>3. CASE d # run[x].of
        <4>1. row'[d] = row[d]
          BY <1>3, <2>4, <3>3 DEF RowBecomes
        <4>2. Owing(d) => Owing(d)'
          BY <2>1, <3>1, <3>3, Types DEF Owing, AtWork, On
        <4>3. StillOwned(d) => StillOwned(d)'
          BY <1>2, <1>4, <2>1, <2>2, <3>3 DEF StillOwned, On, RunBecomes
        <4> QED BY <1>4, <4>1, <4>2, <4>3 DEF ProcessingIsOwed
      <3> QED BY <3>2, <3>3
    <2> QED BY <2>3, <2>4
  <1>15. CompletedIsOver'
    BY <1>2, <1>3, <1>4
      DEF CompletedIsOver, On, At, Over, Runners, OneSideWorks, RequestsFollowRuns,
          Owns, DraftsAreFinal, RunBecomes, RowBecomes, DraftBecomes
  <1> QED BY <1>5, <1>6, <1>7, <1>8, <1>9, <1>10, <1>11, <1>12, <1>13, <1>14, <1>15

LEMMA GenerateKeeps ==
    ASSUME ExportInvariant, NEW x \in Runners, Generate(x)
    PROVE  ExportInvariant'
  <1> USE DEF ExportInvariant
  <1>1. /\ run[x].of \in Exports /\ (x \in Workers \/ x = run[x].of)
        /\ (x = run[x].of <=> x \notin Workers) /\ (x = run[x].of => request[x] = "inline")
    BY ExportsAreTasks DEF RunsHaveExports, RequestsFollowRuns, On, Off, At, Generate
  <1>2. /\ At(x, "generate")
        /\ \E s \in {"upload", "failed"} :
             RunBecomes(x, [of |-> run[x].of, file |-> 0, step |-> s])
    BY GotoFrame DEF Generate, RunSteps
  <1>3. UNCHANGED <<job, dead, row, draft, request, stored, repeated, lost>>
    BY DEF Generate, queueVars, history
  <1>4. TypeOK'
    BY Types, <1>2, <1>3, TypesBack DEF TypeOK, RunBecomes
  <1>5. RunsHaveExports'
    BY <1>1, <1>2 DEF RunsHaveExports, RunBecomes
  <1>6. RequestsFollowRuns'
    BY <1>2, <1>3
      DEF RequestsFollowRuns, On, Locked, NoRow, Runners, RunsHaveExports, RunBecomes
  <1>7. DraftsAreFinal'
    BY <1>1, <1>2, <1>3, Types
      DEF DraftsAreFinal, Fits, At, RunBecomes, StoresFile, Closed, NoRow
  <1>8. OneSideWorks'
    BY <1>2, <1>3 DEF OneSideWorks, On, Owns, Runners, RunsHaveExports, RunBecomes
  <1>9. JobsAreSound'
    BY <1>3 DEF JobsAreSound, RunBecomes
  <1>10. FilesAreStored'
    BY <1>2, <1>3 DEF FilesAreStored, At, Runners, RunsHaveExports, On, RunBecomes
  <1>11. ThrownIsStored'
    BY <1>2, <1>3
      DEF ThrownIsStored, On, At, Runners, OneSideWorks, RequestsFollowRuns, Owns,
          RunBecomes
  <1>12. DeadAreFailed'
    BY <1>3
      DEF DeadAreFailed, RequestsFollowRuns, On, Owns, Runners, ThrownIsStored, At,
          RunBecomes
  <1>13. ProcessingIsOwed'
    BY Types, <1>2, <1>3
      DEF ProcessingIsOwed, On, Owing, AtWork, StillOwned, Runners, DraftsAreFinal,
          JobsAreSound, At, Owns, RunBecomes
  <1>14. CompletedIsOver'
    BY <1>2, <1>3
      DEF CompletedIsOver, On, At, Over, Runners, OneSideWorks, RequestsFollowRuns,
          Owns, DraftsAreFinal, RunBecomes
  <1> QED BY <1>4, <1>5, <1>6, <1>7, <1>8, <1>9, <1>10, <1>11, <1>12, <1>13, <1>14

LEMMA MarkFailedKeeps ==
    ASSUME ExportInvariant, NEW x \in Runners, MarkFailed(x)
    PROVE  ExportInvariant'
  <1> USE DEF ExportInvariant
  <1>1. /\ run[x].of \in Exports /\ (x \in Workers \/ x = run[x].of)
        /\ (x = run[x].of <=> x \notin Workers) /\ (x = run[x].of => request[x] = "inline")
    BY ExportsAreTasks
      DEF RunsHaveExports, RequestsFollowRuns, On, Off, At, MarkFailed
  <1>2. /\ At(x, "failed")
        /\ RunBecomes(x, [of |-> run[x].of, file |-> 0, step |-> "thrown"])
    BY GotoFrame DEF MarkFailed, RunSteps
  <1>3. \E f \in Nat : IF x = run[x].of
             THEN DraftBecomes(x, [status |-> "FAILED", file |-> f])
                  /\ row' = row /\ draft[x] # Closed
             ELSE /\ RowBecomes(run[x].of, [status |-> "FAILED", file |-> f])
                  /\ draft' = draft /\ ~ Locked(run[x].of)
    BY <1>1, WriteStatusFrame DEF MarkFailed, Statuses
  <1>4. UNCHANGED <<job, dead, request, stored, repeated, lost>>
    BY DEF MarkFailed, queueVars, history
  <1>5. TypeOK'
    BY Types, <1>2, <1>3, <1>4, TypesBack
      DEF TypeOK, RunBecomes, RowBecomes, DraftBecomes
  <1>6. RunsHaveExports'
    BY <1>1, <1>2 DEF RunsHaveExports, Runners, RunBecomes, RowBecomes, DraftBecomes
  <1>7. RequestsFollowRuns'
    BY <1>2, <1>3, <1>4
      DEF RequestsFollowRuns, On, Locked, NoRow, Runners, RunsHaveExports, RunBecomes,
          RowBecomes, DraftBecomes
  <1>8. DraftsAreFinal'
    BY <1>1, <1>2, <1>3, Types, ExportsAreTasks
      DEF DraftsAreFinal, Fits, RunBecomes, DraftBecomes
  <1>9. OneSideWorks'
    BY <1>2, <1>4
      DEF OneSideWorks, On, Owns, Runners, RunsHaveExports, RunBecomes, RowBecomes,
          DraftBecomes
  <1>10. JobsAreSound'
    BY <1>4 DEF JobsAreSound, Owns, RunBecomes, RowBecomes, DraftBecomes
  <1>11. FilesAreStored'
    BY <1>2, <1>3, <1>4
      DEF FilesAreStored, At, Runners, RunsHaveExports, On, RunBecomes, RowBecomes,
          DraftBecomes
  <1>12. ThrownIsStored'
    BY <1>2, <1>3, <1>4
      DEF ThrownIsStored, On, At, Runners, OneSideWorks, RequestsFollowRuns, Owns,
          RunBecomes, RowBecomes, DraftBecomes
  <1>13. DeadAreFailed'
    BY <1>3, <1>4, Types
      DEF DeadAreFailed, OneSideWorks, RequestsFollowRuns, On, Owns, Runners,
          ThrownIsStored, At, RunBecomes, RowBecomes, DraftBecomes
  <1>14. ProcessingIsOwed'
    <2> SUFFICES ASSUME NEW d \in Exports \ lost, row'[d].status = "PROCESSING"
                 PROVE  Owing(d)' \/ job'[d].state = "waiting" \/ StillOwned(d)'
      BY <1>4 DEF ProcessingIsOwed
    <2>1. \A y \in Runners \ {x} : run'[y] = run[y]
      BY <1>2 DEF RunBecomes
    <2>2. StillOwned(d) => job[d].owner \in Runners
      BY Types DEF StillOwned, JobsAreSound
    <2>3. CASE x = run[x].of
      <3>1. row' = row /\ draft[x] # Closed /\ \A y \in Exports \ {x} : draft'[y] = draft[y]
        BY <1>3, <2>3 DEF DraftBecomes
      <3>2. x \notin Workers
        BY <1>1, <2>3
      <3>3. Owing(d) => Owing(d)'
        BY <2>1, <3>1, <3>2, Types DEF Owing, AtWork, On
      <3>4. StillOwned(d) => StillOwned(d)'
        BY <1>4, <2>1, <3>2, Types DEF StillOwned, JobsAreSound, On
      <3> QED BY <1>4, <3>1, <3>3, <3>4 DEF ProcessingIsOwed
    <2>4. CASE x # run[x].of
      <3>1. x \in Workers /\ draft' = draft /\ x \notin Exports
        BY <1>1, <1>3, <2>4, ExportsAreTasks
      <3>2. d # run[x].of /\ row'[d] = row[d]
        BY <1>1, <1>3, <2>4 DEF RowBecomes
      <3>3. Owing(d) => Owing(d)'
        BY <2>1, <3>1, <3>2, Types DEF Owing, AtWork, On
      <3>4. StillOwned(d) => StillOwned(d)'
        BY <1>2, <1>4, <2>1, <2>2, <3>2 DEF StillOwned, On, RunBecomes
      <3> QED BY <1>4, <3>2, <3>3, <3>4 DEF ProcessingIsOwed
    <2> QED BY <2>3, <2>4
  <1>15. CompletedIsOver'
    BY <1>2, <1>3, <1>4
      DEF CompletedIsOver, On, At, Over, Runners, OneSideWorks, RequestsFollowRuns,
          Owns, DraftsAreFinal, RunBecomes, RowBecomes, DraftBecomes
  <1> QED BY <1>5, <1>6, <1>7, <1>8, <1>9, <1>10, <1>11, <1>12, <1>13, <1>14, <1>15

LEMMA MarkCompletedKeeps ==
    ASSUME ExportInvariant, NEW x \in Runners, MarkCompleted(x)
    PROVE  ExportInvariant'
  <1> USE DEF ExportInvariant
  <1>1. /\ run[x].of \in Exports /\ (x \in Workers \/ x = run[x].of)
        /\ (x = run[x].of <=> x \notin Workers) /\ (x = run[x].of => request[x] = "inline")
    BY ExportsAreTasks
      DEF RunsHaveExports, RequestsFollowRuns, On, Off, At, MarkCompleted
  <1>2. /\ At(x, "complete")
        /\ RunBecomes(x, [of |-> run[x].of, file |-> 0, step |-> "resolved"])
    BY GotoFrame DEF MarkCompleted, RunSteps
  <1>3. IF x = run[x].of
             THEN DraftBecomes(x, [status |-> "COMPLETED", file |-> run[x].file])
                  /\ row' = row /\ draft[x] # Closed
             ELSE /\ RowBecomes(run[x].of, [status |-> "COMPLETED", file |-> run[x].file])
                  /\ draft' = draft /\ ~ Locked(run[x].of)
    BY <1>1, WriteFrame, Types DEF MarkCompleted, Statuses, RowRecords, RunRecords
  <1>4. UNCHANGED <<job, dead, request, stored, repeated, lost>>
    BY DEF MarkCompleted, queueVars, history
  <1>5. TypeOK'
    BY Types, <1>2, <1>3, <1>4, TypesBack
      DEF TypeOK, RunBecomes, RowBecomes, DraftBecomes
  <1>6. RunsHaveExports'
    BY <1>1, <1>2 DEF RunsHaveExports, Runners, RunBecomes, RowBecomes, DraftBecomes
  <1>7. RequestsFollowRuns'
    BY <1>2, <1>3, <1>4
      DEF RequestsFollowRuns, On, Locked, NoRow, Runners, RunsHaveExports, RunBecomes,
          RowBecomes, DraftBecomes
  <1>8. DraftsAreFinal'
    BY <1>1, <1>2, <1>3, Types, ExportsAreTasks
      DEF DraftsAreFinal, Fits, RunBecomes, DraftBecomes
  <1>9. OneSideWorks'
    BY <1>2, <1>4
      DEF OneSideWorks, On, Owns, Runners, RunsHaveExports, RunBecomes, RowBecomes,
          DraftBecomes
  <1>10. JobsAreSound'
    BY <1>4 DEF JobsAreSound, Owns, RunBecomes, RowBecomes, DraftBecomes
  <1>11. FilesAreStored'
    BY <1>2, <1>3, <1>4
      DEF FilesAreStored, At, Runners, RunsHaveExports, On, RunBecomes, RowBecomes,
          DraftBecomes
  <1>12. ThrownIsStored'
    BY <1>1, <1>2, <1>3, <1>4
      DEF ThrownIsStored, On, At, Runners, OneSideWorks, RequestsFollowRuns, Owns,
          RunBecomes, RowBecomes, DraftBecomes
  <1>13. DeadAreFailed'
    BY <1>1, <1>3, <1>4, Types
      DEF DeadAreFailed, OneSideWorks, RequestsFollowRuns, On, Owns, Runners,
          ThrownIsStored, At, RunBecomes, RowBecomes, DraftBecomes
  <1>14. ProcessingIsOwed'
    <2> SUFFICES ASSUME NEW d \in Exports \ lost, row'[d].status = "PROCESSING"
                 PROVE  Owing(d)' \/ job'[d].state = "waiting" \/ StillOwned(d)'
      BY <1>4 DEF ProcessingIsOwed
    <2>1. \A y \in Runners \ {x} : run'[y] = run[y]
      BY <1>2 DEF RunBecomes
    <2>2. StillOwned(d) => job[d].owner \in Runners
      BY Types DEF StillOwned, JobsAreSound
    <2>3. CASE x = run[x].of
      <3>1. row' = row /\ draft[x] # Closed /\ \A y \in Exports \ {x} : draft'[y] = draft[y]
        BY <1>3, <2>3 DEF DraftBecomes
      <3>2. x \notin Workers
        BY <1>1, <2>3
      <3>3. Owing(d) => Owing(d)'
        BY <2>1, <3>1, <3>2, Types DEF Owing, AtWork, On
      <3>4. StillOwned(d) => StillOwned(d)'
        BY <1>4, <2>1, <3>2, Types DEF StillOwned, JobsAreSound, On
      <3> QED BY <1>4, <3>1, <3>3, <3>4 DEF ProcessingIsOwed
    <2>4. CASE x # run[x].of
      <3>1. x \in Workers /\ draft' = draft /\ x \notin Exports
        BY <1>1, <1>3, <2>4, ExportsAreTasks
      <3>2. d # run[x].of /\ row'[d] = row[d]
        BY <1>1, <1>3, <2>4 DEF RowBecomes
      <3>3. Owing(d) => Owing(d)'
        BY <2>1, <3>1, <3>2, Types DEF Owing, AtWork, On
      <3>4. StillOwned(d) => StillOwned(d)'
        BY <1>2, <1>4, <2>1, <2>2, <3>2 DEF StillOwned, On, RunBecomes
      <3> QED BY <1>4, <3>2, <3>3, <3>4 DEF ProcessingIsOwed
    <2> QED BY <2>3, <2>4
  <1>15. CompletedIsOver'
    BY <1>1, <1>2, <1>3, <1>4
      DEF CompletedIsOver, On, At, Over, Runners, OneSideWorks, RequestsFollowRuns,
          Owns, DraftsAreFinal, RunBecomes, RowBecomes, DraftBecomes
  <1> QED BY <1>5, <1>6, <1>7, <1>8, <1>9, <1>10, <1>11, <1>12, <1>13, <1>14, <1>15

LEMMA UploadKeeps ==
    ASSUME ExportInvariant, NEW x \in Runners, Upload(x)
    PROVE  ExportInvariant'
  <1> USE DEF ExportInvariant
  <1>1. /\ run[x].of \in Exports /\ (x \in Workers \/ x = run[x].of)
        /\ (x = run[x].of <=> x \notin Workers) /\ (x = run[x].of => request[x] = "inline")
    BY ExportsAreTasks DEF RunsHaveExports, RequestsFollowRuns, On, Off, At, Upload
  <1>2. /\ At(x, "upload") /\ UNCHANGED <<job, dead, row, draft, request, repeated, lost>>
    BY DEF Upload, queueVars, history
  <1>3. \/ StoresFile(x, run[x].of)
        \/ /\ stored' = stored
           /\ RunBecomes(x, [of |-> run[x].of, file |-> 0, step |-> "failed"])
    BY <1>1, UploadFrame
  <1>4. \A d \in Exports : 1 .. stored[d] \subseteq 1 .. stored'[d]
    BY <1>1, UploadFrame
  <1>5. TypeOK'
    BY Types, <1>2, <1>3, TypesBack DEF TypeOK, RunBecomes, StoresFile
  <1>6. RunsHaveExports'
    BY <1>1, <1>3 DEF RunsHaveExports, Runners, RunBecomes, StoresFile
  <1>7. RequestsFollowRuns'
    BY <1>2, <1>3
      DEF RequestsFollowRuns, On, Locked, NoRow, Runners, RunsHaveExports, RunBecomes,
          StoresFile
  <1>8. DraftsAreFinal'
    BY <1>1, <1>2, <1>3, Types
      DEF DraftsAreFinal, Fits, At, RunBecomes, StoresFile, Closed, NoRow
  <1>9. OneSideWorks'
    BY <1>2, <1>3
      DEF OneSideWorks, On, Owns, Runners, RunsHaveExports, RunBecomes, StoresFile
  <1>10. JobsAreSound'
    BY <1>2 DEF JobsAreSound, Owns, RunBecomes, StoresFile
  <1>11. FilesAreStored'
    <2>1. ASSUME NEW y \in Runners, At(y, "complete")'
          PROVE  run'[y].file \in 1 .. stored'[run'[y].of]
      <3>1. CASE y = x
        BY <1>3, <2>1, <3>1 DEF StoresFile, RunBecomes, At
      <3>2. CASE y # x
        <4>1. run'[y] = run[y] /\ At(y, "complete") /\ run[y].of \in Exports
          BY <1>3, <2>1, <3>2 DEF StoresFile, RunBecomes, At, RunsHaveExports, Off
        <4> QED BY <1>4, <4>1 DEF FilesAreStored
      <3> QED BY <3>1, <3>2
    <2>2. ASSUME NEW e \in Exports
          PROVE  /\ row'[e].status = "COMPLETED" => row'[e].file \in 1 .. stored'[e]
                 /\ draft'[e].status = "COMPLETED" => draft'[e].file \in 1 .. stored'[e]
      BY <1>2, <1>4 DEF FilesAreStored
    <2> QED BY <2>1, <2>2 DEF FilesAreStored
  <1>12. ThrownIsStored'
    BY <1>2, <1>3
      DEF ThrownIsStored, On, At, Runners, OneSideWorks, RequestsFollowRuns, Owns,
          RunBecomes, StoresFile
  <1>13. DeadAreFailed'
    BY <1>2
      DEF DeadAreFailed, OneSideWorks, RequestsFollowRuns, On, Owns, Runners,
          ThrownIsStored, At, RunBecomes, StoresFile
  <1>14. ProcessingIsOwed'
    <2>1. ASSUME NEW y \in Runners, NEW e \in Exports, AtWork(y, e) PROVE AtWork(y, e)'
      BY <1>2, <1>3, <2>1 DEF AtWork, On, RunBecomes, StoresFile
    <2>2. ASSUME NEW y \in Runners, NEW e \in Exports,
                 On(y, e)' /\ run'[y].step \in {"resolved", "thrown"}
          PROVE  On(y, e) /\ run[y].step \in {"resolved", "thrown"}
      BY <1>2, <1>3, <2>2 DEF On, RunBecomes, StoresFile
    <2>3. ASSUME NEW e \in Exports PROVE Owing(e) => Owing(e)'
      BY <1>2, <2>1 DEF Owing, Runners
    <2>4. ASSUME NEW e \in Exports PROVE StillOwned(e) => StillOwned(e)'
      <3>1. e \in Tasks /\ job' = job
        BY Types, <1>2
      <3>2. job[e].state = "active" => job[e].owner \in Runners
        BY <3>1 DEF JobsAreSound, Runners
      <3> QED BY <2>2, <3>1, <3>2 DEF StillOwned
    <2> QED BY <1>2, <2>3, <2>4 DEF ProcessingIsOwed
  <1>15. CompletedIsOver'
    BY <1>1, <1>2, <1>3
      DEF CompletedIsOver, On, At, Over, Runners, OneSideWorks, RequestsFollowRuns,
          Owns, DraftsAreFinal, RunBecomes, StoresFile
  <1> QED BY <1>5, <1>6, <1>7, <1>8, <1>9, <1>10, <1>11, <1>12, <1>13, <1>14, <1>15

LEMMA DatabaseFailsKeeps ==
    ASSUME ExportInvariant, NEW w \in Workers, DatabaseFails(w)
    PROVE  ExportInvariant'
  <1> USE DEF ExportInvariant
  <1>1. run[w].of \in Exports
    BY Types DEF RunsHaveExports, Off, At, DatabaseFails
  <1>2. \/ /\ At(w, "complete")
           /\ RunBecomes(w, [of |-> run[w].of, file |-> 0, step |-> "failed"])
        \/ /\ At(w, "processing") \/ At(w, "failed")
           /\ RunBecomes(w, [of |-> run[w].of, file |-> 0, step |-> "thrown"])
    BY GotoFrame, Types DEF DatabaseFails, RunSteps
  <1>3. /\ lost' = lost \cup {run[w].of}
        /\ UNCHANGED <<job, dead, row, draft, request, stored, repeated>>
    BY DEF DatabaseFails, queueVars
  <1>4. TypeOK'
    BY Types, <1>1, <1>2, <1>3, TypesBack DEF TypeOK, RunBecomes
  <1>5. RunsHaveExports'
    BY <1>1, <1>2 DEF RunsHaveExports, RunBecomes
  <1>6. RequestsFollowRuns'
    BY <1>2, <1>3
      DEF RequestsFollowRuns, On, Locked, NoRow, Runners, RunsHaveExports, RunBecomes
  <1>7. DraftsAreFinal'
    BY <1>2, <1>3, Types, ExportsAreTasks DEF DraftsAreFinal, RunBecomes
  <1>8. OneSideWorks'
    BY <1>2, <1>3 DEF OneSideWorks, On, Owns, Runners, RunsHaveExports, RunBecomes
  <1>9. JobsAreSound'
    BY <1>3 DEF JobsAreSound, RunBecomes
  <1>10. FilesAreStored'
    BY <1>2, <1>3 DEF FilesAreStored, At, Runners, RunsHaveExports, On, RunBecomes
  <1>11. ThrownIsStored'
    BY <1>2, <1>3
      DEF ThrownIsStored, On, At, Runners, OneSideWorks, RequestsFollowRuns, Owns,
          RunBecomes
  <1>12. DeadAreFailed'
    BY <1>3
      DEF DeadAreFailed, RequestsFollowRuns, On, Owns, Runners, ThrownIsStored, At,
          RunBecomes
  <1>13. ProcessingIsOwed'
    BY Types, <1>2, <1>3
      DEF ProcessingIsOwed, On, Owing, AtWork, StillOwned, Runners, DraftsAreFinal,
          JobsAreSound, At, Owns, RunBecomes
  <1>14. CompletedIsOver'
    BY <1>2, <1>3
      DEF CompletedIsOver, On, At, Over, Runners, OneSideWorks, RequestsFollowRuns,
          Owns, DraftsAreFinal, RunBecomes
  <1> QED BY <1>4, <1>5, <1>6, <1>7, <1>8, <1>9, <1>10, <1>11, <1>12, <1>13, <1>14

LEMMA WorkerDiesKeeps ==
    ASSUME ExportInvariant, NEW w \in Workers, WorkerDies(w)
    PROVE  ExportInvariant'
  <1> USE DEF ExportInvariant
  <1>1. run[w].of \in Exports
    BY Types DEF RunsHaveExports, WorkerDies
  <1>2. RunBecomes(w, Off)
    BY OffFrame, Types DEF WorkerDies
  <1>3. /\ lost' = (IF Owns(w, run[w].of) THEN lost ELSE lost \cup {run[w].of})
        /\ UNCHANGED <<job, dead, row, draft, request, stored, repeated>>
    BY DEF WorkerDies, queueVars
  <1>4. TypeOK'
    BY Types, <1>1, <1>2, <1>3, TypesBack DEF TypeOK, RunBecomes
  <1>5. RunsHaveExports'
    BY <1>2 DEF RunsHaveExports, RunBecomes, Off, NoRow
  <1>6. RequestsFollowRuns'
    BY <1>2, <1>3, ExportsAreTasks
      DEF RequestsFollowRuns, On, Locked, NoRow, Runners, RunsHaveExports, RunBecomes,
          Off
  <1>7. DraftsAreFinal'
    BY <1>2, <1>3, Types, ExportsAreTasks DEF DraftsAreFinal, RunBecomes
  <1>8. OneSideWorks'
    BY <1>2, <1>3, ExportsAreTasks
      DEF OneSideWorks, On, Owns, Runners, RunsHaveExports, RunBecomes, Off, NoRow
  <1>9. JobsAreSound'
    BY <1>3 DEF JobsAreSound, RunBecomes, Off, NoRow
  <1>10. FilesAreStored'
    BY <1>2, <1>3
      DEF FilesAreStored, At, Runners, RunsHaveExports, On, RunBecomes, Off, NoRow
  <1>11. ThrownIsStored'
    BY <1>2, <1>3
      DEF ThrownIsStored, On, At, Runners, OneSideWorks, RequestsFollowRuns, Owns,
          RunBecomes, Off, NoRow
  <1>12. DeadAreFailed'
    BY <1>3
      DEF DeadAreFailed, RequestsFollowRuns, On, Owns, Runners, ThrownIsStored, At,
          RunBecomes, Off, NoRow
  <1>13. ProcessingIsOwed'
    BY Types, <1>2, <1>3
      DEF ProcessingIsOwed, On, Owing, AtWork, StillOwned, Runners, DraftsAreFinal,
          JobsAreSound, At, Owns, RunBecomes, Off, NoRow
  <1>14. CompletedIsOver'
    BY <1>2, <1>3, ExportsAreTasks
      DEF CompletedIsOver, On, At, Over, Runners, OneSideWorks, RequestsFollowRuns,
          Owns, DraftsAreFinal, RunBecomes, Off, NoRow
  <1> QED BY <1>4, <1>5, <1>6, <1>7, <1>8, <1>9, <1>10, <1>11, <1>12, <1>13, <1>14

LEMMA WorkerEndsKeeps ==
    ASSUME ExportInvariant, NEW w \in Workers, WorkerEnds(w)
    PROVE  ExportInvariant'
  <1> USE DEF ExportInvariant
  <1>1. run[w].of \in Exports
    BY Types DEF RunsHaveExports, Off, At, WorkerEnds
  <1>2. RunBecomes(w, Off)
    BY OffFrame, Types DEF WorkerEnds
  <1>3. \/ /\ ~ Owns(w, run[w].of) /\ UNCHANGED <<job, dead>>
           /\ (At(w, "resolved") \/ At(w, "thrown"))
        \/ /\ Owns(w, run[w].of) /\ At(w, "resolved")
           /\ JobBecomes(run[w].of, "completed", Nobody, job[run[w].of].made)
           /\ dead' = dead
        \/ /\ Owns(w, run[w].of) /\ At(w, "thrown")
           /\ JobBecomes(run[w].of, "delayed", Nobody, job[run[w].of].made + 1)
           /\ job[run[w].of].made + 1 < MaxAttempts /\ dead' = dead
        \/ /\ Owns(w, run[w].of) /\ At(w, "thrown")
           /\ JobBecomes(run[w].of, "failed", Nobody, MaxAttempts)
           /\ dead' \in {dead, dead \cup {run[w].of}}
    BY <1>1, CompletesFrame, FailsFrame, Types DEF WorkerEnds, JobFails, queueVars
  <1>4. UNCHANGED <<row, draft, request, stored, repeated, lost>>
    BY DEF WorkerEnds, history
  <1>5. TypeOK'
    BY Types, <1>1, <1>2, <1>3, <1>4, TypesBack DEF TypeOK, RunBecomes, JobBecomes
  <1>6. RunsHaveExports'
    BY <1>2 DEF RunsHaveExports, Runners, RunBecomes, JobBecomes, Off, NoRow
  <1>7. RequestsFollowRuns'
    BY <1>2, <1>4, ExportsAreTasks
      DEF RequestsFollowRuns, On, Locked, NoRow, Runners, RunsHaveExports, RunBecomes,
          JobBecomes, Off
  <1>8. DraftsAreFinal'
    BY <1>2, <1>4, Types, ExportsAreTasks DEF DraftsAreFinal, RunBecomes
  <1>9. OneSideWorks'
    BY <1>2, <1>3, <1>4, ExportsAreTasks
      DEF OneSideWorks, On, Owns, Runners, RunsHaveExports, RunBecomes, JobBecomes, Off,
          NoRow
  <1>10. JobsAreSound'
    BY <1>3 DEF JobsAreSound, Owns, RunBecomes, JobBecomes, Off, NoRow
  <1>11. FilesAreStored'
    BY <1>2, <1>4
      DEF FilesAreStored, At, Runners, RunsHaveExports, On, RunBecomes, JobBecomes, Off,
          NoRow
  <1>12. ThrownIsStored'
    BY <1>2, <1>4
      DEF ThrownIsStored, On, At, Runners, OneSideWorks, RequestsFollowRuns, Owns,
          RunBecomes, JobBecomes, Off, NoRow
  <1>13. DeadAreFailed'
    BY <1>3, <1>4, Types
      DEF DeadAreFailed, OneSideWorks, RequestsFollowRuns, On, Owns, Runners,
          ThrownIsStored, At, RunBecomes, JobBecomes, Off, NoRow
  <1>14. ProcessingIsOwed'
    <2> SUFFICES ASSUME NEW d \in Exports \ lost, row[d].status = "PROCESSING"
                 PROVE  Owing(d)' \/ job'[d].state = "waiting" \/ StillOwned(d)'
      BY <1>4 DEF ProcessingIsOwed
    <2>1. w \notin Exports /\ \A y \in Runners \ {w} : run'[y] = run[y]
      BY <1>2, ExportsAreTasks DEF RunBecomes
    <2>2. At(w, "resolved") \/ At(w, "thrown")
      BY <1>3
    <2>3. Owing(d) => Owing(d)'
      BY <1>4, <2>1, <2>2, Types DEF Owing, AtWork, On, At
    <2>4. StillOwned(d) => StillOwned(d)'
      <3>1. StillOwned(d) => job'[d] = job[d] /\ job[d].owner \in Workers
        BY <1>1, <1>3, <2>2, Types
          DEF StillOwned, Owns, On, At, JobsAreSound, JobBecomes
      <3> QED BY <1>2, <2>1, <3>1, Types DEF StillOwned, On, RunBecomes, Off
    <2>5. job[d].state = "waiting" => job'[d].state = "waiting"
      BY <1>1, <1>3, Types DEF Owns, JobBecomes
    <2> QED BY <2>3, <2>4, <2>5 DEF ProcessingIsOwed
  <1>15. CompletedIsOver'
    BY <1>2, <1>3, <1>4, ExportsAreTasks
      DEF CompletedIsOver, On, At, Over, Runners, OneSideWorks, RequestsFollowRuns,
          Owns, DraftsAreFinal, RunBecomes, JobBecomes, Off, NoRow
  <1> QED BY <1>5, <1>6, <1>7, <1>8, <1>9, <1>10, <1>11, <1>12, <1>13, <1>14, <1>15

(* Every step keeps the inductive invariant.                               *)
LEMMA ExportStep == ASSUME ExportInvariant, [Next]_vars PROVE ExportInvariant'
  <1>1. CASE UNCHANGED vars
    BY <1>1
      DEF vars, queueVars, exportVars, history, ExportInvariant, TypeOK, QueueTypeOK,
          RunsHaveExports, RequestsFollowRuns, DraftsAreFinal, OneSideWorks,
          JobsAreSound, FilesAreStored, ThrownIsStored, DeadAreFailed, ProcessingIsOwed,
          CompletedIsOver, On, At, Owns, Locked, Owing, AtWork, StillOwned, Over
  <1>2. ASSUME NEW e \in Exports, RequestStep(e) PROVE ExportInvariant'
    BY <1>2, CreateKeeps, SkipAddKeeps, AddKeeps, AddResolvesKeeps, AddRejectsKeeps,
          AddTimesOutKeeps, CutOffKeeps, InlineEndsKeeps DEF RequestStep
  <1>3. ASSUME NEW x \in Runners, Process(x) PROVE ExportInvariant'
    BY <1>3, MarkProcessingKeeps, GenerateKeeps, UploadKeeps, MarkCompletedKeeps,
          MarkFailedKeeps DEF Process
  <1> QED
    BY <1>1, <1>2, <1>3, HangUpKeeps, RollBackKeeps, RequestDiesKeeps,
          AddArrivesKeeps, JobStallsKeeps,
          WorkerTakesKeeps, DatabaseFailsKeeps, WorkerEndsKeeps, WorkerDiesKeeps
      DEF Next

LEMMA ExportStart == Init => ExportInvariant
  <1> SUFFICES ASSUME Init PROVE ExportInvariant
    OBVIOUS
  <1>1. TypeOK
    BY QueueOptions
      DEF Init, QueueInit, TypeOK, QueueTypeOK, NoJob, JobStates, NoRow, Off, Statuses
  <1>2. RunsHaveExports /\ RequestsFollowRuns /\ DraftsAreFinal
    BY ExportsAreTasks
      DEF Init, RunsHaveExports, RequestsFollowRuns, DraftsAreFinal, Fits, Off, On, At,
          Locked, Runners
  <1>3. OneSideWorks /\ JobsAreSound
    BY QueueOptions, ExportsAreTasks
      DEF Init, QueueInit, OneSideWorks, JobsAreSound, Off, NoJob, On, Owns, Runners
  <1>4. /\ FilesAreStored /\ ThrownIsStored /\ DeadAreFailed
        /\ ProcessingIsOwed /\ CompletedIsOver
    BY DEF Init, QueueInit, FilesAreStored, ThrownIsStored, DeadAreFailed,
          ProcessingIsOwed, CompletedIsOver, Off, NoRow, At, Runners
  <1> QED BY <1>1, <1>2, <1>3, <1>4 DEF ExportInvariant

(* The inductive invariant holds in every reachable state.                 *)
THEOREM ExportsCorrect == Spec => []ExportInvariant
  BY ExportStart, ExportStep, PTL DEF Spec

(* Two runs of processExportJob for one export overlap only if its add     *)
(* answered after the time-out or its job stalled (safe-enqueue.ts:27-32). *)
THEOREM OneRunUnlessRepeated == Spec => []OneRunAtATime
  <1>1. ASSUME ExportInvariant PROVE OneRunAtATime
    <2> SUFFICES ASSUME NEW e \in Exports \ repeated PROVE Cardinality(Busy(e)) <= 1
      BY DEF OneRunAtATime
    <2>1. \A x, y \in Busy(e) : x = y
      <3> SUFFICES ASSUME NEW x \in Busy(e), NEW y \in Busy(e), x # y PROVE FALSE
        OBVIOUS
      <3>1. \A z \in Busy(e) : z \in Workers \/ z = e
        BY <1>1, ExportsAreTasks DEF ExportInvariant, RunsHaveExports, Busy, On, Off
      <3>2. \A z \in Busy(e) : z \in Workers => job[e].state = "active" /\ job[e].owner = z
        BY <1>1 DEF ExportInvariant, OneSideWorks, Busy, Owns
      <3>3. e \in Busy(e) => job[e].state = "none"
        BY <1>1 DEF ExportInvariant, OneSideWorks, RequestsFollowRuns, Busy
      <3> QED BY <3>1, <3>2, <3>3
    <2>2. CASE Busy(e) = {}
      BY <2>2, FS_EmptySet
    <2>3. CASE Busy(e) # {}
      <3>1. PICK x \in Busy(e) : Busy(e) = {x}
        BY <2>1, <2>3
      <3>2. Cardinality({x}) = 1
        BY FS_Singleton
      <3> QED BY <3>1, <3>2
    <2> QED BY <2>2, <2>3
  <1> QED BY <1>1, ExportsCorrect, PTL

(* COMPLETED names a stored file, a dead letter has used up its attempts   *)
(* and says FAILED, and PROCESSING means that work remains, unless the     *)
(* export is in lost: a statement of its run was refused, a hang-up being  *)
(* one reason, its process died, or its job stalled too often              *)
(* (export.service.ts:100-140, dead-letter.queue.ts:31-35).                *)
THEOREM RowsAreTrue == Spec => []RowsTellTheTruth
  <1>1. ASSUME ExportInvariant PROVE OutcomesAreReal
    BY <1>1 DEF ExportInvariant, OutcomesAreReal, FilesAreStored, DeadAreFailed
  <1>2. ASSUME ExportInvariant PROVE ProcessingIsBeingDone
    BY <1>2
      DEF ExportInvariant, ProcessingIsBeingDone, ProcessingIsOwed, Owing, AtWork,
          StillOwned,
          Busy, Runners
  <1> QED BY <1>1, <1>2, ExportsCorrect, PTL DEF RowsTellTheTruth

(* Who may change the committed row of an export, and to what.             *)
LEMMA WhoWrites ==
    ASSUME ExportInvariant, [Next]_vars, NEW e \in Exports, row'[e] # row[e]
    PROVE  \/ request[e] = "create"
           \/ Locked(e) /\ row'[e] = draft[e]
           \/ /\ \E w \in Workers : On(w, e) /\ ~ At(w, "resolved")
              /\ row'[e].status # "QUEUED"
  <1> USE DEF ExportInvariant
  <1>1. ASSUME NEW d \in Exports, Create(d) PROVE request[e] = "create"
    BY <1>1 DEF Create
  <1>2. ASSUME NEW d \in Exports, Commit(d) PROVE Locked(e) /\ row'[e] = draft[e]
    BY <1>2, Types DEF Commit
  <1>3. ASSUME NEW x \in Runners, NEW r \in RowRecords, Write(x, r),
               r.status # "QUEUED", run[x].step \notin {"off", "resolved"}
        PROVE  /\ \E w \in Workers : On(w, e) /\ ~ At(w, "resolved")
               /\ row'[e].status # "QUEUED"
    <2>1. run[x].of \in Exports /\ (x \in Workers \/ x = run[x].of)
      BY <1>3 DEF RunsHaveExports, Off
    <2>2. x # run[x].of /\ RowBecomes(run[x].of, r)
      BY <1>3, <2>1, WriteFrame
    <2> QED BY <1>3, <2>1, <2>2 DEF RowBecomes, On, At
  <1>4. ASSUME NEW x \in Runners, NEW t \in Statuses \ {"QUEUED"},
               WriteStatus(x, t), run[x].step \notin {"off", "resolved"}
        PROVE  /\ \E w \in Workers : On(w, e) /\ ~ At(w, "resolved")
               /\ row'[e].status # "QUEUED"
    <2>1. run[x].of \in Exports
      BY <1>4 DEF RunsHaveExports, Off
    <2>2. Seen(x) \in RowRecords
      BY <2>1, Types DEF Seen, Locked, DraftRecords
    <2>3. /\ [Seen(x) EXCEPT !.status = t] \in RowRecords
          /\ [Seen(x) EXCEPT !.status = t].status # "QUEUED"
      BY <2>2 DEF RowRecords
    <2> QED BY <1>3, <1>4, <2>3 DEF WriteStatus
  <1>5. ASSUME NEW x \in Runners, Process(x)
        PROVE  /\ \E w \in Workers : On(w, e) /\ ~ At(w, "resolved")
               /\ row'[e].status # "QUEUED"
    <2>1. CASE MarkProcessing(x) \/ MarkFailed(x)
      BY <1>4, <2>1 DEF MarkProcessing, MarkFailed, At, Statuses
    <2>2. CASE MarkCompleted(x)
      <3>1. [status |-> "COMPLETED", file |-> run[x].file] \in RowRecords
        BY Types DEF RowRecords, Statuses, RunRecords
      <3> QED BY <1>3, <2>2, <3>1 DEF MarkCompleted, At
    <2> QED BY <1>5, <2>1, <2>2 DEF Process, Generate, Upload
  <1> QED
    BY <1>1, <1>2, <1>5
      DEF Next, vars, exportVars, RequestStep, SkipAdd, Add, AddResolves, AddRejects,
          AddTimesOut, CutOff, InlineEnds, HangUp, RollBack, RequestDies, AddArrives,
          JobStalls, WorkerTakes, DatabaseFails, WorkerEnds, WorkerDies

LEMMA RepeatedForGood == ASSUME [Next]_vars PROVE repeated \subseteq repeated'
  BY DEF Next, vars, history, RequestStep, Create, SkipAdd, Add, AddResolves, AddRejects,
        AddTimesOut, CutOff, InlineEnds, HangUp, RollBack, RequestDies, AddArrives,
        JobStalls, WorkerTakes, Process, MarkProcessing, Generate, Upload, MarkCompleted, MarkFailed,
        DatabaseFails, WorkerEnds, WorkerDies

LEMMA LostForGood == ASSUME [Next]_vars PROVE lost \subseteq lost'
  BY DEF Next, vars, history, RequestStep, Create, SkipAdd, Add, AddResolves, AddRejects,
        AddTimesOut, CutOff, InlineEnds, HangUp, RollBack, RequestDies, AddArrives,
        JobStalls, WorkerTakes, Process, MarkProcessing, Generate, Upload, MarkCompleted,
        MarkFailed, DatabaseFails, WorkerEnds, WorkerDies

(* An export that is COMPLETED stays so and keeps its file, unless it may  *)
(* be worked on twice (FinishedStaysFinished of EveryExportSettles).       *)
THEOREM CompletedForGood == Spec => FinishedStaysFinished
  <1>1. ASSUME ExportInvariant, [Next]_vars, NEW e \in Exports,
               row[e].status = "COMPLETED", e \notin repeated'
        PROVE  row'[e] = row[e]
    <2>1. e \notin repeated /\ Over(e)
      BY <1>1, RepeatedForGood DEF ExportInvariant, CompletedIsOver
    <2>2. request[e] # "create" /\ ~ Locked(e)
      <3>1. Over(e) /\ (draft[e] # NoRow => request[e] = "inline")
        BY <1>1, <2>1 DEF ExportInvariant, RequestsFollowRuns
      <3>2. request[e] \in {"create", "inline"} => job[e].state = "none"
        BY <1>1, <2>1 DEF ExportInvariant, OneSideWorks
      <3>3. draft[e] = Closed => request[e] = "inline"
        BY <3>1 DEF Closed, NoRow
      <3> QED BY <3>1, <3>2, <3>3 DEF Over, Locked
    <2>3. \A w \in Workers : On(w, e) => At(w, "resolved")
      BY <1>1, <2>1 DEF ExportInvariant, OneSideWorks, Over, Owns
    <2> QED BY <1>1, <2>2, <2>3, WhoWrites
  <1>2. ExportInvariant /\ [Next]_vars =>
          [\A e \in Exports : row[e].status = "COMPLETED" /\ e \notin repeated' =>
              row'[e] = row[e]]_vars
    BY <1>1
  <1> QED BY <1>2, ExportsCorrect, PTL DEF Spec, FinishedStaysFinished

-----------------------------------------------------------------------------
(* No export that has been accepted is forgotten.                          *)

(* Before its request enqueues it, nobody else knows of an export.         *)
StartsAlone ==
    \A e \in Exports : request[e] \in {"create", "enqueue"} =>
        /\ job[e].state = "none"
        /\ \A w \in Workers : ~ On(w, e)

(* Somebody is about to see to e: its request, or the queue.               *)
Due(e) ==
    \/ request[e] \in {"enqueue", "inline"}
    \/ request[e] = "adding" /\ job[e].state = "sent"
    \/ job[e].state \in {"waiting", "active"}

(* While a row says QUEUED, no worker has got further than to take its     *)
(* job, and somebody is about to see to it.                                *)
QueuedIsDue ==
    \A e \in Exports \ lost : row[e].status = "QUEUED" =>
        /\ Due(e)
        /\ \A w \in Workers : On(w, e) => At(w, "processing")

(* Once its client has hung up, an inline run has either not begun to      *)
(* write or left something behind.                                         *)
HungUpHasWritten ==
    \A e \in Exports \ lost :
        draft[e] = Closed => At(e, "processing") \/ row[e].status # "QUEUED"

QueuedInvariant == StartsAlone /\ QueuedIsDue

(* A run that goes on: the committed row of its export changes only to     *)
(* something else than QUEUED, and with the export's worker.               *)
LEMMA QueuedGoto ==
    ASSUME ExportInvariant, QueuedInvariant, NEW x \in Runners, NEW s \in RunSteps,
           NEW f \in Nat,
           RunBecomes(x, [of |-> run[x].of, file |-> f, step |-> s]),
           run[x].of \in Exports,
           \/ x \notin Workers \/ ~ At(x, "processing") \/ run[x].of \in lost'
           \/ row'[run[x].of].status # "QUEUED",
           \A d \in Exports : row'[d] = row[d] \/ row'[d].status # "QUEUED",
           lost \subseteq lost', UNCHANGED <<job, request>>
    PROVE  QueuedInvariant'
  <1> DEFINE e == run[x].of
  <1>1. run'[x].of = e /\ \A y \in Runners : run'[y].of = run[y].of
    BY DEF RunBecomes
  <1>2. StartsAlone'
    BY <1>1, Types DEF QueuedInvariant, ExportInvariant, StartsAlone, On, Runners
  <1>3. ASSUME NEW d \in Exports, d \notin lost', row'[d].status = "QUEUED"
        PROVE  Due(d)' /\ \A w \in Workers : On(w, d)' => At(w, "processing")'
    <2>1. Due(d) /\ \A w \in Workers : On(w, d) => At(w, "processing")
      BY <1>3 DEF QueuedInvariant, QueuedIsDue
    <2>2. ASSUME NEW w \in Workers, On(w, d)', w = x PROVE FALSE
      BY <1>1, <1>3, <2>1, <2>2 DEF On, Runners
    <2> QED BY <1>1, <2>1, <2>2 DEF Due, On, At, Runners, RunBecomes
  <1> QED BY <1>2, <1>3 DEF QueuedInvariant, QueuedIsDue

LEMMA QueuedRequests ==
    ASSUME ExportInvariant, QueuedInvariant, HungUpHasWritten, NEW e \in Exports, RequestStep(e)
    PROVE  QueuedInvariant'
  <1> USE DEF ExportInvariant, QueuedInvariant
  <1>1. CASE Create(e)
    <2>1. RowBecomes(e, [status |-> "QUEUED", file |-> row[e].file])
      BY <1>1, Types DEF Create, RowBecomes, RowRecords, Statuses
    <2>2. /\ request[e] = "create" /\ request' = [request EXCEPT ![e] = "enqueue"]
          /\ UNCHANGED <<job, run, lost>>
      BY <1>1 DEF Create, queueVars, history
    <2> QED BY <2>1, <2>2, Types DEF StartsAlone, QueuedIsDue, Due, On, At, RowBecomes
  <1>2. CASE SkipAdd(e)
    <2>1. RunBecomes(e, [of |-> e, file |-> 0, step |-> "processing"])
      BY <1>2, EnterFrame, Types DEF SkipAdd, Inline
    <2>2. /\ request[e] = "enqueue" /\ request' = [request EXCEPT ![e] = "inline"]
          /\ UNCHANGED <<job, row, lost>>
      BY <1>2 DEF SkipAdd, Inline, queueVars, history
    <2> QED
      BY <2>1, <2>2, Types, ExportsAreTasks
        DEF StartsAlone, QueuedIsDue, Due, On, At, Runners, RunBecomes
  <1>3. CASE Add(e)
    <2>1. JobBecomes(e, "sent", job[e].owner, job[e].made) /\ job[e].state = "none"
      BY <1>3, SendFrame, Types DEF Add
    <2>2. /\ request[e] = "enqueue" /\ request' = [request EXCEPT ![e] = "adding"]
          /\ UNCHANGED <<row, run, lost>>
      BY <1>3 DEF Add, history
    <2> QED
      BY <2>1, <2>2, Types DEF StartsAlone, QueuedIsDue, Due, On, At, JobBecomes
  <1>4. CASE AddResolves(e)
    <2>1. /\ request[e] = "adding" /\ job[e].state # "sent"
          /\ request' = [request EXCEPT ![e] = "answered"]
          /\ UNCHANGED <<job, row, run, lost>>
      BY <1>4 DEF AddResolves, queueVars, history
    <2> QED BY <2>1, Types DEF StartsAlone, QueuedIsDue, Due, On, At
  <1>5. CASE AddRejects(e)
    <2>1. JobBecomes(e, "none", job[e].owner, job[e].made) /\ job[e].state = "sent"
      BY <1>5, DropFrame, Types DEF AddRejects
    <2>2. RunBecomes(e, [of |-> e, file |-> 0, step |-> "processing"])
      BY <1>5, EnterFrame, Types DEF AddRejects, Inline
    <2>3. /\ request' = [request EXCEPT ![e] = "inline"]
          /\ UNCHANGED <<row, lost>>
      BY <1>5 DEF AddRejects, Inline, history
    <2> QED
      BY <2>1, <2>2, <2>3, Types, ExportsAreTasks
        DEF StartsAlone, QueuedIsDue, Due, On, At, Runners, RunBecomes, JobBecomes
  <1>6. CASE AddTimesOut(e)
    <2>1. RunBecomes(e, [of |-> e, file |-> 0, step |-> "processing"])
      BY <1>6, EnterFrame, Types DEF AddTimesOut, Inline
    <2>2. /\ request' = [request EXCEPT ![e] = "inline"]
          /\ UNCHANGED <<job, row, lost>>
      BY <1>6 DEF AddTimesOut, Inline, queueVars
    <2> QED
      BY <2>1, <2>2, Types, ExportsAreTasks
        DEF StartsAlone, QueuedIsDue, Due, On, At, Runners, RunBecomes
  <1>7. CASE InlineEnds(e)
    <2>1. On(e, e) /\ (At(e, "resolved") \/ At(e, "thrown"))
      BY <1>7, ExportsAreTasks DEF InlineEnds, RunsHaveExports, At, On, Off, Runners
    <2>2. \A d \in Exports \ {e} : row'[d] = row[d]
      BY <1>7, Types DEF InlineEnds, Commit
    <2>3. e \in lost \/ row'[e].status # "QUEUED"
      <3>1. CASE Locked(e)
        BY <1>7, <2>1, <3>1, Types
          DEF InlineEnds, Commit, Locked, DraftsAreFinal, Fits, At
      <3>2. CASE ~ Locked(e)
        <4>1. draft[e] = Closed /\ row' = row
          BY <1>7, <2>1, <3>2
            DEF InlineEnds, Commit, Locked, DraftsAreFinal, Fits, At, NoRow
        <4> QED BY <2>1, <4>1 DEF HungUpHasWritten, At
      <3> QED BY <3>1, <3>2
    <2>4. RunBecomes(e, Off)
      BY <1>7, OffFrame, Types DEF InlineEnds
    <2>5. /\ request' = [request EXCEPT ![e] = "answered"]
          /\ UNCHANGED <<job, lost>>
      BY <1>7 DEF InlineEnds, queueVars, history
    <2> QED
      BY <2>2, <2>3, <2>4, <2>5, Types, ExportsAreTasks
        DEF StartsAlone, QueuedIsDue, Due, On, At, Runners, RunBecomes
  <1>8. CASE CutOff(e)
    <2>1. e \notin Workers /\ e \in Runners /\ e = run[e].of
      BY <1>8, ExportsAreTasks, Types
        DEF CutOff, RequestsFollowRuns, Closed, NoRow, On
    <2>2. \E t \in RunSteps : RunBecomes(e, [of |-> run[e].of, file |-> 0, step |-> t])
      BY <1>8, <2>1, GotoFrame DEF CutOff, RunSteps
    <2>3. lost' = lost \cup {e} /\ UNCHANGED <<job, row, request>>
      BY <1>8 DEF CutOff, queueVars
    <2> QED BY <2>1, <2>2, <2>3, QueuedGoto
  <1> QED BY <1>1, <1>2, <1>3, <1>4, <1>5, <1>6, <1>7, <1>8 DEF RequestStep

LEMMA QueuedProcess ==
    ASSUME ExportInvariant, QueuedInvariant, NEW x \in Runners, Process(x)
    PROVE  QueuedInvariant'
  <1> USE DEF ExportInvariant
  <1>1. run[x].step # "off" /\ run[x].of \in Exports /\ run[x].file \in Nat
    BY Types
      DEF Process, MarkProcessing, Generate, Upload, MarkCompleted, MarkFailed, At,
          RunsHaveExports, Off, RunRecords
  <1>2. UNCHANGED <<job, request, lost>>
    BY DEF Process, MarkProcessing, Generate, Upload, MarkCompleted, MarkFailed,
           queueVars, history
  <1>3. ASSUME NEW s \in {"PROCESSING", "FAILED"}, NEW t \in RunSteps,
               WriteStatus(x, s), Goto(x, t)
        PROVE  QueuedInvariant'
    <2>1. PICK f \in Nat :
             IF x = run[x].of
             THEN DraftBecomes(x, [status |-> s, file |-> f]) /\ row' = row
             ELSE RowBecomes(run[x].of, [status |-> s, file |-> f])
      BY <1>1, <1>3, WriteStatusFrame DEF Statuses
    <2>2. RunBecomes(x, [of |-> run[x].of, file |-> 0, step |-> t])
      BY <1>3, GotoFrame
    <2>3. \A d \in Exports : row'[d] = row[d] \/ row'[d].status # "QUEUED"
      BY <2>1 DEF RowBecomes
    <2>4. x \notin Workers \/ row'[run[x].of].status # "QUEUED"
      BY <1>1, <2>1, ExportsAreTasks DEF RowBecomes
    <2> QED BY <1>1, <1>2, <2>2, <2>3, <2>4, QueuedGoto
  <1>4. CASE MarkProcessing(x)
    BY <1>3, <1>4 DEF MarkProcessing, RunSteps
  <1>5. CASE MarkFailed(x)
    BY <1>3, <1>5 DEF MarkFailed, RunSteps
  <1>6. CASE Generate(x)
    <2>1. PICK t \in RunSteps : Goto(x, t)
      BY <1>6 DEF Generate, RunSteps
    <2>2. RunBecomes(x, [of |-> run[x].of, file |-> 0, step |-> t])
      BY <2>1, GotoFrame
    <2>3. ~ At(x, "processing") /\ row' = row
      BY <1>6 DEF Generate, At
    <2> QED BY <1>1, <1>2, <2>2, <2>3, QueuedGoto
  <1>7. CASE Upload(x)
    <2>1. \E f \in Nat, t \in RunSteps :
             RunBecomes(x, [of |-> run[x].of, file |-> f, step |-> t])
      <3>1. stored[run[x].of] + 1 \in Nat
        BY <1>1, Types
      <3> QED BY <1>1, <1>7, <3>1, UploadFrame DEF StoresFile, RunSteps
    <2>2. ~ At(x, "processing") /\ row' = row
      BY <1>7 DEF Upload, At
    <2> QED BY <1>1, <1>2, <2>1, <2>2, QueuedGoto
  <1>8. CASE MarkCompleted(x)
    <2>1. [status |-> "COMPLETED", file |-> run[x].file] \in RowRecords
      BY <1>1 DEF RowRecords, Statuses
    <2>2. \A d \in Exports : row'[d] = row[d] \/ row'[d].status # "QUEUED"
      BY <1>1, <1>8, <2>1, WriteFrame DEF MarkCompleted, RowBecomes
    <2>3. RunBecomes(x, [of |-> run[x].of, file |-> 0, step |-> "resolved"])
      BY <1>8, GotoFrame DEF MarkCompleted, RunSteps
    <2>4. ~ At(x, "processing")
      BY <1>8 DEF MarkCompleted, At
    <2> QED BY <1>1, <1>2, <2>2, <2>3, <2>4, QueuedGoto DEF RunSteps
  <1> QED BY <1>4, <1>5, <1>6, <1>7, <1>8 DEF Process

LEMMA QueuedEnds ==
    ASSUME ExportInvariant, QueuedInvariant, NEW e \in Exports, HangUp(e) \/ RollBack(e)
    PROVE  QueuedInvariant'
  <1>1. UNCHANGED <<job, run, request>> /\ lost \subseteq lost'
    BY DEF HangUp, RollBack, queueVars, history
  <1>2. \A d \in Exports : row'[d] = row[d] \/ row'[d].status # "QUEUED"
    BY Types
      DEF HangUp, RollBack, Commit, Locked, ExportInvariant, DraftsAreFinal, Fits
  <1> QED
    BY <1>1, <1>2 DEF QueuedInvariant, StartsAlone, QueuedIsDue, Due, On, At

(* How a transaction comes to be over before its time, and what its run    *)
(* does then.                                                              *)
LEMMA HowItCloses ==
    ASSUME ExportInvariant, [Next]_vars, NEW e \in Exports \ lost', draft'[e] = Closed
    PROVE  \/ HangUp(e)
           \/ draft[e] = Closed /\ (At(e, "processing") => At(e, "processing")')
  <1> USE DEF ExportInvariant
  <1>1. Closed # NoRow /\ Off.step # "processing" /\ e \in Runners /\ e \notin Workers
    BY Types, ExportsAreTasks DEF Closed, NoRow, Off
  <1>2. draft[e] = Closed => On(e, e) /\ request[e] = "inline"
    BY <1>1 DEF RequestsFollowRuns
  <1>3. ASSUME NEW d \in Exports, RequestStep(d)
        PROVE  draft[e] = Closed /\ (At(e, "processing") => At(e, "processing")')
    BY <1>1, <1>2, <1>3, Types
      DEF RequestStep, Create, SkipAdd, Add, AddResolves, AddRejects, AddTimesOut,
          CutOff, InlineEnds, Inline, Enter, Goto, At
  <1>4. ASSUME NEW d \in Exports, HangUp(d) \/ RollBack(d) \/ RequestDies(d)
        PROVE  \/ HangUp(e)
               \/ draft[e] = Closed /\ (At(e, "processing") => At(e, "processing")')
    BY <1>1, <1>4, Types DEF HangUp, RollBack, RequestDies, At
  <1>5. ASSUME NEW x \in Runners, Process(x)
        PROVE  draft[e] = Closed /\ (At(e, "processing") => At(e, "processing")')
    <2>1. CASE MarkProcessing(x) \/ MarkFailed(x) \/ MarkCompleted(x)
      <3>1. run[x].of \in Exports /\ (x = run[x].of \/ x \in Workers)
        BY <2>1
          DEF MarkProcessing, MarkFailed, MarkCompleted, At, RunsHaveExports, Off
      <3>2. ASSUME NEW r \in RowRecords, r # Closed, Write(x, r)
            PROVE  draft[e] = Closed /\ x # e
        <4>1. CASE x = run[x].of
          BY <3>1, <3>2, <4>1, WriteFrame DEF DraftBecomes
        <4>2. CASE x # run[x].of
          BY <1>1, <3>1, <3>2, <4>2, WriteFrame
        <4> QED BY <4>1, <4>2
      <3>3. ASSUME NEW t \in Statuses, WriteStatus(x, t)
            PROVE  draft[e] = Closed /\ x # e
        <4>1. Seen(x) \in RowRecords
          BY <3>1, Types DEF Seen, Locked, DraftRecords
        <4>2. /\ [Seen(x) EXCEPT !.status = t] \in RowRecords
              /\ [Seen(x) EXCEPT !.status = t] # Closed
          BY <4>1 DEF RowRecords, Statuses, Closed
        <4> QED BY <3>2, <3>3, <4>2 DEF WriteStatus
      <3>4. ASSUME MarkCompleted(x) PROVE draft[e] = Closed /\ x # e
        <4>1. /\ [status |-> "COMPLETED", file |-> run[x].file] \in RowRecords
              /\ [status |-> "COMPLETED", file |-> run[x].file] # Closed
          BY <3>1, Types DEF Statuses, Closed, RowRecords, RunRecords
        <4> QED BY <3>2, <3>4, <4>1 DEF MarkCompleted
      <3>5. draft[e] = Closed /\ x # e
        BY <2>1, <3>3, <3>4 DEF MarkProcessing, MarkFailed, Statuses
      <3> QED
        BY <1>1, <2>1, <3>5, Types DEF MarkProcessing, MarkFailed, MarkCompleted, Goto, At
    <2>2. CASE Generate(x) \/ Upload(x)
      BY <1>1, <2>2, Types DEF Generate, Upload, Goto, At
    <2> QED BY <1>5, <2>1, <2>2 DEF Process
  <1>6. ASSUME NEW w \in Workers, NEW d \in Exports,
               \/ AddArrives(d) \/ JobStalls(d) \/ WorkerTakes(w, d)
               \/ DatabaseFails(w) \/ WorkerEnds(w) \/ WorkerDies(w)
        PROVE  draft[e] = Closed /\ (At(e, "processing") => At(e, "processing")')
    BY <1>1, <1>6, Types
      DEF AddArrives, JobStalls, exportVars, WorkerTakes, Enter, DatabaseFails, Goto,
          WorkerEnds, WorkerDies, At
  <1>7. ASSUME NEW d \in Exports, AddArrives(d) \/ JobStalls(d)
        PROVE  draft[e] = Closed /\ (At(e, "processing") => At(e, "processing")')
    BY <1>7 DEF AddArrives, JobStalls, exportVars, At
  <1> QED BY <1>3, <1>4, <1>5, <1>6, <1>7 DEF Next, vars, exportVars, At

LEMMA HungUpStep ==
    ASSUME ExportInvariant, HungUpHasWritten, [Next]_vars PROVE HungUpHasWritten'
  <1> USE DEF ExportInvariant
  <1> SUFFICES ASSUME NEW e \in Exports \ lost', draft'[e] = Closed,
                      ~ At(e, "processing")', row'[e].status = "QUEUED"
               PROVE  FALSE
    BY DEF HungUpHasWritten
  <1>1. CASE HangUp(e)
    <2>1. At(e, "processing") <=> At(e, "processing")'
      BY <1>1 DEF HangUp, At
    <2>2. On(e, e) /\ run[e].step \notin {"off", "processing"} /\ draft[e] # Closed
      <3>1. On(e, e) /\ draft[e] # Closed /\ e \in Runners
        BY <1>1, Types DEF HangUp, RequestsFollowRuns
      <3> QED BY <2>1, <3>1, ExportsAreTasks DEF RunsHaveExports, On, Off, At
    <2>3. Locked(e)
      BY <2>2 DEF Locked, DraftsAreFinal, Fits, NoRow
    <2>4. row'[e] = draft[e]
      BY <1>1, <2>3, Types DEF HangUp, Commit
    <2> QED BY <2>3, <2>4 DEF DraftsAreFinal, Fits, Locked
  <1>2. CASE draft[e] = Closed /\ (At(e, "processing") => At(e, "processing")')
    <2>1. e \notin lost /\ row[e].status # "QUEUED"
      BY <1>2, LostForGood DEF HungUpHasWritten
    <2>2. request[e] = "inline" /\ ~ Locked(e)
      BY <1>2 DEF RequestsFollowRuns, Locked, Closed, NoRow
    <2> QED BY <2>1, <2>2, WhoWrites
  <1> QED BY <1>1, <1>2, HowItCloses

LEMMA QueuedQueue ==
    ASSUME ExportInvariant, QueuedInvariant, NEW e \in Exports,
           \/ RequestDies(e) \/ AddArrives(e) \/ JobStalls(e)
           \/ \E w \in Workers : WorkerTakes(w, e)
    PROVE  QueuedInvariant'
  <1> USE DEF ExportInvariant, QueuedInvariant
  <1>1. CASE RequestDies(e)
    <2>1. JobBecomes(e, IF job[e].state = "sent" THEN "none" ELSE job[e].state,
                     job[e].owner, job[e].made)
      BY <1>1, DropFrame, Types DEF RequestDies
    <2>2. RunBecomes(e, Off)
      BY <1>1, OffFrame, Types DEF RequestDies
    <2>3. /\ request' = [request EXCEPT ![e] = "answered"]
          /\ lost' = lost \cup {e} /\ row' = row
      BY <1>1 DEF RequestDies
    <2> QED
      BY <2>1, <2>2, <2>3, Types, ExportsAreTasks
        DEF StartsAlone, QueuedIsDue, Due, On, At, Runners, RunBecomes, JobBecomes
  <1>2. CASE AddArrives(e)
    <2>1. JobBecomes(e, "waiting", job[e].owner, job[e].made) /\ job[e].state = "sent"
      BY <1>2, ArriveFrame, Types DEF AddArrives
    <2>2. UNCHANGED <<row, request, run, lost>>
      BY <1>2 DEF AddArrives, exportVars, history
    <2> QED
      BY <2>1, <2>2, Types DEF StartsAlone, QueuedIsDue, Due, On, At, JobBecomes
  <1>3. CASE JobStalls(e)
    <2>1. /\ job[e].state = "active"
          /\ JobBecomes(e, IF job[e].stalls < MaxStalls THEN "waiting" ELSE "failed",
                           Nobody, job[e].made)
      BY <1>3, StallsFrame, Types DEF JobStalls
    <2>2. /\ lost' = (IF job[e].stalls < MaxStalls THEN lost ELSE lost \cup {e})
          /\ UNCHANGED <<row, request, run>>
      BY <1>3 DEF JobStalls, exportVars
    <2> QED
      BY <2>1, <2>2, Types DEF StartsAlone, QueuedIsDue, Due, On, At, JobBecomes
  <1>4. ASSUME NEW w \in Workers, WorkerTakes(w, e) PROVE QueuedInvariant'
    <2>1. /\ JobBecomes(e, "active", w, job[e].made)
          /\ job[e].state \in {"waiting", "delayed"}
      BY <1>4, TakeFrame, Types DEF WorkerTakes
    <2>2. RunBecomes(w, [of |-> e, file |-> 0, step |-> "processing"])
      BY <1>4, EnterFrame, Types DEF WorkerTakes
    <2>3. UNCHANGED <<row, request, lost>>
      BY <1>4 DEF WorkerTakes, history
    <2>4. StartsAlone'
      BY <2>1, <2>2, <2>3, Types DEF StartsAlone, On, Runners, RunBecomes, JobBecomes
    <2>5. QueuedIsDue'
      BY <2>1, <2>2, <2>3, Types DEF QueuedIsDue, Due, On, At, Runners, RunBecomes, JobBecomes
    <2> QED BY <2>4, <2>5
  <1> QED BY <1>1, <1>2, <1>3, <1>4

LEMMA QueuedWorkers ==
    ASSUME ExportInvariant, QueuedInvariant, NEW w \in Workers,
           DatabaseFails(w) \/ WorkerEnds(w) \/ WorkerDies(w)
    PROVE  QueuedInvariant'
  <1> USE DEF ExportInvariant, QueuedInvariant
  <1> DEFINE e == run[w].of
  <1>1. w \in Runners /\ e \in Exports /\ e \in Tasks /\ run[w].file \in Nat
    BY Types DEF DatabaseFails, WorkerEnds, WorkerDies, At, RunsHaveExports, Off, RunRecords
  <1>2. CASE DatabaseFails(w)
    <2>1. PICK t \in RunSteps : Goto(w, t)
      BY <1>2 DEF DatabaseFails, RunSteps
    <2>2. RunBecomes(w, [of |-> e, file |-> 0, step |-> t])
      BY <1>1, <2>1, GotoFrame
    <2>3. lost' = lost \cup {e} /\ UNCHANGED <<job, row, request>>
      BY <1>2 DEF DatabaseFails, queueVars
    <2> QED BY <1>1, <2>2, <2>3, QueuedGoto
  <1>3. CASE WorkerDies(w)
    <2>1. RunBecomes(w, Off) /\ lost \subseteq lost' /\ UNCHANGED <<job, row, request>>
      BY <1>1, <1>3, OffFrame DEF WorkerDies, queueVars
    <2> QED
      BY <2>1, ExportsAreTasks
        DEF StartsAlone, QueuedIsDue, Due, On, At, Off, Runners, RunBecomes
  <1>4. CASE WorkerEnds(w)
    <2>1. RunBecomes(w, Off) /\ UNCHANGED <<row, request, lost>>
      BY <1>1, <1>4, OffFrame DEF WorkerEnds, history
    <2>2. e \in lost \/ row[e].status # "QUEUED"
      BY <1>1, <1>4 DEF WorkerEnds, QueuedIsDue, On, At
    <2>3. \A d \in Tasks \ {e} : job'[d] = job[d]
      BY <1>1, <1>4, Types, CompletesFrame, FailsFrame
        DEF WorkerEnds, JobFails, queueVars, JobBecomes
    <2>4. request[e] \notin {"create", "enqueue"}
      BY <1>1 DEF StartsAlone, On
    <2> QED
      BY <1>1, <2>1, <2>2, <2>3, <2>4, Types, ExportsAreTasks
        DEF StartsAlone, QueuedIsDue, Due, On, At, Off, Runners, RunBecomes
  <1> QED BY <1>2, <1>3, <1>4

LEMMA QueuedStep ==
    ASSUME ExportInvariant, QueuedInvariant, HungUpHasWritten, [Next]_vars
    PROVE  QueuedInvariant'
  <1>1. CASE UNCHANGED vars
    BY <1>1
      DEF vars, queueVars, exportVars, history, QueuedInvariant, StartsAlone,
          QueuedIsDue, Due, On, At
  <1> QED
    BY <1>1, QueuedRequests, QueuedProcess, QueuedEnds, QueuedQueue, QueuedWorkers DEF Next

LEMMA QueuedStart == Init => QueuedInvariant /\ HungUpHasWritten
  BY ExportsAreTasks
    DEF Init, QueueInit, QueuedInvariant, StartsAlone, QueuedIsDue, HungUpHasWritten,
        Closed, Off, NoRow, NoJob, On, Runners

(* An export whose row is not final yet is in somebody's hands: its        *)
(* request will enqueue it or runs it, its add is on the way, its job      *)
(* waits or is active, or a runner is at it.                               *)
Attended(e) ==
    \/ request[e] = "enqueue"
    \/ request[e] = "adding" /\ job[e].state = "sent"
    \/ job[e].state \in {"waiting", "active"}
    \/ Busy(e) # {}

NoExportIsForgotten ==
    \A e \in Exports \ lost : row[e].status \in {"QUEUED", "PROCESSING"} => Attended(e)

(* An accepted export that nothing has hit is never forgotten, whatever    *)
(* its request, the queue and the workers have done so far: what           *)
(* EveryExportSettles says will happen has always somebody to do it, after *)
(* a hang-up too, until a statement of the inline run is refused           *)
(* (export.service.ts:70-97, safe-enqueue.ts:27-32).                       *)
THEOREM ExportsAreInHand == Spec => []NoExportIsForgotten
  <1>1. ASSUME ExportInvariant, QueuedInvariant PROVE NoExportIsForgotten
    <2> SUFFICES ASSUME NEW e \in Exports \ lost, row[e].status \in {"QUEUED", "PROCESSING"}
                 PROVE  Attended(e)
      BY DEF NoExportIsForgotten
    <2>1. CASE row[e].status = "PROCESSING"
      BY <1>1, <2>1 DEF ExportInvariant, ProcessingIsOwed, Owing, AtWork, StillOwned, Attended,
            Busy, Runners
    <2>2. CASE row[e].status = "QUEUED"
      <3>1. Due(e)
        BY <1>1, <2>2 DEF QueuedInvariant, QueuedIsDue
      <3>2. request[e] = "inline" => e \in Busy(e)
        BY <1>1 DEF ExportInvariant, RequestsFollowRuns, Busy, Runners
      <3> QED BY <3>1, <3>2 DEF Due, Attended
    <2> QED BY <2>1, <2>2
  <1>2. Init => ExportInvariant /\ QueuedInvariant /\ HungUpHasWritten
    BY ExportStart, QueuedStart
  <1>3. ExportInvariant /\ QueuedInvariant /\ HungUpHasWritten /\ [Next]_vars
           => ExportInvariant' /\ QueuedInvariant' /\ HungUpHasWritten'
    BY ExportStep, QueuedStep, HungUpStep
  <1> QED BY <1>1, <1>2, <1>3, PTL DEF Spec

-----------------------------------------------------------------------------
(* WebhookDelivery.                                                        *)

(* A deliverer at work has a hook, the API process its own.                *)
CallsHaveHooks ==
    \A x \in Deliverers :
        call[x] = NoCall \/ (/\ call[x].of \in Hooks /\ call[x].step # "off"
                             /\ x \in Workers \/ x = call[x].of)

(* A change triggers its webhooks after it has been written, and the       *)
(* endpoints it found revoked stay so.                                     *)
ChangesAreOrdered ==
    \A c \in Changes :
        /\ change[c] \in {"new", "written"} => trigger[c] = "none"
        /\ spared[c] \cap active = {}

(* Nothing happens to a hook before its endpoint has been found.           *)
UnfoundAreIdle ==
    \A t \in Hooks :
        /\ trigger[t[1]] # "done" \/ t[2] \in spared[t[1]] => send[t] = "none"
        /\ send[t] = "none" =>
              /\ job[t].state = "none" /\ got[t] = 0
              /\ \A x \in Deliverers : call[x].of # t

(* What has ended well has been received, what has failed for good is a    *)
(* dead letter or dropped; an add that has not been given up has a job,    *)
(* and the API process delivers what it has given up.                      *)
EndsAreTrue ==
    /\ \A x \in Deliverers : call[x].step = "ok" => got[call[x].of] > 0
    /\ \A t \in Hooks :
         /\ job[t].state = "completed" => got[t] > 0
         /\ job[t].state = "failed" => t \in dead \cup dropped
         /\ send[t] = "adding" => job[t].state # "none"
         /\ call[t] # NoCall => send[t] = "done"

(* Someone is going to deliver the hook, a job that is only sent not being *)
(* relied on.                                                              *)
InHand(t) ==
    \/ send[t] \in {"add", "adding", "inline"} \/ call[t] # NoCall
    \/ job[t].state \in {"waiting", "active", "delayed"}

FoundAreInHand ==
    \A t \in Hooks :
        send[t] # "none" => got[t] > 0 \/ InHand(t) \/ t \in dead \cup dropped

(* Unless a hook may be delivered twice, the API process delivers it only  *)
(* if there is no job, a worker only as the owner of the job, and nobody   *)
(* once it has been received.                                              *)
Received(t) ==
    /\ got[t] = 1
    /\ send[t] \in {"adding", "done"}
    /\ job[t].state \in {"none", "active", "completed"}
    /\ \A x \in Deliverers : call[x].of = t => call[x].step = "ok"

OneSideDelivers ==
    \A t \in Hooks \ twice :
        /\ send[t] \in {"none", "add", "inline"} \/ call[t] # NoCall
              => job[t].state = "none"
        /\ \A w \in Workers : call[w].of = t => Owns(w, t)
        /\ got[t] > 0 => Received(t)

DeliveryInvariant ==
    /\ DeliveryTypeOK
    /\ JobsAreSound
    /\ CallsHaveHooks
    /\ ChangesAreOrdered
    /\ UnfoundAreIdle
    /\ EndsAreTrue
    /\ FoundAreInHand
    /\ OneSideDelivers

-----------------------------------------------------------------------------
(* What the variables range over, and how one value of each changes.       *)
CallSteps == {"off", "post", "ok", "failed"}
CallRecords == [of : Hooks \cup {Nobody}, step : CallSteps]
SendStates == {"none", "add", "adding", "inline", "done"}

CallBecomes(x, r) ==
    /\ call' \in [Deliverers -> CallRecords] /\ call'[x] = r
    /\ \A y \in Deliverers \ {x} : call'[y] = call[y]

SendBecomes(t, s) ==
    /\ send' \in [Hooks -> SendStates] /\ send'[t] = s
    /\ \A u \in Hooks \ {t} : send'[u] = send[u]

LEMMA DeliveryTypes ==
    ASSUME DeliveryTypeOK
    PROVE  /\ QueueTypeOK /\ job \in [Tasks -> JobRecords] /\ dead \subseteq Tasks
           /\ call \in [Deliverers -> CallRecords] /\ send \in [Hooks -> SendStates]
           /\ got \in [Hooks -> Nat]
           /\ Hooks \subseteq Tasks /\ Hooks \subseteq Deliverers
           /\ Workers \subseteq Deliverers /\ Workers \cap Hooks = {}
           /\ Nobody \notin Hooks /\ Nobody \notin Workers
           /\ \A t \in Hooks : t[1] \in Changes /\ t[2] \in Endpoints
  BY HooksAreTasks, QueueOptions, QueueTypes
     DEF DeliveryTypeOK, Deliverers, CallRecords, CallSteps, SendStates

LEMMA ChangeTypes ==
    ASSUME DeliveryTypeOK
    PROVE  /\ tx \in [Changes -> {"none", "open", "committed", "rolled back"}]
           /\ change \in [Changes -> {"new", "written", "dispatched", "answered", "dead"}]
           /\ trigger \in [Changes -> {"none", "looking", "done"}]
  BY DEF DeliveryTypeOK

LEMMA NoCallIsOff ==
    NoCall \in CallRecords /\ NoCall.of \notin Hooks /\ NoCall.step = "off"
  BY HooksAreTasks DEF NoCall, CallRecords, CallSteps

LEMMA SentFrame ==
    ASSUME DeliveryTypeOK, NEW t \in Hooks, NEW s \in SendStates, Sent(t, s)
    PROVE  SendBecomes(t, s)
  BY DeliveryTypes DEF Sent, SendBecomes

LEMMA CalledFrame ==
    ASSUME DeliveryTypeOK, NEW x \in Deliverers, NEW r \in CallRecords,
           call' = [call EXCEPT ![x] = r]
    PROVE  CallBecomes(x, r)
  BY DeliveryTypes DEF CallBecomes

LEMMA SteppedFrame ==
    ASSUME DeliveryTypeOK, NEW x \in Deliverers, NEW s \in CallSteps,
           call' = [call EXCEPT ![x].step = s]
    PROVE  CallBecomes(x, [of |-> call[x].of, step |-> s])
  BY DeliveryTypes DEF CallBecomes, CallRecords

LEMMA WriteChangeKeeps ==
    ASSUME DeliveryInvariant, NEW c \in Changes, WriteChange(c)
    PROVE  DeliveryInvariant'
  <1> USE DEF DeliveryInvariant
  <1>1. change[c] = "new" /\ change' = [change EXCEPT ![c] = "written"]
    BY DEF WriteChange
  <1>2. /\ tx' = [tx EXCEPT ![c] = "open"]
        /\ spared' = [spared EXCEPT ![c] = Endpoints \ active]
    BY DEF WriteChange
  <1>3. UNCHANGED <<job, dead, trigger, send, active, call, got, early, twice, dropped>>
    BY DEF WriteChange, queueVars
  <1>4. DeliveryTypeOK'
    BY <1>1, <1>2, <1>3, DeliveryTypes DEF DeliveryTypeOK, QueueTypeOK
  <1>5. JobsAreSound' /\ CallsHaveHooks'
    BY <1>3 DEF JobsAreSound, CallsHaveHooks
  <1>6. \A d \in Changes :
           \/ spared'[d] = spared[d] /\ (change'[d] = change[d] \/ trigger[d] = "none")
           \/ d = c /\ spared'[d] \cap active = {} /\ trigger[d] = "none"
    BY <1>1, <1>2 DEF ChangesAreOrdered, DeliveryTypeOK
  <1>7. ChangesAreOrdered'
    BY <1>3, <1>6 DEF ChangesAreOrdered
  <1>8. UnfoundAreIdle'
    BY <1>3, <1>6, DeliveryTypes DEF UnfoundAreIdle
  <1>9. EndsAreTrue' /\ FoundAreInHand' /\ OneSideDelivers'
    BY <1>3 DEF EndsAreTrue, FoundAreInHand, InHand, OneSideDelivers, Received, Owns
  <1> QED BY <1>4, <1>5, <1>7, <1>8, <1>9

LEMMA RequestGoesOn ==
    ASSUME DeliveryInvariant, NEW c \in Changes,
           Dispatch(c) \/ Answer(c) \/ CommitChange(c) \/ TransactionTimesOut(c)
    PROVE  DeliveryInvariant'
  <1> USE DEF DeliveryInvariant
  <1>1. UNCHANGED <<job, dead, send, active, call, got, spared, early, twice, dropped>>
    BY
      DEF Dispatch, Answer, CommitChange, TransactionTimesOut, queueVars,
          deliveryHistory
  <1>2. /\ tx' \in [Changes -> {"none", "open", "committed", "rolled back"}]
        /\ change' \in [Changes -> {"new", "written", "dispatched", "answered", "dead"}]
        /\ trigger' \in [Changes -> {"none", "looking", "done"}]
    BY ChangeTypes DEF Dispatch, Answer, CommitChange, TransactionTimesOut
  <1>3. \A d \in Changes :
           /\ change'[d] \in {"new", "written"} => trigger'[d] = "none"
           /\ trigger[d] = "done" => trigger'[d] = "done"
    BY ChangeTypes
      DEF Dispatch, Answer, CommitChange, TransactionTimesOut, ChangesAreOrdered
  <1>4. DeliveryTypeOK'
    BY <1>1, <1>2 DEF DeliveryTypeOK, QueueTypeOK
  <1>5. JobsAreSound' /\ CallsHaveHooks'
    BY <1>1 DEF JobsAreSound, CallsHaveHooks
  <1>6. ChangesAreOrdered'
    BY <1>1, <1>3 DEF ChangesAreOrdered
  <1>7. UnfoundAreIdle'
    BY <1>1, <1>3, DeliveryTypes DEF UnfoundAreIdle
  <1>8. EndsAreTrue' /\ FoundAreInHand'
    BY <1>1 DEF EndsAreTrue, FoundAreInHand, InHand
  <1>9. OneSideDelivers'
    BY <1>1 DEF OneSideDelivers, Received, Owns
  <1> QED BY <1>4, <1>5, <1>6, <1>7, <1>8, <1>9

LEMMA RevokeKeeps ==
    ASSUME DeliveryInvariant, NEW e \in Endpoints, Revoke(e)
    PROVE  DeliveryInvariant'
  <1> USE DEF DeliveryInvariant
  <1>1. active' = active \ {e}
    BY DEF Revoke
  <1>2. UNCHANGED <<job, dead, tx, change, trigger, send, call, got, spared, early,
                               twice, dropped>>
    BY DEF Revoke, queueVars, apiVars, deliveryHistory
  <1>3. DeliveryTypeOK'
    BY <1>1, <1>2, DeliveryTypes DEF DeliveryTypeOK, QueueTypeOK
  <1>4. JobsAreSound' /\ CallsHaveHooks'
    BY <1>2 DEF JobsAreSound, CallsHaveHooks
  <1>5. ChangesAreOrdered'
    BY <1>1, <1>2 DEF ChangesAreOrdered
  <1>6. UnfoundAreIdle' /\ EndsAreTrue' /\ FoundAreInHand' /\ OneSideDelivers'
    BY <1>2
      DEF UnfoundAreIdle, EndsAreTrue, FoundAreInHand, InHand, OneSideDelivers,
          Received, Owns
  <1> QED BY <1>3, <1>4, <1>5, <1>6

LEMMA LookUpKeeps ==
    ASSUME DeliveryInvariant, NEW c \in Changes, LookUp(c)
    PROVE  DeliveryInvariant'
  <1> USE DEF DeliveryInvariant
  <1>1. /\ trigger[c] = "looking" /\ trigger' = [trigger EXCEPT ![c] = "done"]
        /\ trigger' \in [Changes -> {"none", "looking", "done"}]
    BY ChangeTypes DEF LookUp
  <1>2. /\ send' \in [Hooks -> SendStates]
        /\ \A t \in Hooks :
              \/ send'[t] = send[t]
              \/ t[1] = c /\ t[2] \in active /\ send'[t] = "add"
    <2> DEFINE found == {t \in For(c) : t[2] \in ActiveByEventType}
    <2>1. \A t \in found : t[1] = c /\ t[2] \in active
      BY DEF For, ActiveByEventType
    <2>2. \/ send' = [t \in Hooks |-> IF t \in found THEN "add" ELSE send[t]]
          \/ send' = send
      BY DEF LookUp
    <2> HIDE DEF found
    <2>3. send' \in [Hooks -> SendStates]
      BY <2>2, DeliveryTypes DEF SendStates
    <2>4. \A t \in Hooks : send'[t] = send[t] \/ (t \in found /\ send'[t] = "add")
      BY <2>2
    <2> QED BY <2>1, <2>3, <2>4
  <1>3. dropped \subseteq dropped' /\ dropped' \subseteq Hooks
    BY DEF LookUp, For, DeliveryTypeOK
  <1>4. UNCHANGED <<job, dead, tx, change, active, call, got, spared, early, twice>>
    BY DEF LookUp, queueVars
  <1>5. ASSUME NEW t \in Hooks, send'[t] # send[t]
        PROVE  /\ send'[t] = "add" /\ t[2] \notin spared[t[1]]
               /\ job[t].state = "none" /\ got[t] = 0 /\ call[t] = NoCall
               /\ trigger'[t[1]] = "done"
    <2>1. t[1] = c /\ t[2] \in active /\ send'[t] = "add" /\ send[t] = "none"
      BY <1>1, <1>2, <1>5 DEF UnfoundAreIdle
    <2> QED BY <1>1, <2>1, ChangeTypes, DeliveryTypes
      DEF UnfoundAreIdle, ChangesAreOrdered, CallsHaveHooks
  <1>6. DeliveryTypeOK'
    BY <1>1, <1>2, <1>3, <1>4 DEF DeliveryTypeOK, QueueTypeOK, SendStates
  <1>7. JobsAreSound' /\ CallsHaveHooks'
    BY <1>4 DEF JobsAreSound, CallsHaveHooks
  <1>8. ChangesAreOrdered'
    BY <1>1, <1>4 DEF ChangesAreOrdered
  <1>9. UnfoundAreIdle'
    <2>1. \A t \in Hooks : send'[t] = "none" => send[t] = "none"
      BY <1>5
    <2>2. \A t \in Hooks : trigger'[t[1]] # "done" => trigger[t[1]] # "done"
      BY <1>1, ChangeTypes, DeliveryTypes
    <2>3. \A t \in Hooks : trigger'[t[1]] # "done" \/ t[2] \in spared[t[1]]
                           => send'[t] = "none"
      BY <1>5, <2>2 DEF UnfoundAreIdle
    <2> QED BY <1>4, <2>1, <2>3 DEF UnfoundAreIdle
  <1>10. EndsAreTrue'
    BY <1>3, <1>4, <1>5 DEF EndsAreTrue
  <1>11. FoundAreInHand'
    BY <1>3, <1>4, <1>5 DEF FoundAreInHand, InHand
  <1>12. OneSideDelivers'
    BY <1>4, <1>5 DEF OneSideDelivers, Received, Owns
  <1> QED BY <1>6, <1>7, <1>8, <1>9, <1>10, <1>11, <1>12

LEMMA EnqueueSkipsKeeps ==
    ASSUME DeliveryInvariant, NEW t \in Hooks, EnqueueSkips(t)
    PROVE  DeliveryInvariant'
  <1> USE DEF DeliveryInvariant
  <1>1. send[t] = "add" /\ SendBecomes(t, "inline")
    BY SentFrame DEF EnqueueSkips, SendStates
  <1>2. UNCHANGED <<job, dead, tx, change, trigger, active, call, got, spared, early,
                               twice, dropped>>
    BY DEF EnqueueSkips, queueVars, deliveryHistory
  <1>3. DeliveryTypeOK'
    BY <1>1, <1>2, DeliveryTypes
      DEF DeliveryTypeOK, SendBecomes, QueueTypeOK, SendStates
  <1>4. JobsAreSound' /\ CallsHaveHooks' /\ ChangesAreOrdered'
    BY <1>2 DEF JobsAreSound, CallsHaveHooks, ChangesAreOrdered
  <1>5. UnfoundAreIdle'
    BY <1>1, <1>2, DeliveryTypes DEF UnfoundAreIdle, SendBecomes
  <1>6. EndsAreTrue'
    BY <1>1, <1>2, DeliveryTypes DEF EndsAreTrue, SendBecomes
  <1>7. FoundAreInHand'
    BY <1>1, <1>2, DeliveryTypes
      DEF FoundAreInHand, InHand, SendBecomes, EndsAreTrue, UnfoundAreIdle
  <1>8. OneSideDelivers'
    BY <1>1, <1>2, DeliveryTypes
      DEF OneSideDelivers, Received, Owns, SendBecomes, EndsAreTrue, UnfoundAreIdle
  <1> QED BY <1>3, <1>4, <1>5, <1>6, <1>7, <1>8

LEMMA EnqueueSendsKeeps ==
    ASSUME DeliveryInvariant, NEW t \in Hooks, EnqueueSends(t)
    PROVE  DeliveryInvariant'
  <1> USE DEF DeliveryInvariant
  <1>1. send[t] = "add" /\ SendBecomes(t, "adding")
    BY SentFrame DEF EnqueueSends, SendStates
  <1>2. /\ JobBecomes(t, "sent", job[t].owner, job[t].made) /\ job[t].state = "none"
        /\ dead' = dead
    BY SendFrame, DeliveryTypes DEF EnqueueSends
  <1>3. UNCHANGED <<dead, tx, change, trigger, active, call, got, spared, early,
                               twice, dropped>>
    BY DEF EnqueueSends, deliveryHistory, Send
  <1>4. DeliveryTypeOK'
    BY <1>1, <1>2, <1>3, DeliveryTypes
      DEF DeliveryTypeOK, SendBecomes, JobBecomes, QueueTypeOK, JobRecords, SendStates
  <1>5. JobsAreSound'
    BY <1>2 DEF JobsAreSound, JobBecomes
  <1>6. CallsHaveHooks' /\ ChangesAreOrdered'
    BY <1>3 DEF CallsHaveHooks, ChangesAreOrdered
  <1>7. UnfoundAreIdle'
    BY <1>1, <1>2, <1>3, DeliveryTypes DEF UnfoundAreIdle, SendBecomes, JobBecomes
  <1>8. EndsAreTrue'
    BY <1>1, <1>2, <1>3, DeliveryTypes DEF EndsAreTrue, SendBecomes, JobBecomes
  <1>9. FoundAreInHand'
    BY <1>1, <1>2, <1>3, DeliveryTypes
      DEF FoundAreInHand, InHand, SendBecomes, JobBecomes, EndsAreTrue, UnfoundAreIdle
  <1>10. OneSideDelivers'
    BY <1>1, <1>2, <1>3, DeliveryTypes
      DEF OneSideDelivers, Received, Owns, SendBecomes, JobBecomes, EndsAreTrue,
          UnfoundAreIdle
  <1> QED BY <1>4, <1>5, <1>6, <1>7, <1>8, <1>9, <1>10

LEMMA EnqueueArrivesKeeps ==
    ASSUME DeliveryInvariant, NEW t \in Hooks, EnqueueArrives(t)
    PROVE  DeliveryInvariant'
  <1> USE DEF DeliveryInvariant
  <1>1. /\ JobBecomes(t, "waiting", job[t].owner, job[t].made)
        /\ job[t].state = "sent"
    BY ArriveFrame, DeliveryTypes DEF EnqueueArrives
  <1>2. UNCHANGED <<dead, tx, change, trigger, send, active, call, got, spared, early,
                               twice, dropped>>
    BY DEF EnqueueArrives, apiVars, deliveryHistory, Arrive
  <1>3. DeliveryTypeOK'
    BY <1>1, <1>2, DeliveryTypes DEF DeliveryTypeOK, JobBecomes, QueueTypeOK, JobRecords
  <1>4. JobsAreSound'
    BY <1>1 DEF JobsAreSound, JobBecomes
  <1>5. CallsHaveHooks' /\ ChangesAreOrdered'
    BY <1>2 DEF CallsHaveHooks, ChangesAreOrdered
  <1>6. UnfoundAreIdle'
    BY <1>1, <1>2, DeliveryTypes DEF UnfoundAreIdle, JobBecomes
  <1>7. EndsAreTrue'
    BY <1>1, <1>2, DeliveryTypes DEF EndsAreTrue, JobBecomes
  <1>8. FoundAreInHand'
    BY <1>1, <1>2, DeliveryTypes
      DEF FoundAreInHand, InHand, JobBecomes, EndsAreTrue, UnfoundAreIdle
  <1>9. OneSideDelivers'
    BY <1>1, <1>2, DeliveryTypes
      DEF OneSideDelivers, Received, Owns, JobBecomes, EndsAreTrue, UnfoundAreIdle
  <1> QED BY <1>3, <1>4, <1>5, <1>6, <1>7, <1>8, <1>9

LEMMA EnqueueResolvesKeeps ==
    ASSUME DeliveryInvariant, NEW t \in Hooks, EnqueueResolves(t)
    PROVE  DeliveryInvariant'
  <1> USE DEF DeliveryInvariant
  <1>1. send[t] = "adding" /\ job[t].state # "sent" /\ SendBecomes(t, "done")
    BY SentFrame DEF EnqueueResolves, SendStates
  <1>2. UNCHANGED <<job, dead, tx, change, trigger, active, call, got, spared, early,
                               twice, dropped>>
    BY DEF EnqueueResolves, queueVars, deliveryHistory
  <1>3. DeliveryTypeOK'
    BY <1>1, <1>2, DeliveryTypes
      DEF DeliveryTypeOK, SendBecomes, QueueTypeOK, SendStates
  <1>4. JobsAreSound' /\ CallsHaveHooks' /\ ChangesAreOrdered'
    BY <1>2 DEF JobsAreSound, CallsHaveHooks, ChangesAreOrdered
  <1>5. UnfoundAreIdle'
    BY <1>1, <1>2, DeliveryTypes DEF UnfoundAreIdle, SendBecomes
  <1>6. EndsAreTrue'
    BY <1>1, <1>2, DeliveryTypes DEF EndsAreTrue, SendBecomes
  <1>7. FoundAreInHand'
    <2>1. job[t].state \in JobStates
      BY DeliveryTypes DEF JobRecords
    <2>2. job[t].state \in {"waiting", "active", "delayed"} \/ got[t] > 0
             \/ t \in dead \cup dropped
      BY <1>1, <2>1 DEF EndsAreTrue, JobStates
    <2> QED BY <1>1, <1>2, <2>2 DEF FoundAreInHand, InHand, SendBecomes
  <1>8. OneSideDelivers'
    BY <1>1, <1>2, DeliveryTypes
      DEF OneSideDelivers, Received, Owns, SendBecomes, EndsAreTrue, UnfoundAreIdle
  <1> QED BY <1>3, <1>4, <1>5, <1>6, <1>7, <1>8

LEMMA EnqueueRejectsKeeps ==
    ASSUME DeliveryInvariant, NEW t \in Hooks, EnqueueRejects(t)
    PROVE  DeliveryInvariant'
  <1> USE DEF DeliveryInvariant
  <1>1. /\ send[t] = "adding" /\ SendBecomes(t, "inline")
        /\ job[t].state = "sent"
    BY SentFrame DEF EnqueueRejects, SendStates
  <1>2. JobBecomes(t, "none", job[t].owner, job[t].made)
    BY <1>1, DropFrame, DeliveryTypes DEF EnqueueRejects
  <1>3. UNCHANGED <<dead, tx, change, trigger, active, call, got, spared, early,
                               twice, dropped>>
    BY DEF EnqueueRejects, deliveryHistory, DropSent
  <1>4. DeliveryTypeOK'
    BY <1>1, <1>2, <1>3, DeliveryTypes
      DEF DeliveryTypeOK, SendBecomes, JobBecomes, QueueTypeOK, JobRecords, SendStates
  <1>5. JobsAreSound'
    BY <1>1, <1>2 DEF JobsAreSound, JobBecomes
  <1>6. CallsHaveHooks' /\ ChangesAreOrdered'
    BY <1>3 DEF CallsHaveHooks, ChangesAreOrdered
  <1>7. UnfoundAreIdle'
    BY <1>1, <1>2, <1>3, DeliveryTypes DEF UnfoundAreIdle, SendBecomes, JobBecomes
  <1>8. EndsAreTrue'
    BY <1>1, <1>2, <1>3, DeliveryTypes DEF EndsAreTrue, SendBecomes, JobBecomes
  <1>9. FoundAreInHand'
    BY <1>1, <1>2, <1>3, DeliveryTypes
      DEF FoundAreInHand, InHand, SendBecomes, JobBecomes, EndsAreTrue, UnfoundAreIdle
  <1>10. OneSideDelivers'
    BY <1>1, <1>2, <1>3, DeliveryTypes
      DEF OneSideDelivers, Received, Owns, SendBecomes, JobBecomes, EndsAreTrue,
          UnfoundAreIdle
  <1> QED BY <1>4, <1>5, <1>6, <1>7, <1>8, <1>9, <1>10

LEMMA EnqueueTimesOutKeeps ==
    ASSUME DeliveryInvariant, NEW t \in Hooks, EnqueueTimesOut(t)
    PROVE  DeliveryInvariant'
  <1> USE DEF DeliveryInvariant
  <1>1. /\ send[t] = "adding" /\ SendBecomes(t, "inline")
        /\ twice' = twice \cup {t}
    BY SentFrame DEF EnqueueTimesOut, SendStates
  <1>2. UNCHANGED <<job, dead, tx, change, trigger, active, call, got, spared, early,
                  dropped>>
    BY DEF EnqueueTimesOut, queueVars
  <1>3. DeliveryTypeOK'
    BY <1>1, <1>2, DeliveryTypes
      DEF DeliveryTypeOK, SendBecomes, QueueTypeOK, SendStates
  <1>4. JobsAreSound' /\ CallsHaveHooks' /\ ChangesAreOrdered'
    BY <1>2 DEF JobsAreSound, CallsHaveHooks, ChangesAreOrdered
  <1>5. UnfoundAreIdle'
    BY <1>1, <1>2, DeliveryTypes DEF UnfoundAreIdle, SendBecomes
  <1>6. EndsAreTrue'
    BY <1>1, <1>2, DeliveryTypes DEF EndsAreTrue, SendBecomes
  <1>7. FoundAreInHand'
    BY <1>1, <1>2, DeliveryTypes
      DEF FoundAreInHand, InHand, SendBecomes, EndsAreTrue, UnfoundAreIdle
  <1>8. OneSideDelivers'
    BY <1>1, <1>2, DeliveryTypes
      DEF OneSideDelivers, Received, Owns, SendBecomes, EndsAreTrue, UnfoundAreIdle
  <1> QED BY <1>3, <1>4, <1>5, <1>6, <1>7, <1>8

LEMMA DeliveryTakenKeeps ==
    ASSUME DeliveryInvariant, NEW w \in Workers, NEW t \in Hooks, DeliveryTaken(w, t)
    PROVE  DeliveryInvariant'
  <1> USE DEF DeliveryInvariant
  <1>1. call[w] = NoCall /\ CallBecomes(w, [of |-> t, step |-> "post"])
    BY CalledFrame, DeliveryTypes DEF DeliveryTaken, CallRecords, CallSteps
  <1>2. /\ JobBecomes(t, "active", w, job[t].made)
        /\ job[t].state \in {"waiting", "delayed"}
    BY TakeFrame, DeliveryTypes DEF DeliveryTaken
  <1>3. UNCHANGED <<dead, tx, change, trigger, send, active, got, spared, early,
                               twice, dropped>>
    BY DEF DeliveryTaken, apiVars, deliveryHistory, Take
  <1>4. DeliveryTypeOK'
    BY <1>1, <1>2, <1>3, DeliveryTypes, NoCallIsOff
      DEF DeliveryTypeOK, CallBecomes, JobBecomes, QueueTypeOK, JobRecords,
          CallRecords, CallSteps
  <1>5. JobsAreSound'
    BY <1>2 DEF JobsAreSound, JobBecomes
  <1>6. CallsHaveHooks'
    BY <1>1, DeliveryTypes, NoCallIsOff DEF CallsHaveHooks, CallBecomes
  <1>7. ChangesAreOrdered'
    BY <1>3 DEF ChangesAreOrdered
  <1>8. UnfoundAreIdle'
    BY <1>1, <1>2, <1>3, DeliveryTypes, NoCallIsOff
      DEF UnfoundAreIdle, CallBecomes, JobBecomes, CallsHaveHooks
  <1>9. EndsAreTrue'
    BY <1>1, <1>2, <1>3, DeliveryTypes, NoCallIsOff
      DEF EndsAreTrue, CallBecomes, JobBecomes, CallsHaveHooks
  <1>10. FoundAreInHand'
    BY <1>1, <1>2, <1>3, DeliveryTypes, NoCallIsOff
      DEF FoundAreInHand, InHand, CallBecomes, JobBecomes, CallsHaveHooks,
          EndsAreTrue, UnfoundAreIdle
  <1>11. OneSideDelivers'
    BY <1>1, <1>2, <1>3, DeliveryTypes, NoCallIsOff
      DEF OneSideDelivers, Received, Owns, CallBecomes, JobBecomes, CallsHaveHooks,
          EndsAreTrue, UnfoundAreIdle
  <1> QED BY <1>4, <1>5, <1>6, <1>7, <1>8, <1>9, <1>10, <1>11

LEMMA DeliverDirectlyKeeps ==
    ASSUME DeliveryInvariant, NEW t \in Hooks, DeliverDirectly(t)
    PROVE  DeliveryInvariant'
  <1> USE DEF DeliveryInvariant
  <1>1. /\ send[t] = "inline" /\ SendBecomes(t, "done")
        /\ CallBecomes(t, [of |-> t, step |-> "post"])
    BY SentFrame, CalledFrame, DeliveryTypes
      DEF DeliverDirectly, CallRecords, CallSteps, SendStates
  <1>2. UNCHANGED <<job, dead, tx, change, trigger, active, got, spared, early, twice,
     dropped>>
    BY DEF DeliverDirectly, queueVars, deliveryHistory
  <1>3. DeliveryTypeOK'
    BY <1>1, <1>2, DeliveryTypes, NoCallIsOff
      DEF DeliveryTypeOK, CallBecomes, SendBecomes, QueueTypeOK, CallRecords,
          CallSteps, SendStates
  <1>4. JobsAreSound'
    BY <1>2 DEF JobsAreSound
  <1>5. CallsHaveHooks'
    BY <1>1, DeliveryTypes, NoCallIsOff DEF CallsHaveHooks, CallBecomes
  <1>6. ChangesAreOrdered'
    BY <1>2 DEF ChangesAreOrdered
  <1>7. UnfoundAreIdle'
    BY <1>1, <1>2, DeliveryTypes, NoCallIsOff
      DEF UnfoundAreIdle, CallBecomes, SendBecomes, CallsHaveHooks
  <1>8. EndsAreTrue'
    BY <1>1, <1>2, DeliveryTypes, NoCallIsOff
      DEF EndsAreTrue, CallBecomes, SendBecomes, CallsHaveHooks
  <1>9. FoundAreInHand'
    BY <1>1, <1>2, DeliveryTypes, NoCallIsOff
      DEF FoundAreInHand, InHand, CallBecomes, SendBecomes, CallsHaveHooks,
          EndsAreTrue, UnfoundAreIdle
  <1>10. OneSideDelivers'
    BY <1>1, <1>2, DeliveryTypes, NoCallIsOff
      DEF OneSideDelivers, Received, Owns, CallBecomes, SendBecomes, CallsHaveHooks,
          EndsAreTrue, UnfoundAreIdle
  <1> QED BY <1>3, <1>4, <1>5, <1>6, <1>7, <1>8, <1>9, <1>10

LEMMA PostKeeps ==
    ASSUME DeliveryInvariant, NEW x \in Deliverers, Post(x)
    PROVE  DeliveryInvariant'
  <1> USE DEF DeliveryInvariant
  <1>1. call[x].step = "post" /\ call[x].of \in Hooks
    BY DEF Post, CallsHaveHooks, NoCall
  <1>2. /\ twice' \subseteq twice \cup {call[x].of} /\ twice \subseteq twice'
        /\ early' \subseteq early \cup {call[x].of}
    BY DEF Post
  <1>3. \/ /\ CallBecomes(x, [of |-> call[x].of, step |-> "failed"])
           /\ got' = got
        \/ /\ got' = [got EXCEPT ![call[x].of] = @ + 1]
           /\ \/ CallBecomes(x, [of |-> call[x].of, step |-> "ok"])
              \/ /\ CallBecomes(x, [of |-> call[x].of, step |-> "failed"])
                 /\ twice' = twice \cup {call[x].of}
    BY SteppedFrame DEF Post, CallSteps
  <1>4. /\ got' \in [Hooks -> Nat]
        /\ got'[call[x].of] \in Nat /\ got[call[x].of] \in Nat
        /\ \A t \in Hooks \ {call[x].of} : got'[t] = got[t]
    BY <1>1, <1>3, DeliveryTypes
  <1>5. UNCHANGED <<job, dead, tx, change, trigger, send, active, spared, dropped>>
    BY DEF Post, queueVars, apiVars
  <1>6. DeliveryTypeOK'
    <2>1. call' \in [Deliverers -> CallRecords]
      BY <1>3 DEF CallBecomes
    <2> QED BY <1>1, <1>2, <1>4, <1>5, <2>1
      DEF DeliveryTypeOK, QueueTypeOK, CallRecords, CallSteps
  <1>7. JobsAreSound'
    BY <1>5 DEF JobsAreSound
  <1>8. CallsHaveHooks'
    BY <1>1, <1>2, <1>3, DeliveryTypes, NoCallIsOff DEF CallsHaveHooks, CallBecomes
  <1>9. ChangesAreOrdered'
    BY <1>5 DEF ChangesAreOrdered
  <1>10. UnfoundAreIdle'
    BY <1>1, <1>2, <1>3, <1>5, DeliveryTypes, NoCallIsOff
      DEF UnfoundAreIdle, CallBecomes, CallsHaveHooks
  <1>11. EndsAreTrue'
    BY <1>1, <1>2, <1>3, <1>5, DeliveryTypes, NoCallIsOff
      DEF EndsAreTrue, CallBecomes, CallsHaveHooks
  <1>12. FoundAreInHand'
    BY <1>1, <1>2, <1>3, <1>5, DeliveryTypes, NoCallIsOff
      DEF FoundAreInHand, InHand, CallBecomes, CallsHaveHooks, EndsAreTrue,
          UnfoundAreIdle
  <1>13. OneSideDelivers'
    <2>0. PICK u \in Hooks : u = call[x].of
      BY <1>1
    <2>1. ASSUME NEW t \in Hooks \ twice', t # u
          PROVE  /\ send[t] \in {"none", "add", "inline"} \/ call'[t] # NoCall
                      => job[t].state = "none"
                 /\ \A w \in Workers : call'[w].of = t => Owns(w, t)
                 /\ got'[t] > 0 => Received(t)'
      <3>1. call'[t] # NoCall => call[t] # NoCall
        <4>1. t # x
          BY <2>0, <1>1, <2>1, NoCallIsOff, DeliveryTypes DEF CallsHaveHooks
        <4> QED BY <2>0, <1>3, <4>1, DeliveryTypes DEF CallBecomes
      <3>2. \A y \in Deliverers : call'[y].of = t => call'[y] = call[y]
        BY <2>0, <1>3, <2>1 DEF CallBecomes
      <3> QED BY <2>0, <1>2, <1>4, <1>5, <2>1, <3>1, <3>2, DeliveryTypes
        DEF OneSideDelivers, Received
    <2>2. ASSUME u \notin twice'
          PROVE  /\ send[u] \in {"none", "add", "inline"} \/ call'[u] # NoCall
                      => job[u].state = "none"
                 /\ \A w \in Workers : call'[w].of = u => Owns(w, u)
                 /\ got'[u] > 0 => Received(u)'
      <3>1. u \in Hooks \ twice /\ got[u] = 0 /\ got[u] \in Nat
        BY <2>0, <1>1, <1>2, <1>4, <2>2 DEF OneSideDelivers, Received
      <3>2. \A y \in Deliverers : call'[y].of = u => y = x
        <4>1. \A y \in Deliverers :
                 call[y].of = u => y = u \/ (y \in Workers /\ Owns(y, u))
          BY <3>1, NoCallIsOff DEF CallsHaveHooks, OneSideDelivers
        <4>2. call[u].of = u => job[u].state = "none"
          BY <3>1, NoCallIsOff DEF OneSideDelivers
        <4> QED BY <2>0, <1>3, <3>1, <4>1, <4>2 DEF CallBecomes, Owns
      <3>3. call'[u] # NoCall => call[u] # NoCall
        <4>1. CASE u = x
          BY <2>0, <1>1, <4>1, NoCallIsOff
        <4>2. CASE u # x
          BY <2>0, <1>3, <3>1, <4>2, DeliveryTypes DEF CallBecomes
        <4> QED BY <4>1, <4>2
      <3>4. x = u \/ (x \in Workers /\ Owns(x, u))
        BY <2>0, <1>1, <3>1 DEF CallsHaveHooks, OneSideDelivers, NoCall
      <3>5. /\ send[u] \in {"none", "add", "inline"} \/ call'[u] # NoCall
                 => job[u].state = "none"
            /\ \A w \in Workers : call'[w].of = u => Owns(w, u)
        BY <3>1, <3>2, <3>3, <3>4, DeliveryTypes DEF OneSideDelivers
      <3>6. send[u] \in {"adding", "done"} /\ job[u].state \in {"none", "active"}
        <4>1. CASE x = u
          BY <2>0, <1>1, <3>1, <4>1, NoCallIsOff DEF EndsAreTrue, OneSideDelivers
        <4>2. CASE Owns(x, u)
          BY <3>1, <4>2, DeliveryTypes DEF Owns, OneSideDelivers, SendStates
        <4> QED BY <3>4, <4>1, <4>2
      <3>7. ASSUME got'[u] > 0
            PROVE  got'[u] = 1 /\ call'[x].step = "ok"
        BY <2>0, <1>3, <2>2, <3>1, <3>7, DeliveryTypes DEF CallBecomes
      <3>8. got'[u] > 0 => Received(u)'
        BY <1>5, <3>2, <3>6, <3>7 DEF Received
      <3> QED BY <3>5, <3>8
    <2>3. send' = send /\ job' = job
      BY <1>5
    <2> QED BY <2>1, <2>2, <2>3 DEF OneSideDelivers, Owns
  <1> QED BY <1>6, <1>7, <1>8, <1>9, <1>10, <1>11, <1>12, <1>13

LEMMA DeliveryEndsKeeps ==
    ASSUME DeliveryInvariant, NEW w \in Workers, DeliveryEnds(w)
    PROVE  DeliveryInvariant'
  <1> USE DEF DeliveryInvariant
  <1>1. /\ call[w].step \in {"ok", "failed"} /\ call[w].of \in Hooks
        /\ CallBecomes(w, NoCall)
    BY CalledFrame, DeliveryTypes, NoCallIsOff DEF DeliveryEnds, CallsHaveHooks
  <1>2. \/ /\ call[w].step = "ok" /\ dropped' = dropped /\ dead' = dead
           /\ IF Owns(w, call[w].of)
              THEN JobBecomes(call[w].of, "completed", Nobody, job[call[w].of].made)
              ELSE job' = job
        \/ /\ call[w].step = "failed" /\ ~ Owns(w, call[w].of)
           /\ job' = job /\ dead' = dead
           /\ dropped \subseteq dropped' /\ dropped' \subseteq Hooks
        \/ /\ call[w].step = "failed" /\ Owns(w, call[w].of)
           /\ dropped \subseteq dropped' /\ dropped' \subseteq Hooks
           /\ dead \subseteq dead' /\ dead' \subseteq Tasks
           /\ \/ /\ JobBecomes(call[w].of, "delayed", Nobody, job[call[w].of].made + 1)
                 /\ job[call[w].of].made + 1 < MaxAttempts
              \/ /\ JobBecomes(call[w].of, "failed", Nobody, MaxAttempts)
                 /\ call[w].of \in dead' \cup dropped'
    <2> DEFINE t == call[w].of
    <2>1. CASE call[w].step = "ok"
      BY <1>1, <2>1, CompletesFrame, DeliveryTypes DEF DeliveryEnds
    <2>2. CASE call[w].step = "failed"
      <3>1. /\ JobFails(w, t)
            /\ dropped' = IF job'[t].state = "failed" /\ t \notin dead'
                          THEN dropped \cup {t} ELSE dropped
        BY <2>2 DEF DeliveryEnds
      <3>2. dropped \subseteq dropped' /\ dropped' \subseteq Hooks
        BY <1>1, <3>1 DEF DeliveryTypeOK
      <3>3. CASE ~ Owns(w, t)
        BY <2>2, <3>1, <3>2, <3>3 DEF JobFails, queueVars
      <3>4. CASE Owns(w, t)
        <4>1. t \in Tasks /\ dead \subseteq Tasks /\ QueueTypeOK
          BY <1>1, DeliveryTypes
        <4>2. \/ /\ JobBecomes(t, "delayed", Nobody, job[t].made + 1)
                 /\ job[t].made + 1 < MaxAttempts /\ dead' = dead
              \/ /\ JobBecomes(t, "failed", Nobody, MaxAttempts)
                 /\ dead' \in {dead, dead \cup {t}}
          BY <3>1, <3>4, <4>1, FailsFrame
        <4>3. CASE JobBecomes(t, "failed", Nobody, MaxAttempts)
          BY <2>2, <3>1, <3>2, <3>4, <4>1, <4>2, <4>3 DEF JobBecomes
        <4> QED BY <2>2, <3>2, <3>4, <4>1, <4>2, <4>3
      <3> QED BY <3>3, <3>4
    <2> QED BY <1>1, <2>1, <2>2
  <1>3. UNCHANGED <<tx, change, trigger, send, active, got, spared, early, twice>>
    BY DEF DeliveryEnds, apiVars
  <1>4. DeliveryTypeOK'
    BY <1>1, <1>2, <1>3, DeliveryTypes, NoCallIsOff
      DEF DeliveryTypeOK, CallBecomes, JobBecomes, QueueTypeOK, JobRecords,
          CallRecords, CallSteps
  <1>5. JobsAreSound'
    <2>1. job[call[w].of].made \in Nat /\ MaxAttempts \in Nat
      BY <1>1, DeliveryTypes, QueueOptions DEF JobRecords
    <2> QED BY <1>1, <1>2, <2>1, DeliveryTypes DEF JobsAreSound, JobBecomes, Owns
  <1>6. CallsHaveHooks'
    BY <1>1, <1>2, DeliveryTypes, NoCallIsOff DEF CallsHaveHooks, CallBecomes
  <1>7. ChangesAreOrdered'
    BY <1>3 DEF ChangesAreOrdered
  <1>8. UnfoundAreIdle'
    BY <1>1, <1>2, <1>3, DeliveryTypes, NoCallIsOff
      DEF UnfoundAreIdle, CallBecomes, JobBecomes, CallsHaveHooks
  <1>9. EndsAreTrue'
    BY <1>1, <1>2, <1>3, DeliveryTypes, NoCallIsOff
      DEF EndsAreTrue, CallBecomes, JobBecomes, CallsHaveHooks
  <1>10. FoundAreInHand'
    BY <1>1, <1>2, <1>3, DeliveryTypes, NoCallIsOff
      DEF FoundAreInHand, InHand, CallBecomes, JobBecomes, CallsHaveHooks,
          EndsAreTrue, UnfoundAreIdle
  <1>11. OneSideDelivers'
    BY <1>1, <1>2, <1>3, DeliveryTypes, NoCallIsOff
      DEF OneSideDelivers, Received, Owns, CallBecomes, JobBecomes, CallsHaveHooks,
          EndsAreTrue, UnfoundAreIdle
  <1> QED BY <1>4, <1>5, <1>6, <1>7, <1>8, <1>9, <1>10, <1>11

LEMMA DirectEndsKeeps ==
    ASSUME DeliveryInvariant, NEW t \in Hooks, DirectEnds(t)
    PROVE  DeliveryInvariant'
  <1> USE DEF DeliveryInvariant
  <1>1. /\ call[t].step \in {"ok", "failed"} /\ CallBecomes(t, NoCall)
    BY CalledFrame, DeliveryTypes, NoCallIsOff DEF DirectEnds
  <1>2. dropped' = IF call[t].step = "failed" THEN dropped \cup {t} ELSE dropped
    BY DEF DirectEnds
  <1>3. UNCHANGED <<job, dead, tx, change, trigger, send, active, got, spared, early,
                  twice>>
    BY DEF DirectEnds, queueVars, apiVars
  <1>4. DeliveryTypeOK'
    BY <1>1, <1>2, <1>3, DeliveryTypes, NoCallIsOff
      DEF DeliveryTypeOK, CallBecomes, QueueTypeOK, CallRecords, CallSteps
  <1>5. JobsAreSound'
    BY <1>3 DEF JobsAreSound
  <1>6. CallsHaveHooks'
    BY <1>1, <1>2, DeliveryTypes, NoCallIsOff DEF CallsHaveHooks, CallBecomes
  <1>7. ChangesAreOrdered'
    BY <1>3 DEF ChangesAreOrdered
  <1>8. UnfoundAreIdle'
    BY <1>1, <1>2, <1>3, DeliveryTypes, NoCallIsOff
      DEF UnfoundAreIdle, CallBecomes, CallsHaveHooks
  <1>9. EndsAreTrue'
    BY <1>1, <1>2, <1>3, DeliveryTypes, NoCallIsOff
      DEF EndsAreTrue, CallBecomes, CallsHaveHooks
  <1>10. FoundAreInHand'
    BY <1>1, <1>2, <1>3, DeliveryTypes, NoCallIsOff
      DEF FoundAreInHand, InHand, CallBecomes, CallsHaveHooks, EndsAreTrue,
          UnfoundAreIdle
  <1>11. OneSideDelivers'
    BY <1>1, <1>2, <1>3, DeliveryTypes, NoCallIsOff
      DEF OneSideDelivers, Received, Owns, CallBecomes, CallsHaveHooks, EndsAreTrue,
          UnfoundAreIdle
  <1> QED BY <1>4, <1>5, <1>6, <1>7, <1>8, <1>9, <1>10, <1>11

LEMMA DelivererDiesKeeps ==
    ASSUME DeliveryInvariant, NEW w \in Workers, DelivererDies(w)
    PROVE  DeliveryInvariant'
  <1> USE DEF DeliveryInvariant
  <1>1. CallBecomes(w, NoCall)
    BY CalledFrame, DeliveryTypes, NoCallIsOff DEF DelivererDies
  <1>2. UNCHANGED <<job, dead, tx, change, trigger, send, active, got, spared, early,
                               twice, dropped>>
    BY DEF DelivererDies, queueVars, apiVars, deliveryHistory
  <1>3. DeliveryTypeOK'
    BY <1>1, <1>2, DeliveryTypes, NoCallIsOff
      DEF DeliveryTypeOK, CallBecomes, QueueTypeOK, CallRecords, CallSteps
  <1>4. JobsAreSound'
    BY <1>2 DEF JobsAreSound
  <1>5. CallsHaveHooks'
    BY <1>1, DeliveryTypes, NoCallIsOff DEF CallsHaveHooks, CallBecomes
  <1>6. ChangesAreOrdered'
    BY <1>2 DEF ChangesAreOrdered
  <1>7. UnfoundAreIdle'
    BY <1>1, <1>2, DeliveryTypes, NoCallIsOff
      DEF UnfoundAreIdle, CallBecomes, CallsHaveHooks
  <1>8. EndsAreTrue'
    BY <1>1, <1>2, DeliveryTypes, NoCallIsOff
      DEF EndsAreTrue, CallBecomes, CallsHaveHooks
  <1>9. FoundAreInHand'
    BY <1>1, <1>2, DeliveryTypes, NoCallIsOff
      DEF FoundAreInHand, InHand, CallBecomes, CallsHaveHooks, EndsAreTrue,
          UnfoundAreIdle
  <1>10. OneSideDelivers'
    BY <1>1, <1>2, DeliveryTypes, NoCallIsOff
      DEF OneSideDelivers, Received, Owns, CallBecomes, CallsHaveHooks, EndsAreTrue,
          UnfoundAreIdle
  <1> QED BY <1>3, <1>4, <1>5, <1>6, <1>7, <1>8, <1>9, <1>10

LEMMA DeliveryStallsKeeps ==
    ASSUME DeliveryInvariant, NEW t \in Hooks, DeliveryStalls(t)
    PROVE  DeliveryInvariant'
  <1> USE DEF DeliveryInvariant
  <1>1. /\ job[t].state = "active" /\ dead' = dead /\ twice' = twice \cup {t}
        /\ \/ JobBecomes(t, "waiting", Nobody, job[t].made) /\ dropped' = dropped
           \/ /\ JobBecomes(t, "failed", Nobody, job[t].made)
              /\ dropped' = dropped \cup {t}
    BY StallsFrame, DeliveryTypes DEF DeliveryStalls, JobBecomes
  <1>2. UNCHANGED <<dead, tx, change, trigger, send, active, call, got, spared, early>>
    BY DEF DeliveryStalls, apiVars, Stalls
  <1>3. DeliveryTypeOK'
    BY <1>1, <1>2, DeliveryTypes DEF DeliveryTypeOK, JobBecomes, QueueTypeOK, JobRecords
  <1>4. JobsAreSound'
    BY <1>1 DEF JobsAreSound, JobBecomes
  <1>5. CallsHaveHooks' /\ ChangesAreOrdered'
    BY <1>2 DEF CallsHaveHooks, ChangesAreOrdered
  <1>6. UnfoundAreIdle'
    BY <1>1, <1>2, DeliveryTypes DEF UnfoundAreIdle, JobBecomes
  <1>7. EndsAreTrue'
    BY <1>1, <1>2, DeliveryTypes DEF EndsAreTrue, JobBecomes
  <1>8. FoundAreInHand'
    BY <1>1, <1>2, DeliveryTypes
      DEF FoundAreInHand, InHand, JobBecomes, EndsAreTrue, UnfoundAreIdle
  <1>9. OneSideDelivers'
    BY <1>1, <1>2, DeliveryTypes
      DEF OneSideDelivers, Received, Owns, JobBecomes, EndsAreTrue, UnfoundAreIdle
  <1> QED BY <1>3, <1>4, <1>5, <1>6, <1>7, <1>8, <1>9

LEMMA ApiExitsKeeps ==
    ASSUME DeliveryInvariant, ApiExits
    PROVE  DeliveryInvariant'
  <1> USE DEF DeliveryInvariant
  <1>1. /\ change' = [c \in Changes |-> IF change[c] = "new" THEN "new" ELSE "dead"]
        /\ tx' = [c \in Changes |-> IF tx[c] = "open" THEN "rolled back" ELSE tx[c]]
        /\ trigger' = [c \in Changes |->
                         IF trigger[c] = "looking" THEN "done" ELSE trigger[c]]
    BY DEF ApiExits
  <1>2. /\ dropped' = dropped \cup {t \in Hooks : Unsent(t)}
        /\ send' = [t \in Hooks |-> IF send[t] = "none" THEN "none" ELSE "done"]
        /\ job' = [t \in Tasks |-> IF job[t].state = "sent" THEN NoJob ELSE job[t]]
        /\ call' = [x \in Deliverers |-> IF x \in Hooks THEN NoCall ELSE call[x]]
    BY DEF ApiExits
  <1>3. UNCHANGED <<dead, active, got, spared, early, twice>>
    BY DEF ApiExits
  <1>4. DeliveryTypeOK'
    <2>1. NoJob \in JobRecords
      BY QueueOptions DEF NoJob, JobRecords, JobStates
    <2>2. job' \in [Tasks -> JobRecords] /\ call' \in [Deliverers -> CallRecords]
      BY <1>2, <2>1, DeliveryTypes, NoCallIsOff
    <2>3. /\ change' \in [Changes -> {"new", "written", "dispatched", "answered", "dead"}]
          /\ tx' \in [Changes -> {"none", "open", "committed", "rolled back"}]
          /\ trigger' \in [Changes -> {"none", "looking", "done"}]
      BY <1>1, ChangeTypes
    <2>4. send' \in [Hooks -> SendStates] /\ dropped' \subseteq Hooks
      BY <1>2 DEF DeliveryTypeOK, SendStates
    <2> QED BY <1>3, <2>2, <2>3, <2>4
      DEF DeliveryTypeOK, QueueTypeOK, JobRecords, CallRecords, CallSteps, SendStates
  <1>5. JobsAreSound'
    <2>1. NoJob.state = "none" /\ NoJob.made = 0 /\ 0 < MaxAttempts
      BY QueueOptions DEF NoJob
    <2> QED BY <1>2, <2>1 DEF JobsAreSound
  <1>6. CallsHaveHooks'
    BY <1>2, DeliveryTypes, NoCallIsOff DEF CallsHaveHooks
  <1>7. ChangesAreOrdered'
    BY <1>1, <1>3, ChangeTypes DEF ChangesAreOrdered
  <1>8. UnfoundAreIdle'
    BY <1>1, <1>2, <1>3, DeliveryTypes, NoCallIsOff
      DEF UnfoundAreIdle, CallsHaveHooks, ChangesAreOrdered, NoJob
  <1>9. EndsAreTrue'
    BY <1>1, <1>2, <1>3, DeliveryTypes, NoCallIsOff
      DEF EndsAreTrue, CallsHaveHooks, NoJob
  <1>10. FoundAreInHand'
    <2> SUFFICES ASSUME NEW t \in Hooks, send[t] # "none", got[t] = 0,
                        t \notin dead \cup dropped', send[t] \in SendStates
                 PROVE  job'[t].state \in {"waiting", "active", "delayed"}
      <3>1. \A t \in Hooks : /\ send'[t] # "none" => send[t] # "none"
                             /\ send[t] \in SendStates /\ got[t] \in Nat
        BY <1>2, DeliveryTypes
      <3> QED BY <1>3, <3>1 DEF FoundAreInHand, InHand
    <2>1. /\ t \notin dropped /\ send[t] \notin {"add", "inline"}
          /\ call[t].step \notin {"post", "failed"}
          /\ ~ (send[t] = "adding" /\ job[t].state = "sent")
      BY <1>2 DEF Unsent
    <2>2. call[t] = NoCall
      BY <2>1, DeliveryTypes DEF CallsHaveHooks, EndsAreTrue, CallRecords, CallSteps
    <2>3. job[t].state \in JobStates
      BY DeliveryTypes DEF JobRecords
    <2>4. CASE send[t] = "adding"
      BY <1>2, <2>1, <2>3, <2>4, DeliveryTypes DEF EndsAreTrue, JobStates
    <2>5. CASE send[t] = "done"
      BY <1>2, <2>1, <2>2, <2>5, DeliveryTypes DEF FoundAreInHand, InHand
    <2> QED BY <2>1, <2>4, <2>5 DEF SendStates
  <1>11. OneSideDelivers'
    <2> SUFFICES ASSUME NEW t \in Hooks \ twice
                 PROVE  /\ send'[t] \in {"none", "add", "inline"} \/ call'[t] # NoCall
                              => job'[t].state = "none"
                        /\ \A w \in Workers : call'[w].of = t => Owns(w, t)'
                        /\ got[t] > 0 => Received(t)'
      BY <1>3 DEF OneSideDelivers
    <2>1. call'[t] = NoCall /\ NoJob.state = "none"
      BY <1>2, DeliveryTypes DEF NoJob
    <2>2. send'[t] \in {"none", "add", "inline"} => job'[t].state = "none"
      BY <1>2, DeliveryTypes DEF UnfoundAreIdle
    <2>3. ASSUME NEW w \in Workers, call'[w].of = t PROVE Owns(w, t)'
      <3>1. Owns(w, t)
        BY <1>2, <2>3, DeliveryTypes DEF OneSideDelivers
      <3> QED BY <1>2, <3>1, DeliveryTypes DEF Owns
    <2>4. ASSUME got[t] > 0 PROVE Received(t)'
      <3>1. Received(t)
        BY <2>4 DEF OneSideDelivers
      <3>2. send'[t] = "done" /\ job'[t] = job[t]
        BY <1>2, <3>1, DeliveryTypes DEF Received
      <3>3. \A x \in Deliverers : call'[x].of = t => call'[x] = call[x]
        BY <1>2, NoCallIsOff
      <3> QED BY <1>3, <3>1, <3>2, <3>3 DEF Received
    <2> QED BY <2>1, <2>2, <2>3, <2>4
  <1> QED BY <1>4, <1>5, <1>6, <1>7, <1>8, <1>9, <1>10, <1>11

LEMMA DeliveryStart == DeliveryInit => DeliveryInvariant
  <1> SUFFICES ASSUME DeliveryInit PROVE DeliveryInvariant
    OBVIOUS
  <1>1. job = [t \in Tasks |-> NoJob] /\ NoJob.state = "none" /\ NoJob.made = 0
    BY DEF DeliveryInit, QueueInit, NoJob
  <1>2. QueueTypeOK
    BY QueueOptions DEF DeliveryInit, QueueInit, QueueTypeOK, NoJob, JobStates
  <1>3. DeliveryTypeOK
    BY <1>2 DEF DeliveryInit, DeliveryTypeOK, NoCall
  <1>4. JobsAreSound
    BY <1>1, QueueOptions DEF JobsAreSound
  <1>5. CallsHaveHooks /\ ChangesAreOrdered
    BY DEF DeliveryInit, CallsHaveHooks, ChangesAreOrdered
  <1>6. UnfoundAreIdle /\ EndsAreTrue
    BY <1>1, <1>3, NoCallIsOff, DeliveryTypes
      DEF DeliveryInit, UnfoundAreIdle, EndsAreTrue
  <1>7. FoundAreInHand
    BY DEF DeliveryInit, FoundAreInHand
  <1>8. OneSideDelivers
    <2>1. \A t \in Hooks : job[t].state = "none" /\ got[t] = 0
      BY <1>1, <1>3, DeliveryTypes DEF DeliveryInit
    <2>2. \A x \in Deliverers : call[x] = NoCall
      BY DEF DeliveryInit
    <2> QED BY <1>3, <2>1, <2>2, NoCallIsOff, DeliveryTypes DEF OneSideDelivers
  <1> QED BY <1>3, <1>4, <1>5, <1>6, <1>7, <1>8 DEF DeliveryInvariant

LEMMA DeliveryStep ==
    ASSUME DeliveryInvariant, [DeliveryNext]_deliveryVars
    PROVE  DeliveryInvariant'
  <1>1. CASE UNCHANGED deliveryVars
    <2>1. /\ UNCHANGED <<job, dead, tx, change, trigger, send>>
          /\ UNCHANGED <<active, call, got, spared, early, twice, dropped>>
      BY <1>1 DEF deliveryVars, queueVars, apiVars, deliveryHistory
    <2>2. DeliveryTypeOK'
      BY <2>1 DEF DeliveryInvariant, DeliveryTypeOK, QueueTypeOK
    <2>3. JobsAreSound' /\ CallsHaveHooks' /\ ChangesAreOrdered'
      BY <2>1 DEF DeliveryInvariant, JobsAreSound, CallsHaveHooks, ChangesAreOrdered
    <2>4. UnfoundAreIdle' /\ EndsAreTrue' /\ FoundAreInHand'
      BY <2>1 DEF DeliveryInvariant, UnfoundAreIdle, EndsAreTrue, FoundAreInHand, InHand
    <2>5. OneSideDelivers'
      BY <2>1 DEF DeliveryInvariant, OneSideDelivers, Received, Owns
    <2> QED BY <2>2, <2>3, <2>4, <2>5 DEF DeliveryInvariant
  <1>2. ASSUME NEW c \in Changes, ChangeStep(c) \/ TransactionTimesOut(c) \/ LookUp(c)
        PROVE  DeliveryInvariant'
    BY <1>2, WriteChangeKeeps, RequestGoesOn, LookUpKeeps DEF ChangeStep
  <1>3. ASSUME NEW t \in Hooks, OwnStep(t)
        PROVE  DeliveryInvariant'
    BY <1>3, EnqueueSkipsKeeps, EnqueueSendsKeeps, EnqueueResolvesKeeps,
       EnqueueTimesOutKeeps, DeliverDirectlyKeeps, DirectEndsKeeps DEF OwnStep
  <1>4. ASSUME NEW t \in Hooks,
               \/ EnqueueRejects(t) \/ EnqueueArrives(t) \/ DeliveryStalls(t)
               \/ \E w \in Workers : DeliveryTaken(w, t)
        PROVE  DeliveryInvariant'
    BY <1>4, EnqueueRejectsKeeps, EnqueueArrivesKeeps, DeliveryStallsKeeps,
       DeliveryTakenKeeps
  <1>5. ASSUME NEW x \in Deliverers, Post(x)
        PROVE  DeliveryInvariant'
    BY <1>5, PostKeeps
  <1>6. ASSUME NEW w \in Workers, DeliveryEnds(w) \/ DelivererDies(w)
        PROVE  DeliveryInvariant'
    BY <1>6, DeliveryEndsKeeps, DelivererDiesKeeps
  <1> QED BY <1>1, <1>2, <1>3, <1>4, <1>5, <1>6, RevokeKeeps, ApiExitsKeeps
    DEF DeliveryNext

(* Every variable of WebhookDelivery keeps its type, and what is known of  *)
(* hooks, jobs and calls stays true.                                       *)
THEOREM DeliveryIsInvariant == DeliverySpec => []DeliveryInvariant
  BY DeliveryStart, DeliveryStep, PTL DEF DeliverySpec

LEMMA DeliveriesAccounted == DeliveryInvariant => DeliveriesAreAccountedFor
  <1> SUFFICES ASSUME DeliveryInvariant PROVE DeliveriesAreAccountedFor
    OBVIOUS
  <1> USE DEF DeliveryInvariant
  <1>1. UndeliveredIsAccountedFor
    BY DEF FoundAreInHand, InHand, UndeliveredIsAccountedFor, Underway
  <1>2. RepeatHasACause
    BY DeliveryTypes DEF OneSideDelivers, Received, RepeatHasACause
  <1>3. RevokedHearsNothing
    BY DEF UnfoundAreIdle, RevokedHearsNothing
  <1> QED BY <1>1, <1>2, <1>3 DEF DeliveriesAreAccountedFor

(* A webhook that has not come through is under way, is a dead letter, or  *)
(* met a failure that nothing retries; one that came through twice has a   *)
(* cause, and nothing comes through after a revocation.                    *)
THEOREM DeliveriesStayAccountedFor == DeliverySpec => []DeliveriesAreAccountedFor
  BY DeliveryIsInvariant, DeliveriesAccounted, PTL
=============================================================================
