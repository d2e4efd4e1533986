------------------------------ MODULE UserData ------------------------------
(***************************************************************************)
(* What the system keeps of its users and how it is removed: their files,  *)
(* objects of a storage with a row FileUpload each (UploadService), their  *)
(* profiles in the cache (UserService), and the erasure of an account by   *)
(* its user, an administrator or the daily retention job (PrivacyService,  *)
(* enforceDataRetention).                                                  *)
(*                                                                         *)
(* A request is a process that walks through the awaits of its handler.    *)
(* The rows of refresh tokens, codes and keys go with the transaction that *)
(* erases the account; they are not followed here.  A process of the job   *)
(* that dies is the business of JobRunner.                                 *)
(***************************************************************************)
EXTENDS FiniteSets

CONSTANTS Users,
          Files, Owner,   \* the uploads there will be, and whose they are
          Reqs, Job,      \* requests in flight, and the retention job
          Stubborn,       \* users whose rows the database refuses to erase
          Readers,        \* users whose profile is read
          NoOne, NoFile

ASSUME EveryFileHasAnOwner == Owner \in [Files -> Users]
ASSUME JobIsNoRequest == Job \notin Reqs

VARIABLES account,   \* "live", "deleted" softly, "due" for erasure, "erased"
          signedIn,  \* the user has an access token that has not expired
          used,      \* the keys that have been chosen
          object,    \* the keys the object storage holds
          row,       \* the keys FileUpload has a row for
          profile,   \* the users whose profile is cached
          doing, user, file,
          todo,      \* the objects an erasure has still to delete
          batch,     \* the accounts the run of the job has still to erase
          listed,    \* history: the rows an erasure has found
          lost,      \* history: objects lost by a fault or a race that is known
          tardy      \* history: rows created after the erasure of their user

locals == <<doing, user, file, todo, listed>>
stored == <<used, object, row>>
dataVars == <<account, signedIn, stored, profile, locals, batch, lost, tardy>>

Procs == Reqs \cup {Job}
FilesOf(u) == {f \in Files : Owner[f] = u}

DataTypeOK ==
    /\ account \in [Users -> {"live", "deleted", "due", "erased"}]
    /\ signedIn \subseteq Users
    /\ object \subseteq used /\ row \subseteq used /\ used \subseteq Files
    /\ profile \subseteq Users
    /\ doing \in [Procs -> {"idle", "uploaded", "delete", "unlist", "objects", "profile"}]
    /\ user \in [Procs -> Users \cup {NoOne}]
    /\ file \in [Procs -> Files \cup {NoFile}]
    /\ todo \in [Procs -> SUBSET Files] /\ listed \in [Procs -> SUBSET Files]
    /\ batch \subseteq Users
    /\ lost \subseteq Files /\ tardy \subseteq Files

DataInit ==
    /\ account = [u \in Users |-> "live"] /\ signedIn = Users
    /\ used = {} /\ object = {} /\ row = {} /\ profile = {}
    /\ doing = [p \in Procs |-> "idle"]
    /\ user = [p \in Procs |-> NoOne] /\ file = [p \in Procs |-> NoFile]
    /\ todo = [p \in Procs |-> {}] /\ listed = [p \in Procs |-> {}]
    /\ batch = {} /\ lost = {} /\ tardy = {}

(* The process goes on at a step, with a user and a file.                  *)
Goto(p, step, u, f) ==
    /\ doing' = [doing EXCEPT ![p] = step]
    /\ user' = [user EXCEPT ![p] = u]
    /\ file' = [file EXCEPT ![p] = f]
    /\ UNCHANGED <<todo, listed>>

Leave(p) ==
    /\ doing' = [doing EXCEPT ![p] = "idle"]
    /\ user' = [user EXCEPT ![p] = NoOne]
    /\ file' = [file EXCEPT ![p] = NoFile]
    /\ todo' = [todo EXCEPT ![p] = {}]
    /\ listed' = [listed EXCEPT ![p] = {}]

-----------------------------------------------------------------------------
(* uploadFile: a file of an allowed type is stored under a fresh key ...   *)
Upload(p, f) ==
    /\ doing[p] = "idle" /\ p \in Reqs
    /\ Owner[f] \in signedIn /\ f \notin used
    /\ used' = used \cup {f} /\ object' = object \cup {f}
    /\ Goto(p, "uploaded", Owner[f], f)
    /\ UNCHANGED <<account, signedIn, row, profile, batch, lost, tardy>>

(* ... and then its row is created, whatever became of the account.        *)
RecordFile(p) ==
    /\ doing[p] = "uploaded"
    /\ row' = row \cup {file[p]}
    /\ tardy' = IF account[user[p]] = "erased" THEN tardy \cup {file[p]} ELSE tardy
    /\ Leave(p)
    /\ UNCHANGED <<account, signedIn, used, object, profile, batch, lost>>

(* deleteFile, by the owner or a moderator ...                             *)
Delete(p, f) ==
    /\ doing[p] = "idle" /\ p \in Reqs
    /\ f \in row
    /\ Goto(p, "delete", Owner[f], f)
    /\ UNCHANGED <<account, signedIn, stored, profile, batch, lost, tardy>>

(* ... the object first; if the storage fails nothing else happens ...     *)
DeleteObject(p) ==
    /\ doing[p] = "delete"
    /\ \/ /\ object' = object \ {file[p]}
          /\ Goto(p, "unlist", user[p], file[p])
       \/ Leave(p) /\ UNCHANGED object
    /\ UNCHANGED <<account, signedIn, used, row, profile, batch, lost, tardy>>

(* ... then the row.                                                       *)
DeleteRow(p) ==
    /\ doing[p] = "unlist"
    /\ row' = row \ {file[p]}
    /\ Leave(p)
    /\ UNCHANGED <<account, signedIn, used, object, profile, batch, lost, tardy>>

-----------------------------------------------------------------------------
(* requestSelfErasure asks for a live account and its password, if it has  *)
(* one; eraseForUser for an account, deleted or not, that is not erased.   *)
MayErase(p, u) ==
    \/ p \in Reqs /\ account[u] # "erased"
    \/ p = Job /\ u \in batch /\ account[u] # "erased"

(* erase: the rows of the user's files are listed ...                      *)
Erase(p, u) ==
    /\ doing[p] = "idle" /\ MayErase(p, u)
    /\ doing' = [doing EXCEPT ![p] = "objects"]
    /\ user' = [user EXCEPT ![p] = u]
    /\ todo' = [todo EXCEPT ![p] = row \cap FilesOf(u)]
    /\ listed' = [listed EXCEPT ![p] = row \cap FilesOf(u)]
    /\ UNCHANGED <<account, signedIn, stored, profile, file, batch, lost, tardy>>

(* ... their objects deleted, a failure being logged only ...              *)
EraseObject(p, f) ==
    /\ doing[p] = "objects" /\ f \in todo[p]
    /\ todo' = [todo EXCEPT ![p] = @ \ {f}]
    /\ \/ object' = object \ {f} /\ UNCHANGED lost
       \/ object' = object /\ lost' = lost \cup (object \cap {f})
    /\ UNCHANGED <<account, signedIn, used, row, profile, doing, user, file, listed,
                   batch, tardy>>

(* Mutant: the rows that were listed are deleted, and no others.           *)
RowsListed(p) == listed[p]

(* deleteMany({ where: { userId } })                                       *)
RowsErased(p) == row \cap FilesOf(user[p])

(* Mutant: the job gives up at the first account that fails.               *)
StopBatch(p, erased) ==
    IF p # Job THEN batch ELSE IF erased THEN batch \ {user[p]} ELSE {}

(* The loop of enforceDataRetention goes on, whether or not this account   *)
(* was erased.                                                             *)
RestOfBatch(p, erased) == IF p # Job THEN batch ELSE batch \ {user[p]}

(* ... and eraseUserData scrubs the account and deletes its rows in one    *)
(* transaction.  Rows refer to the account, so none is created meanwhile.  *)
Scrub(p) ==
    /\ doing[p] = "objects" /\ todo[p] = {} /\ user[p] \notin Stubborn
    /\ account' = [account EXCEPT ![user[p]] = "erased"]
    /\ row' = row \ RowsErased(p)
    /\ lost' = lost \cup ((RowsErased(p) \ listed[p]) \cap object)
    /\ batch' = RestOfBatch(p, TRUE)
    /\ Leave(p)
    /\ UNCHANGED <<signedIn, used, object, profile, tardy>>

(* The transaction fails and rolls back.                                   *)
ScrubFails(p) ==
    /\ doing[p] = "objects" /\ todo[p] = {}
    /\ user[p] \in Stubborn \/ p \in Reqs
    /\ batch' = RestOfBatch(p, FALSE)
    /\ Leave(p)
    /\ UNCHANGED <<account, signedIn, stored, profile, lost, tardy>>

(* enforceDataRetention finds the accounts past their grace period; one    *)
(* that somebody else erases before its turn is refused and passed over.   *)
StartJob ==
    /\ doing[Job] = "idle" /\ batch = {}
    /\ batch' = {u \in Users : account[u] = "due"}
    /\ UNCHANGED <<account, signedIn, stored, profile, locals, lost, tardy>>

PassOver(u) ==
    /\ doing[Job] = "idle" /\ u \in batch /\ account[u] = "erased"
    /\ batch' = batch \ {u}
    /\ UNCHANGED <<account, signedIn, stored, profile, locals, lost, tardy>>

-----------------------------------------------------------------------------
(* deleteUser: the account is deleted softly, then its profile is dropped  *)
(* from the cache, unless Redis fails; its tokens stay good for a while.   *)
DeleteUser(u) ==
    /\ account[u] = "live"
    /\ account' = [account EXCEPT ![u] = "deleted"]
    /\ profile' \in {profile, profile \ {u}}
    /\ UNCHANGED <<signedIn, stored, locals, batch, lost, tardy>>

GracePasses(u) ==
    /\ account[u] = "deleted"
    /\ account' = [account EXCEPT ![u] = "due"]
    /\ UNCHANGED <<signedIn, stored, profile, locals, batch, lost, tardy>>

TokenExpires(u) ==
    /\ u \in signedIn /\ account[u] # "live"
    /\ signedIn' = signedIn \ {u}
    /\ UNCHANGED <<account, stored, profile, locals, batch, lost, tardy>>

(* findById                                                                *)
Found(u) == account[u] = "live"

(* getProfile misses the cache and reads the account ...                   *)
ReadProfile(p, u) ==
    /\ doing[p] = "idle" /\ p \in Reqs
    /\ u \in Readers \cap signedIn /\ u \notin profile /\ Found(u)
    /\ Goto(p, "profile", u, NoFile)
    /\ UNCHANGED <<account, signedIn, stored, profile, batch, lost, tardy>>

(* ... and stores it for USER_PROFILE_CACHE_TTL_SECONDS.                   *)
StoreProfile(p) ==
    /\ doing[p] = "profile"
    /\ profile' = profile \cup {user[p]}
    /\ Leave(p)
    /\ UNCHANGED <<account, signedIn, stored, batch, lost, tardy>>

ProfileExpires(u) ==
    /\ u \in profile
    /\ profile' = profile \ {u}
    /\ UNCHANGED <<account, signedIn, stored, locals, batch, lost, tardy>>

(* A request dies between two awaits, or its next statement fails.         *)
BreakOff(p) ==
    /\ doing[p] # "idle" /\ p \in Reqs
    /\ lost' = IF doing[p] = "uploaded" THEN lost \cup {file[p]} ELSE lost
    /\ Leave(p)
    /\ UNCHANGED <<account, signedIn, stored, profile, batch, tardy>>

Work(p) ==
    \/ RecordFile(p)
    \/ DeleteObject(p) \/ DeleteRow(p)
    \/ \E f \in Files : EraseObject(p, f)
    \/ Scrub(p) \/ ScrubFails(p)
    \/ StoreProfile(p)

RunJob ==
    \/ \E u \in Users : Erase(Job, u) \/ PassOver(u)
    \/ Work(Job)

DataNext ==
    \/ \E p \in Reqs :
          \/ \E f \in Files : Upload(p, f) \/ Delete(p, f)
          \/ \E u \in Users : Erase(p, u) \/ ReadProfile(p, u)
          \/ Work(p) \/ BreakOff(p)
    \/ StartJob \/ RunJob
    \/ \E u \in Users :
          DeleteUser(u) \/ GracePasses(u) \/ TokenExpires(u) \/ ProfileExpires(u)

(* The job runs every day, requests run on, and the cache expires.         *)
DataFairness ==
    /\ WF_dataVars(StartJob) /\ WF_dataVars(RunJob)
    /\ \A p \in Reqs : WF_dataVars(Work(p))
    /\ \A u \in Users : WF_dataVars(ProfileExpires(u))

DataSpec == DataInit /\ [][DataNext]_dataVars /\ DataFairness

-----------------------------------------------------------------------------
(* An object nothing refers to is being uploaded, or was lost in one of    *)
(* three ways: its upload broke off, the storage refused an erasure, or it *)
(* was uploaded after an erasure had listed the files                      *)
(* (upload.service.ts:114-122).                                            *)
EveryOrphanHasACause ==
    \A f \in object \ row :
        f \in lost \/ \E p \in Reqs : doing[p] = "uploaded" /\ file[p] = f

(* An erased account has no files but those whose rows were created when   *)
(* it was erased already (privacy.repository.ts:79-87).                    *)
ErasureLeavesNoFile ==
    \A f \in row : account[Owner[f]] = "erased" => f \in tardy

(* The job erases every account that is due in the end, even if it fails   *)
(* on others every day (enforce-data-retention.job.ts:21-31).              *)
EveryDueAccountIsErased ==
    \A u \in Users \ Stubborn : account[u] = "due" ~> account[u] = "erased"

(* The name and address of an erased account leave the cache for good,     *)
(* although an erasure does not clear it and slow readers fill it late     *)
(* (user.service.ts:29-41).                                                *)
ErasedProfileDiesOut ==
    \A u \in Users : account[u] = "erased" ~> [](u \notin profile)

(* No file of a user is forgotten (upload.service.ts:114-122).             *)
NoFileIsForgotten == EveryOrphanHasACause /\ ErasureLeavesNoFile

(* An erasure that is due is carried out, down to the cached profile.      *)
ErasureComesToAnEnd == EveryDueAccountIsErased /\ ErasedProfileDiesOut
=============================================================================
