----------------------------- MODULE MCRequests -----------------------------
(***************************************************************************)
(* Small instances, for TLC, of the modules in which concurrent requests,  *)
(* or instances of the worker, want to do the same thing.  A behaviour is  *)
(* one of Idempotency, JobRunner or CacheStampede, which run something     *)
(* under the same lock, of CacheTags, of MfaEnrollment, or of              *)
(* AccountEntry: registrations with the logins of a provider, or with the  *)
(* SSO of a tenant, but not with both; with the SSO only registrations     *)
(* from elsewhere, as the SSO itself provisions accounts of its tenant,    *)
(* and tokens that are not lost.  The rest stays as it is.                 *)
(***************************************************************************)
EXTENDS Idempotency, JobRunner, CacheManager, MfaEnrollment, AccountEntry, TLC

CONSTANTS here,   \* the tenant whose identity provider is used
          short   \* the key of a tag whose entries live for a shorter time

TtlOfAll == [k \in Keys |-> IF k = short THEN 1 ELSE 2]
TenantOfAll == [i \in Corporate |-> here]

VARIABLE part

ownState == <<stored, step, answer, succeeded, before, unread>>
jobState == <<window, fired, attempt, runs>>
readerState == <<entry, reader, tries, round>>
requestVars ==
    <<idempotencyVars, part, mfaVars, entryVars, jobState, readerState, tagVars>>

RequestsInit ==
    /\ part \in {"idempotency", "jobs", "stampede", "tags", "mfa", "consuming",
                "provisioning"}
    /\ Init
    /\ JobInit
    /\ StampedeInit
    /\ TagsInit
    /\ MfaInit
    /\ EntryInit

(* What has nothing to do with a part stays as it is; the first three have *)
(* the lock.                                                               *)
Away(p) == part # p
Others ==
    /\ part \notin {"idempotency", "jobs", "stampede"} => UNCHANGED lockVars
    /\ Away("idempotency") => UNCHANGED ownState
    /\ Away("jobs") => UNCHANGED jobState
    /\ Away("stampede") => UNCHANGED readerState
    /\ Away("tags") => UNCHANGED tagVars
    /\ Away("mfa") => UNCHANGED mfaVars
    /\ Away("consuming") /\ Away("provisioning") => UNCHANGED entryVars

RequestsNext ==
    /\ UNCHANGED part
    /\ \/ part = "idempotency" /\ Next
       \/ part = "jobs" /\ JobNext
       \/ part = "stampede" /\ StampedeNext
       \/ part = "tags" /\ TagsNext
       \/ part = "mfa" /\ MfaNext
       \/ /\ part = "consuming" /\ EntryNext /\ UNCHANGED states
          /\ \A r \in Visitors : call'[r].tenant = Nothing
       \/ /\ part = "provisioning" /\ EntryNext /\ UNCHANGED stuck
          /\ \A r \in Visitors :
               /\ call'[r].by \notin Consumer
               /\ call'[r].by = Nothing => call'[r].tenant # here
    /\ Others

RequestsSpec == RequestsInit /\ [][RequestsNext]_requestVars

(* The requests are interchangeable, and so are addresses and accounts.    *)
Symmetry == Permutations(Clients) \cup Permutations(Visitors)
                \cup Permutations(Mails) \cup Permutations(Accounts)
=============================================================================
