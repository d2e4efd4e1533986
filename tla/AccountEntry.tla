---------------------------- MODULE AccountEntry ----------------------------
(***************************************************************************)
(* How accounts come to be and are entered without a password:             *)
(* registration with a verification mail (AuthService), login through      *)
(* Google or GitHub (OAuthService) and the SSO of a tenant (SsoService).   *)
(*                                                                         *)
(* An identity is what a provider names for ever: the account there, or    *)
(* the subject of a tenant's identity provider; the address it comes with  *)
(* may be another one each time.  Every statement is a transaction of its  *)
(* own; the unique indexes of User, OAuthAccount and SsoIdentity make the  *)
(* second of two equal inserts fail, which ends its request with an error. *)
(***************************************************************************)
EXTENDS Naturals

CONSTANTS Visitors,      \* the server's concurrent requests
          Mails,
          Accounts,      \* bound: the rows User will ever have
          Tenants,
          Consumer,      \* identities of Google and GitHub
          Corporate,     \* identities of tenants ...
          TenantOf,      \* ... and the tenant of each
          Flows,         \* bound: SSO logins, each with a state and a code
          Nothing

ASSUME EntryOptions ==
    /\ Nothing \notin Mails \cup Accounts \cup Tenants \cup Flows \cup Consumer \cup Corporate
    /\ Nothing \notin Corporate \X Accounts
    /\ Consumer \cap Corporate = {} /\ TenantOf \in [Corporate -> Tenants]

VARIABLES user,       \* the rows of User
          link,       \* OAuthAccount and SsoIdentity: the account of an identity
          token,      \* the accounts with a token of verification that is good
          states,     \* sso:state:*, the tenant of each
          exchange,   \* sso:exchange:*, the login each stands for
          call,       \* what each request is doing
          sessions,   \* history: the logins <<identity, account>>
          delivered,  \* history: how many logins each flow has handed out
          stuck       \* history: accounts whose token never was, or ran out

tables == <<user, link, token>>
flows == <<states, exchange>>
entryHistory == <<sessions, delivered, stuck>>
entryVars == <<tables, flows, call, entryHistory>>

Identities == Consumer \cup Corporate
NoUser == [live |-> FALSE, mail |-> Nothing, tenant |-> Nothing,
           password |-> FALSE, verified |-> FALSE, erased |-> FALSE]
NoCall == [step |-> "idle", by |-> Nothing, mail |-> Nothing,
           tenant |-> Nothing, of |-> Nothing, flow |-> Nothing]

EntryTypeOK ==
    /\ user \in [Accounts ->
         [live : BOOLEAN, mail : Mails \cup {Nothing}, tenant : Tenants \cup {Nothing},
          password : BOOLEAN, verified : BOOLEAN, erased : BOOLEAN]]
    /\ link \in [Identities -> Accounts \cup {Nothing}]
    /\ token \subseteq Accounts /\ stuck \subseteq Accounts
    /\ states \in [Flows -> Tenants \cup {Nothing}]
    /\ exchange \in [Flows -> (Corporate \X Accounts) \cup {Nothing}]
    /\ call \in [Visitors ->
         [step : {"idle", "create", "token", "mail", "identity", "find", "link", "issue"},
          by : Identities \cup {Nothing}, mail : Mails \cup {Nothing},
          tenant : Tenants \cup {Nothing}, of : Accounts \cup {Nothing},
          flow : Flows \cup {Nothing}]]
    /\ sessions \subseteq Identities \X Accounts
    /\ delivered \in [Flows -> 0..2]

EntryInit ==
    /\ user = [a \in Accounts |-> NoUser]
    /\ link = [i \in Identities |-> Nothing]
    /\ token = {} /\ stuck = {}
    /\ states = [f \in Flows |-> Nothing] /\ exchange = [f \in Flows |-> Nothing]
    /\ call = [r \in Visitors |-> NoCall]
    /\ sessions = {} /\ delivered = [f \in Flows |-> 0]

(* Where a request stands; it begins, goes on with account a, and ends.    *)
At(r, step) == call[r].step = step
Begin(r, step, i, m, t, f) ==
    call' = [call EXCEPT ![r] = [step |-> step, by |-> i, mail |-> m, tenant |-> t,
                                 of |-> Nothing, flow |-> f]]
Proceed(r, step, a) == call' = [call EXCEPT ![r].step = step, ![r].of = a]
Answered(r) == call' = [call EXCEPT ![r] = NoCall]

(* findByEmail: deleted accounts are not found, but keep their address     *)
(* until they are erased.                                                  *)
Bearing(m) == {a \in Accounts : user[a].mail = m}
Found(m) == {a \in Bearing(m) : user[a].live}

-----------------------------------------------------------------------------
(* register: an address that is taken is refused; the password is hashed.  *)
Register(r, m, t) ==
    /\ At(r, "idle") /\ Found(m) = {}
    /\ Begin(r, "create", Nothing, m, t, Nothing)
    /\ UNCHANGED <<tables, flows, entryHistory>>

(* UserRepository.create, in the tenant of the request.  A registration    *)
(* goes on with its token, a first login, which brings a proven address,   *)
(* with its link.                                                          *)
CreateUser(r) ==
    /\ At(r, "create")
    /\ \/ /\ Bearing(call[r].mail) # {}
          /\ Answered(r) /\ UNCHANGED user
       \/ /\ Bearing(call[r].mail) = {}
          /\ \E a \in Accounts :
               /\ user[a] = NoUser
               /\ user' = [user EXCEPT ![a] =
                    [live |-> TRUE, mail |-> call[r].mail, tenant |-> call[r].tenant,
                     password |-> call[r].by = Nothing, verified |-> call[r].by # Nothing,
                     erased |-> FALSE]]
               /\ Proceed(r, IF call[r].by = Nothing THEN "token" ELSE "link", a)
    /\ UNCHANGED <<link, token, flows, entryHistory>>

(* issueEmailVerificationToken: the token is stored ...                    *)
IssueToken(r) ==
    /\ At(r, "token")
    /\ token' = token \cup {call[r].of}
    /\ Proceed(r, "mail", call[r].of)
    /\ UNCHANGED <<user, link, flows, entryHistory>>

(* ... and mailed, by the queue or at once.                                *)
SendToken(r) ==
    /\ At(r, "mail")
    /\ Answered(r)
    /\ UNCHANGED <<tables, flows, entryHistory>>

(* Mutant: the token is deleted first, and the account verified if nothing *)
(* fails in between.                                                       *)
VerifyInTwo(a) ==
    /\ a \in token
    /\ token' = token \ {a}
    /\ user' \in {user, [user EXCEPT ![a].verified = TRUE]}
    /\ UNCHANGED <<link, flows, call, entryHistory>>

(* verifyEmail: the account and the token change in one transaction.       *)
VerifyEmail(a) ==
    /\ a \in token
    /\ user' = [user EXCEPT ![a].verified = TRUE]
    /\ token' = token \ {a}
    /\ UNCHANGED <<link, flows, call, entryHistory>>

TokenExpires(a) ==
    /\ a \in token
    /\ token' = token \ {a} /\ stuck' = stuck \cup {a}
    /\ UNCHANGED <<user, link, flows, call, sessions, delivered>>

(* deleteUser: the row stays, with its address, its token and its links.   *)
DeleteUser(a) ==
    /\ user[a].live
    /\ user' = [user EXCEPT ![a].live = FALSE]
    /\ UNCHANGED <<link, token, flows, call, entryHistory>>

(* eraseUserData, for the user, an administrator or the daily job: one     *)
(* transaction gives the row an address nobody has and deletes what leads  *)
(* to it.  Two erasures that overlap do so twice.                          *)
EraseUserData(a) ==
    /\ user[a] # NoUser
    /\ user' = [user EXCEPT ![a].live = FALSE, ![a].mail = Nothing,
                            ![a].password = FALSE, ![a].erased = TRUE]
    /\ link' = [i \in Identities |-> IF link[i] = a THEN Nothing ELSE link[i]]
    /\ token' = token \ {a}
    /\ UNCHANGED <<flows, call, entryHistory>>

-----------------------------------------------------------------------------
(* loginWithGoogle and loginWithGithub: the provider has vouched for an    *)
(* identity and an address.                                                *)
LoginWithProvider(r, i, m, t) ==
    /\ At(r, "idle") /\ i \in Consumer
    /\ Begin(r, "identity", i, m, t, Nothing)
    /\ UNCHANGED <<tables, flows, entryHistory>>

(* buildAuthorizationUrl of a tenant whose connection is enabled.          *)
BuildAuthorizationUrl(f, t) ==
    /\ states[f] = Nothing /\ exchange[f] = Nothing /\ delivered[f] = 0
    /\ ~ \E r \in Visitors : call[r].flow = f
    /\ states' = [states EXCEPT ![f] = t]
    /\ UNCHANGED <<tables, exchange, call, entryHistory>>

(* takeOnce: GET and DEL in one MULTI.                                     *)
TakeOnce(store, f) == [store EXCEPT ![f] = Nothing]

(* handleCallback of the path of tenant t: the state is used up whatever   *)
(* comes next; then the provider names an identity and an address that the *)
(* connection allows, or the request is refused.                           *)
HandleCallback(r, f, t) ==
    /\ At(r, "idle") /\ states[f] # Nothing
    /\ states' = TakeOnce(states, f)
    /\ \/ UNCHANGED call
       \/ /\ states[f] = t
          /\ \E i \in Corporate, m \in Mails :
               /\ TenantOf[i] = t
               /\ Begin(r, "identity", i, m, t, f)
    /\ UNCHANGED <<tables, exchange, entryHistory>>

(* findOrCreateUser and findOrProvisionUser: an identity that is linked    *)
(* belongs to its account, or to nobody if that was deleted ...            *)
FindByIdentity(r) ==
    /\ At(r, "identity")
    /\ LET a == link[call[r].by] IN
       IF a = Nothing THEN Proceed(r, "find", Nothing)
       ELSE IF user[a].live THEN Proceed(r, "issue", a)
       ELSE Answered(r)
    /\ UNCHANGED <<tables, flows, entryHistory>>

(* A tenant does not take over an account of another tenant.               *)
MayLink(i, a) == i \in Corporate => user[a].tenant \in {Nothing, TenantOf[i]}

(* ... else to the account with its address, which is created if there is  *)
(* none ...                                                                *)
FindByEmail(r) ==
    /\ At(r, "find")
    /\ LET found == Found(call[r].mail) IN
       \/ found = {} /\ Proceed(r, "create", Nothing)
       \/ \E a \in found :
            IF MayLink(call[r].by, a)
            THEN Proceed(r, "link", a)
            ELSE Answered(r)
    /\ UNCHANGED <<tables, flows, entryHistory>>

(* Mutant: a login that finds the identity linked by now goes on all the   *)
(* same, with the account it has found itself.                             *)
LinkIfNew(r) ==
    /\ At(r, "link")
    /\ link' = [link EXCEPT ![call[r].by] = IF @ = Nothing THEN call[r].of ELSE @]
    /\ Proceed(r, "issue", call[r].of)
    /\ UNCHANGED <<user, token, flows, entryHistory>>

(* ... and is linked to it, once.                                          *)
LinkIdentity(r) ==
    /\ At(r, "link")
    /\ IF link[call[r].by] = Nothing
       THEN link' = [link EXCEPT ![call[r].by] = call[r].of] /\ Proceed(r, "issue", call[r].of)
       ELSE Answered(r) /\ UNCHANGED link
    /\ UNCHANGED <<user, token, flows, entryHistory>>

Login(r) == <<call[r].by, call[r].of>>

(* issueTokensForUser, without a look at verification or second factors.   *)
(* A provider's login is answered with the tokens, an SSO callback with a  *)
(* code that stands for them.                                              *)
IssueTokens(r) ==
    /\ At(r, "issue")
    /\ IF call[r].flow = Nothing
       THEN sessions' = sessions \cup {Login(r)} /\ UNCHANGED exchange
       ELSE exchange' = [exchange EXCEPT ![call[r].flow] = Login(r)] /\ UNCHANGED sessions
    /\ Answered(r)
    /\ UNCHANGED <<tables, states, delivered, stuck>>

(* consume                                                                 *)
Consume(f) ==
    /\ exchange[f] # Nothing /\ delivered[f] < 2
    /\ sessions' = sessions \cup {exchange[f]}
    /\ delivered' = [delivered EXCEPT ![f] = @ + 1]
    /\ exchange' = TakeOnce(exchange, f)
    /\ UNCHANGED <<tables, states, call, stuck>>

(* A state lasts 300 seconds, a code 60.                                   *)
KeyExpires(f) ==
    /\ \/ states[f] # Nothing /\ states' = [states EXCEPT ![f] = Nothing] /\ UNCHANGED exchange
       \/ exchange[f] # Nothing /\ exchange' = [exchange EXCEPT ![f] = Nothing] /\ UNCHANGED states
    /\ UNCHANGED <<tables, call, entryHistory>>

(* A statement fails, or the process dies.                                 *)
BreaksOff(r) ==
    /\ ~ At(r, "idle")
    /\ Answered(r)
    /\ stuck' = IF call[r].step \in {"token", "mail"} THEN stuck \cup {call[r].of} ELSE stuck
    /\ UNCHANGED <<tables, flows, sessions, delivered>>

EntryNext ==
    \/ \E r \in Visitors :
         \/ CreateUser(r) \/ IssueToken(r) \/ SendToken(r)
         \/ FindByIdentity(r) \/ FindByEmail(r) \/ LinkIdentity(r) \/ IssueTokens(r)
         \/ BreaksOff(r)
         \/ \E t \in Tenants \cup {Nothing}, m \in Mails :
              \/ Register(r, m, t)
              \/ \E i \in Consumer : LoginWithProvider(r, i, m, t)
         \/ \E f \in Flows, t \in Tenants : HandleCallback(r, f, t)
    \/ \E a \in Accounts : VerifyEmail(a) \/ TokenExpires(a) \/ DeleteUser(a) \/ EraseUserData(a)
    \/ \E f \in Flows :
         \/ Consume(f) \/ KeyExpires(f)
         \/ \E t \in Tenants : BuildAuthorizationUrl(f, t)

EntrySpec == EntryInit /\ [][EntryNext]_entryVars

-----------------------------------------------------------------------------
(* An account that waits for its verification has a token, is about to get *)
(* one, or got stuck: nothing sends a second token, and its address cannot *)
(* be registered again until it is erased.  A verification that breaks off *)
(* adds no other way (auth.service.ts:650-655), nor does an erasure.       *)
UnverifiedHasALink ==
    \A a \in Accounts : user[a].password /\ ~ user[a].verified =>
        \/ a \in token \cup stuck
        \/ \E r \in Visitors : call[r].of = a /\ At(r, "token")

(* All logins of one identity enter the same account, the one it is linked *)
(* to, also when its first logins raced each other with different          *)
(* addresses (oauth.service.ts:180-191): an identity comes to another      *)
(* account only after its own was erased, with its links                   *)
(* (privacy.repository.ts:64-65), and never has two that are not.          *)
IdentityNamesOneAccount ==
    \A s \in sessions : user[s[2]].erased \/ link[s[1]] = s[2]

(* SSO opens only accounts of its tenant or of none, although the link is  *)
(* written after the account was looked at (sso.service.ts:332-339).       *)
SsoStaysInTenant ==
    \A s \in sessions : s[1] \in Corporate =>
        user[s[2]].tenant \in {Nothing, TenantOf[s[1]]}

(* One redirect to the identity provider leads to one login at most, even  *)
(* if its callback and its code arrive twice (sso.service.ts:267-279).     *)
FlowOpensOneSession == \A f \in Flows : delivered[f] <= 1

(* A login that an identity provider vouches for enters the one account    *)
(* that is meant, and once (sso.service.ts:164-290, oauth.service.ts:195). *)
LoginsStayApart == IdentityNamesOneAccount /\ SsoStaysInTenant /\ FlowOpensOneSession
=============================================================================
