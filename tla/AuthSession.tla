----------------------------- MODULE AuthSession -----------------------------
(***************************************************************************)
(* Login sessions of src/modules/auth: logins in one step or, where the    *)
(* account asks for a second factor, in two; refresh-token families and    *)
(* their rotation, reuse detection, logout, session revocation and         *)
(* password reset.  Every request is a process that awaits the database    *)
(* between its steps, so each awaited repository call is one action;       *)
(* between two of them any other request, the clean-up jobs, the clock or  *)
(* a crash may run.                                                        *)
(***************************************************************************)
EXTENDS Naturals, FiniteSets

CONSTANTS
    Users,        \* accounts
    Tokens,       \* identities of RefreshToken rows; the first token of a
                  \* family also stands for the family's fresh randomUUID()
    ResetTokens,  \* identities of PasswordResetToken rows
    Challenges,   \* MFA challenge tokens that login hands out
    Requests,     \* HTTP requests in flight
    Ops,          \* the endpoints the clients use
    RefreshTTL,   \* REFRESH_TOKEN_TTL_MS
    SessionMax,   \* ABSOLUTE_SESSION_MAX_MS
    AccessTTL,    \* JWT_EXPIRES_IN
    ResetTTL,     \* PASSWORD_RESET_TTL_MS
    ChallengeTTL, \* MFA_CHALLENGE_EXPIRES_IN
    MaxTime       \* bound on the clock

ASSUME LifetimesAreNaturals ==
    /\ RefreshTTL \in Nat
    /\ SessionMax \in Nat
    /\ AccessTTL \in Nat
    /\ ResetTTL \in Nat
    /\ ChallengeTTL \in Nat

ASSUME RowsAreFinite ==
    IsFiniteSet(Tokens) /\ IsFiniteSet(Challenges) /\ IsFiniteSet(Requests)

VARIABLES
    now,        \* Date.now()
    account,    \* User rows: the password's version, whether a second factor
                \* is asked for, and the soft-delete mark
    row,        \* RefreshToken rows
    access,     \* access JWTs handed out, one with every refresh token
    blacklist,  \* BlacklistedToken rows
    reset,      \* PasswordResetToken rows
    challenge,  \* challenge tokens handed out; no table knows them
    req,        \* the step each request awaits, with what it has read so far
    ended       \* history: families the server has declared over

vars == <<now, account, row, access, blacklist, reset, challenge, req, ended>>

-----------------------------------------------------------------------------
(* Rows.  A row that was never created and one that was deleted are told   *)
(* apart because identities are never reused; "password" is history, the   *)
(* version of the password that opened the session.                        *)

Unissued == [status |-> "unissued"]

RefreshRow ==
    [status : {"active", "revoked"}, user : Users, family : Tokens,
     expiresAt : Nat, familySessionExpiresAt : Nat, password : Nat]

DeletedRow == [status : {"deleted"}, family : Tokens]

ResetRow ==
    [status : {"valid", "used"}, user : Users, expiresAt : Nat]

DeletedReset == [status : {"deleted"}]

AccessToken == [user : Users, expiresAt : Nat]

NoAccess == [status |-> "unissued"]

Challenge == [user : Users, expiresAt : Nat, password : Nat]

NoChallenge == [status |-> "unissued"]

Issued(t) == row[t].status # "unissued"
Stored(t) == row[t].status \in {"active", "revoked"}
Active(t) == row[t].status = "active"

(* Requests.                                                               *)

Idle == [pc |-> "idle"]

Request ==
         {Idle}
    \cup [pc : {"loginIssue", "loginChallenge", "mfaUser"}, user : Users,
          password : Nat]
    \cup [pc : {"refreshUser", "refreshRevoke", "refreshIssue"}, user : Users,
          token : Tokens, family : Tokens, deadline : Nat, password : Nat]
    \cup [pc : {"burn"}, family : Tokens]
    \cup [pc : {"logoutFind"}, user : Users, token : Tokens]
    \cup [pc : {"revokeOne"}, token : Tokens]
    \cup [pc : {"forgotDelete", "forgotCreate"}, user : Users]
    \cup [pc : {"resetCommit"}, user : Users, reset : ResetTokens]

Become(r, state) == req' = [req EXCEPT ![r] = state]
Finish(r) == Become(r, Idle)

(* A rotation that has revoked its token and not yet stored the next one.  *)
Pending(r) == req[r].pc = "refreshIssue"

(* jwtHelper.verify and the blacklist lookup of authMiddleware.            *)
Accepted(a) ==
    /\ access[a] # NoAccess
    /\ now < access[a].expiresAt
    /\ a \notin blacklist

-----------------------------------------------------------------------------
(* Repository calls.                                                       *)

CreateRefreshToken(t, user, family, deadline, password) ==
    /\ row' = [row EXCEPT ![t] =
                 [status |-> "active", user |-> user, family |-> family,
                  expiresAt |-> now + RefreshTTL,
                  familySessionExpiresAt |-> deadline, password |-> password]]
    /\ access' = [access EXCEPT ![t] =
                    [user |-> user, expiresAt |-> now + AccessTTL]]

(* updateMany over the rows of T that are still active.                    *)
RevokeRows(T) ==
    row' = [t \in Tokens |-> IF t \in T /\ Active(t)
                             THEN [row[t] EXCEPT !.status = "revoked"]
                             ELSE row[t]]

TokensOf(user) == {t \in Tokens : Stored(t) /\ row[t].user = user}
FamilyOf(f) == {t \in Tokens : Stored(t) /\ row[t].family = f}
FamiliesOf(user) == {row[t].family : t \in TokensOf(user)}
-----------------------------------------------------------------------------
(* login and issueTokensForUser: the password is compared with the row read *)
(* by findByEmail; a wrong password, an unverified address or a lock-out    *)
(* change nothing here.  The same row tells whether the login is complete.  *)
(* Every login method ends in issueTokensForUser.                           *)
Login(r, u) ==
    /\ "login" \in Ops
    /\ req[r] = Idle
    /\ ~account[u].deleted
    /\ Become(r, [pc |-> IF account[u].mfaEnabled THEN "loginChallenge"
                                                 ELSE "loginIssue",
                  user |-> u, password |-> account[u].password])
    /\ UNCHANGED <<now, account, row, access, blacklist, reset, ended, challenge>>

(* signMfaChallenge: a JWT that names the account and when it expires.     *)
LoginChallenge(r, c) ==
    /\ req[r].pc = "loginChallenge"
    /\ challenge[c] = NoChallenge
    /\ challenge' = [challenge EXCEPT ![c] =
                       [user |-> req[r].user, expiresAt |-> now + ChallengeTTL,
                        password |-> req[r].password]]
    /\ Finish(r)
    /\ UNCHANGED <<now, account, row, access, blacklist, reset, ended>>

(* Mutant: a challenge is taken at any age.                                *)
ChallengeIssued(c) == challenge[c] # NoChallenge

(* jwtHelper.verifyMfaChallenge, as often as the token is presented.       *)
ChallengeHolds(c) == challenge[c] # NoChallenge /\ now < challenge[c].expiresAt

(* verifyMfaLogin: the challenge, then the account, which must still ask   *)
(* for the second factor; the password is not looked at again.             *)
VerifyMfaLogin(r, c) ==
    /\ "login" \in Ops
    /\ req[r] = Idle
    /\ ChallengeHolds(c)
    /\ Become(r, [pc |-> "mfaUser", user |-> challenge[c].user,
                  password |-> challenge[c].password])
    /\ UNCHANGED <<now, account, row, access, blacklist, reset, ended, challenge>>

(* A wrong code ends the request as Abort does.                            *)
MfaUser(r) ==
    /\ req[r].pc = "mfaUser"
    /\ LET a == account[req[r].user] IN
         IF a.deleted \/ ~a.mfaEnabled
         THEN Finish(r)
         ELSE Become(r, [pc |-> "loginIssue", user |-> req[r].user,
                         password |-> req[r].password])
    /\ UNCHANGED <<now, account, row, access, blacklist, reset, ended, challenge>>

(* issueRefreshToken without a family: a new family with a new deadline.   *)
LoginIssue(r, t) ==
    /\ req[r].pc = "loginIssue"
    /\ ~Issued(t)
    /\ CreateRefreshToken(t, req[r].user, t, now + SessionMax, req[r].password)
    /\ Finish(r)
    /\ UNCHANGED <<now, account, blacklist, reset, ended, challenge>>

-----------------------------------------------------------------------------
(* refresh, one action per awaited call.                                   *)

(* findRefreshTokenByHash finds a revoked row, or a family past its        *)
(* absolute limit: the family is to be revoked.                            *)
RefreshReuse(r, t) ==
    /\ "refresh" \in Ops
    /\ req[r] = Idle
    /\ Stored(t)
    /\ \/ row[t].status = "revoked"
       \/ row[t].expiresAt >= now /\ row[t].familySessionExpiresAt < now
    /\ Become(r, [pc |-> "burn", family |-> row[t].family])
    /\ UNCHANGED <<now, account, row, access, blacklist, reset, ended, challenge>>

RefreshFind(r, t) ==
    /\ "refresh" \in Ops
    /\ req[r] = Idle
    /\ Active(t)
    /\ row[t].expiresAt >= now
    /\ row[t].familySessionExpiresAt >= now
    /\ Become(r, [pc |-> "refreshUser", user |-> row[t].user, token |-> t,
                  family |-> row[t].family,
                  deadline |-> row[t].familySessionExpiresAt,
                  password |-> row[t].password])
    /\ UNCHANGED <<now, account, row, access, blacklist, reset, ended, challenge>>

(* userRepository.findById does not see soft-deleted accounts.             *)
RefreshUser(r) ==
    /\ req[r].pc = "refreshUser"
    /\ IF account[req[r].user].deleted
       THEN Finish(r)
       ELSE Become(r, [req[r] EXCEPT !.pc = "refreshRevoke"])
    /\ UNCHANGED <<now, account, row, access, blacklist, reset, ended, challenge>>

(* Mutant: rotation with revokeRefreshToken, which does not look at        *)
(* revokedAt.                                                              *)
RevokeUnconditionally(r, t) ==
    /\ RevokeRows({t})
    /\ Become(r, [req[r] EXCEPT !.pc = "refreshIssue"])

(* revokeRefreshTokenIfActive updates the row only while revokedAt is null *)
(* and tells whether it did; a lost race is treated as reuse.              *)
RevokeIfActive(r, t) ==
    IF Active(t)
    THEN /\ RevokeRows({t})
         /\ Become(r, [req[r] EXCEPT !.pc = "refreshIssue"])
    ELSE /\ Become(r, [pc |-> "burn", family |-> req[r].family])
         /\ UNCHANGED row

RefreshRevoke(r) ==
    /\ req[r].pc = "refreshRevoke"
    /\ RevokeIfActive(r, req[r].token)
    /\ UNCHANGED <<now, account, access, blacklist, reset, ended, challenge>>

(* Mutant: rotation starts the absolute limit anew.                        *)
RefreshExtends(r, t) ==
    /\ Pending(r)
    /\ ~Issued(t)
    /\ CreateRefreshToken(t, req[r].user, req[r].family, now + SessionMax,
                          req[r].password)
    /\ Finish(r)
    /\ UNCHANGED <<now, account, blacklist, reset, ended, challenge>>

(* issueRefreshToken with the family and the deadline that were read.      *)
RefreshIssue(r, t) ==
    /\ Pending(r)
    /\ ~Issued(t)
    /\ CreateRefreshToken(t, req[r].user, req[r].family, req[r].deadline,
                          req[r].password)
    /\ Finish(r)
    /\ UNCHANGED <<now, account, blacklist, reset, ended, challenge>>

(* revokeRefreshTokenFamily, then the request is refused.                  *)
RefreshBurn(r) ==
    /\ req[r].pc = "burn"
    /\ RevokeRows(FamilyOf(req[r].family))
    /\ ended' = ended \cup {req[r].family}
    /\ Finish(r)
    /\ UNCHANGED <<now, account, access, blacklist, reset, challenge>>

-----------------------------------------------------------------------------
(* logout: blacklist the access token of the caller, find the refresh      *)
(* token, revoke it when it is the caller's and still active.              *)
Logout(r, a, t) ==
    /\ "logout" \in Ops
    /\ req[r] = Idle
    /\ Accepted(a)
    /\ blacklist' = blacklist \cup {a}
    /\ Become(r, [pc |-> "logoutFind", user |-> access[a].user, token |-> t])
    /\ UNCHANGED <<now, account, row, access, reset, ended, challenge>>

LogoutFind(r) ==
    /\ req[r].pc = "logoutFind"
    /\ LET t == req[r].token IN
         IF Active(t) /\ row[t].user = req[r].user
         THEN Become(r, [pc |-> "revokeOne", token |-> t])
         ELSE Finish(r)
    /\ UNCHANGED <<now, account, row, access, blacklist, reset, ended, challenge>>

(* revokeSession, the first read: another user's session is "not found".   *)
RevokeSession(r, a, t) ==
    /\ "revokeSession" \in Ops
    /\ req[r] = Idle
    /\ Accepted(a)
    /\ Active(t)
    /\ row[t].user = access[a].user
    /\ Become(r, [pc |-> "revokeOne", token |-> t])
    /\ UNCHANGED <<now, account, row, access, blacklist, reset, ended, challenge>>

(* revokeRefreshToken: an unconditional update, which fails when the row   *)
(* has been cleaned up in the meantime.                                    *)
RevokeOne(r) ==
    /\ req[r].pc = "revokeOne"
    /\ LET t == req[r].token IN
         /\ RevokeRows({t})
         /\ ended' = ended \cup (IF Stored(t) THEN {row[t].family} ELSE {})
    /\ Finish(r)
    /\ UNCHANGED <<now, account, access, blacklist, reset, challenge>>

(* revokeAllSessions is one updateMany.                                    *)
RevokeAll(r, a) ==
    /\ "revokeAll" \in Ops
    /\ req[r] = Idle
    /\ Accepted(a)
    /\ RevokeRows(TokensOf(access[a].user))
    /\ ended' = ended \cup FamiliesOf(access[a].user)
    /\ UNCHANGED <<now, account, access, blacklist, reset, req, challenge>>

-----------------------------------------------------------------------------
(* forgotPassword: find the account, delete its reset tokens, create one.  *)
ForgotPassword(r, u) ==
    /\ "forgot" \in Ops
    /\ req[r] = Idle
    /\ ~account[u].deleted
    /\ Become(r, [pc |-> "forgotDelete", user |-> u])
    /\ UNCHANGED <<now, account, row, access, blacklist, reset, ended, challenge>>

ForgotDelete(r) ==
    /\ req[r].pc = "forgotDelete"
    /\ reset' = [k \in ResetTokens |->
                   IF reset[k].status = "valid" /\ reset[k].user = req[r].user
                   THEN [status |-> "deleted"] ELSE reset[k]]
    /\ Become(r, [pc |-> "forgotCreate", user |-> req[r].user])
    /\ UNCHANGED <<now, account, row, access, blacklist, ended, challenge>>

ForgotCreate(r, k) ==
    /\ req[r].pc = "forgotCreate"
    /\ reset[k] = Unissued
    /\ reset' = [reset EXCEPT ![k] = [status |-> "valid", user |-> req[r].user,
                                      expiresAt |-> now + ResetTTL]]
    /\ Finish(r)
    /\ UNCHANGED <<now, account, row, access, blacklist, ended, challenge>>

(* resetPassword: find a valid token and hash the new password, then one   *)
(* transaction, which fails as a whole when the token is gone by then.     *)
ResetPassword(r, k) ==
    /\ "reset" \in Ops
    /\ req[r] = Idle
    /\ reset[k].status = "valid"
    /\ reset[k].expiresAt >= now
    /\ Become(r, [pc |-> "resetCommit", user |-> reset[k].user, reset |-> k])
    /\ UNCHANGED <<now, account, row, access, blacklist, reset, ended, challenge>>

(* Mutant: a link that another request has used meanwhile passes.          *)
ResetTokenUsedTwice(k) == reset[k].status = "deleted"

(* deletePasswordResetToken throws when there is no row to delete.         *)
ResetTokenGone(k) == reset[k].status # "valid"

ResetCommit(r) ==
    /\ req[r].pc = "resetCommit"
    /\ LET k == req[r].reset
           u == req[r].user IN
         IF ResetTokenGone(k)
         THEN UNCHANGED <<account, row, reset, ended>>
         ELSE /\ account' = [account EXCEPT ![u].password = @ + 1]
              /\ reset' = [reset EXCEPT ![k].status = "used"]
              /\ RevokeRows(TokensOf(u))
              /\ ended' = ended \cup FamiliesOf(u)
    /\ Finish(r)
    /\ UNCHANGED <<now, access, blacklist, challenge>>
-----------------------------------------------------------------------------
(* Surroundings.                                                           *)

(* The process crashes, or the awaited database call throws: the request   *)
(* ends where it stands, what it has written stays.                        *)
Abort(r) ==
    /\ req[r] # Idle
    /\ Finish(r)
    /\ UNCHANGED <<now, account, row, access, blacklist, reset, ended, challenge>>

(* deleteUser marks the account and leaves its refresh tokens alone.       *)
DeleteUser(u) ==
    /\ "deleteUser" \in Ops
    /\ ~account[u].deleted
    /\ account' = [account EXCEPT ![u].deleted = TRUE]
    /\ UNCHANGED <<now, row, access, blacklist, reset, req, ended, challenge>>

(* confirmSetup and disable switch the second factor (module               *)
(* MfaEnrollment); whoever has the user's session asks for it.             *)
SwitchMfa(u) ==
    /\ "mfa" \in Ops
    /\ ~account[u].deleted
    /\ account' = [account EXCEPT ![u].mfaEnabled = ~@]
    /\ UNCHANGED <<now, row, access, blacklist, reset, req, ended, challenge>>

(* The nightly jobs.                                                       *)
CleanupRefreshTokens ==
    /\ "cleanup" \in Ops
    /\ row' = [t \in Tokens |->
                 IF /\ Stored(t)
                    /\ \/ row[t].expiresAt < now
                       \/ row[t].familySessionExpiresAt < now
                 THEN [status |-> "deleted", family |-> row[t].family]
                 ELSE row[t]]
    /\ UNCHANGED <<now, account, access, blacklist, reset, req, ended, challenge>>

CleanupAuthTokens ==
    /\ "cleanup" \in Ops
    /\ reset' = [k \in ResetTokens |->
                   IF reset[k].status = "valid" /\ reset[k].expiresAt < now
                   THEN [status |-> "deleted"] ELSE reset[k]]
    /\ UNCHANGED <<now, account, row, access, blacklist, req, ended, challenge>>

(* Mutant: entries go by their age instead of the token's expiry.          *)
CleanupOldBlacklistedTokens ==
    /\ "cleanup" \in Ops
    /\ blacklist' = {a \in blacklist : ~(access[a].expiresAt < now + AccessTTL)}
    /\ UNCHANGED <<now, account, row, access, reset, req, ended, challenge>>

CleanupBlacklistedTokens ==
    /\ "cleanup" \in Ops
    /\ blacklist' = {a \in blacklist : ~(access[a].expiresAt < now)}
    /\ UNCHANGED <<now, account, row, access, reset, req, ended, challenge>>

Tick ==
    /\ now < MaxTime
    /\ now' = now + 1
    /\ UNCHANGED <<account, row, access, blacklist, reset, req, ended, challenge>>

Init ==
    /\ now = 0
    /\ account = [u \in Users |-> [password |-> 0, mfaEnabled |-> FALSE,
                                deleted |-> FALSE]]
    /\ row = [t \in Tokens |-> Unissued]
    /\ access = [t \in Tokens |-> NoAccess]
    /\ blacklist = {}
    /\ reset = [k \in ResetTokens |-> Unissued]
    /\ challenge = [c \in Challenges |-> NoChallenge]
    /\ req = [r \in Requests |-> Idle]
    /\ ended = {}

LoginStep(r) ==
    \/ \E u \in Users : Login(r, u)
    \/ \E t \in Tokens : LoginIssue(r, t)
    \/ \E c \in Challenges : LoginChallenge(r, c) \/ VerifyMfaLogin(r, c)
    \/ MfaUser(r)

RefreshStep(r) ==
    \/ \E t \in Tokens : RefreshReuse(r, t) \/ RefreshFind(r, t)
    \/ RefreshUser(r)
    \/ RefreshRevoke(r)
    \/ \E t \in Tokens : RefreshIssue(r, t)
    \/ RefreshBurn(r)

SignOutStep(r) ==
    \/ \E a, t \in Tokens : Logout(r, a, t) \/ RevokeSession(r, a, t)
    \/ LogoutFind(r)
    \/ RevokeOne(r)
    \/ \E a \in Tokens : RevokeAll(r, a)

PasswordStep(r) ==
    \/ \E u \in Users : ForgotPassword(r, u)
    \/ ForgotDelete(r)
    \/ \E k \in ResetTokens : ForgotCreate(r, k) \/ ResetPassword(r, k)
    \/ ResetCommit(r)

Next ==
    \/ \E r \in Requests :
         \/ LoginStep(r)
         \/ RefreshStep(r)
         \/ SignOutStep(r)
         \/ PasswordStep(r)
         \/ Abort(r)
    \/ \E u \in Users : DeleteUser(u) \/ SwitchMfa(u)
    \/ CleanupRefreshTokens
    \/ CleanupAuthTokens
    \/ CleanupBlacklistedTokens
    \/ Tick

Spec == Init /\ [][Next]_vars

-----------------------------------------------------------------------------
(* Every variable keeps its type.                                          *)
TypeOK ==
    /\ now \in Nat
    /\ account \in [Users -> [password : Nat, mfaEnabled : BOOLEAN,
                            deleted : BOOLEAN]]
    /\ row \in [Tokens -> {Unissued} \cup RefreshRow \cup DeletedRow]
    /\ access \in [Tokens -> {NoAccess} \cup AccessToken]
    /\ blacklist \in SUBSET Tokens
    /\ reset \in [ResetTokens -> {Unissued} \cup ResetRow \cup DeletedReset]
    /\ challenge \in [Challenges -> {NoChallenge} \cup Challenge]
    /\ req \in [Requests -> Request]
    /\ ended \in SUBSET Tokens

(* A login is one session: at no time does a token family have two tokens  *)
(* that can be exchanged, however many requests present its tokens at once *)
(* and whatever crashes between revoking one token and storing the next.   *)
OneLiveTokenPerFamily ==
    \A s, t \in Tokens :
        Active(s) /\ Active(t) /\ row[s].family = row[t].family => s = t

(* Rotation passes a session on unchanged: all tokens of a family belong   *)
(* to one account, to one authentication and to one absolute deadline,     *)
(* which no chain of refreshes moves.                                      *)
FamilyAgrees ==
    \A s, t \in Tokens :
        Stored(s) /\ Stored(t) /\ row[s].family = row[t].family =>
            /\ row[s].user = row[t].user
            /\ row[s].password = row[t].password
            /\ row[s].familySessionExpiresAt = row[t].familySessionExpiresAt

(* Every change of a password by resetPassword has used up a reset token   *)
(* of its own, also when two requests present the same link at once.       *)
EveryResetUsesItsToken ==
    \A u \in Users :
        account[u].password =
            Cardinality({k \in ResetTokens :
                            reset[k].status = "used" /\ reset[k].user = u})

(* "memaksa re-login di semua device": a password reset ends the sessions  *)
(* it finds, but a login or a rotation in flight carries the old password  *)
(* past its commit, and so does the challenge of a login that waits for    *)
(* its second factor, which verifyMfaLogin takes without asking for the    *)
(* password again.  These are the only ones: what still rests on an old    *)
(* password, be it a session, a challenge that holds or a request that is  *)
(* about to hand out one or the other, never becomes more, but for the     *)
(* requests that present such a challenge, one by one, while it holds.     *)
Outdated(x) == x.password # account[x.user].password

OldSessions == {t \in Tokens : Active(t) /\ Outdated(row[t])}

OldChallenges ==
    {c \in Challenges : /\ challenge[c] # NoChallenge
                        /\ now < challenge[c].expiresAt
                        /\ Outdated(challenge[c])}

CarriesLogin(r) ==
    req[r].pc \in {"loginIssue", "loginChallenge", "mfaUser", "refreshIssue"}

OldRequests == {r \in Requests : CarriesLogin(r) /\ Outdated(req[r])}

RestOnOld ==
    Cardinality(OldSessions) + Cardinality(OldChallenges) + Cardinality(OldRequests)

PasswordsStay == \A u \in Users : account'[u].password = account[u].password

SecondStepOfOld ==
    /\ OldSessions' = OldSessions
    /\ OldChallenges' = OldChallenges
    /\ \E r \in Requests : \E c \in OldChallenges :
         /\ OldRequests' = OldRequests \cup {r}
         /\ req'[r].user = challenge[c].user
         /\ req'[r].password = challenge[c].password

OldPasswordsDieOut ==
    [][IF PasswordsStay
       THEN RestOnOld' <= RestOnOld \/ SecondStepOfOld
       ELSE OldSessions' \subseteq OldSessions]_vars

(* An access token that is refused once, because logout has blacklisted it *)
(* or because its time is over, is refused for ever: the clean-up job      *)
(* drops the entry of a signed-out token in the end, but never while the   *)
(* token could pass without it.                                            *)
Refused(a) == access[a] # NoAccess /\ ~Accepted(a)

LoggedOutStaysOut == [][\A a \in Tokens : Refused(a) => Refused(a)']_vars

(* AuthSession implements SessionLifecycle: a session is live while its    *)
(* family has an active token or a rotation between its two writes.        *)
FamilyIsLive(f) ==
    \/ \E t \in Tokens : Active(t) /\ row[t].family = f
    \/ \E r \in Requests : Pending(r) /\ req[r].family = f

FamilyExists(f) == Issued(f) /\ row[f].family = f

SessionPhase ==
    [f \in Tokens |-> IF ~FamilyExists(f) THEN "unborn"
                      ELSE IF FamilyIsLive(f) THEN "live"
                      ELSE "over"]

Lifecycle == INSTANCE SessionLifecycle WITH Sessions <- Tokens,
                                            session <- SessionPhase

ImplementsLifecycle == Lifecycle!Spec

-----------------------------------------------------------------------------
(* What makes these properties inductive.                                  *)

InRotation(r) == req[r].pc \in {"refreshUser", "refreshRevoke", "refreshIssue"}

(* Families are named by their first token.                                *)
FamiliesExist ==
    /\ \A t \in Tokens : Issued(t) => FamilyExists(row[t].family)
    /\ \A r \in Requests : InRotation(r) => FamilyExists(req[r].family)

(* A rotation still knows which family its token is of.                    *)
RotationsKnowTheirToken ==
    \A r \in Requests :
        req[r].pc \in {"refreshUser", "refreshRevoke"} =>
            /\ Issued(req[r].token)
            /\ row[req[r].token].family = req[r].family

(* The right to store the next token of a family is held either by one     *)
(* active token or by one pending rotation.                                *)
OneHeirPerFamily ==
    /\ \A r, s \in Requests :
         Pending(r) /\ Pending(s) /\ req[r].family = req[s].family => r = s
    /\ \A r \in Requests, t \in Tokens :
         Pending(r) /\ Active(t) => row[t].family # req[r].family

(* What rotations have read of a family agrees with its rows and with what *)
(* other rotations have read, also when the row itself is gone.            *)
RotationsAgree ==
    /\ \A r \in Requests, t \in Tokens :
         InRotation(r) /\ Stored(t) /\ row[t].family = req[r].family =>
             /\ row[t].user = req[r].user
             /\ row[t].password = req[r].password
             /\ row[t].familySessionExpiresAt = req[r].deadline
    /\ \A r, s \in Requests :
         InRotation(r) /\ InRotation(s) /\ req[r].family = req[s].family =>
             /\ req[r].user = req[s].user
             /\ req[r].password = req[s].password
             /\ req[r].deadline = req[s].deadline

(* Every access token came with a refresh token.                           *)
AccessComesWithRow == \A t \in Tokens : access[t] # NoAccess => Issued(t)

(* The inductive invariant of the session rows.                            *)
RotationInvariant ==
    /\ TypeOK
    /\ OneLiveTokenPerFamily
    /\ FamilyAgrees
    /\ FamiliesExist
    /\ RotationsKnowTheirToken
    /\ OneHeirPerFamily
    /\ RotationsAgree

-----------------------------------------------------------------------------
(* A claim of the comments of auth.service.ts that interleavings refute.   *)

(* "cabut seluruh RANGKAIAN (family) token ini": once a family has been    *)
(* revoked as a whole none of its tokens is usable.                        *)
RevokedFamilyIsDead ==
    \A t \in Tokens : Active(t) => row[t].family \notin ended
=============================================================================
