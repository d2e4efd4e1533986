-------------------------- MODULE AuthSessionProofs --------------------------
(***************************************************************************)
(* Proofs about AuthSession, for any number of accounts, tokens and        *)
(* requests and any lifetimes.                                             *)
(***************************************************************************)
EXTENDS AuthSession, TLAPS, FiniteSetTheorems

-----------------------------------------------------------------------------
(* Types                                                                   *)

(* The states a request can be in, one lemma for all proofs that need the  *)
(* fields of a request in a known step.                                    *)
LEMMA RequestFields ==
    ASSUME TypeOK, NEW r \in Requests
    PROVE  /\ req[r].pc \in {"loginIssue", "loginChallenge", "mfaUser"} =>
                req[r].user \in Users /\ req[r].password \in Nat
           /\ InRotation(r) =>
                /\ req[r].user \in Users
                /\ req[r].token \in Tokens
                /\ req[r].family \in Tokens
                /\ req[r].deadline \in Nat
                /\ req[r].password \in Nat
                /\ req[r] = [pc |-> req[r].pc, user |-> req[r].user,
                             token |-> req[r].token, family |-> req[r].family,
                             deadline |-> req[r].deadline,
                             password |-> req[r].password]
           /\ req[r].pc = "burn" => req[r].family \in Tokens
           /\ req[r].pc = "logoutFind" =>
                req[r].user \in Users /\ req[r].token \in Tokens
           /\ req[r].pc = "revokeOne" => req[r].token \in Tokens
           /\ req[r].pc \in {"forgotDelete", "forgotCreate"} =>
                req[r].user \in Users
           /\ req[r].pc = "resetCommit" =>
                req[r].user \in Users /\ req[r].reset \in ResetTokens
<1>. req[r] \in Request
  BY DEF TypeOK
<1>. QED
  BY DEF Request, Idle, InRotation

(* Stored rows carry the fields of a RefreshToken row, deleted ones their  *)
(* family.                                                                 *)
LEMMA RowFields ==
    ASSUME TypeOK, NEW t \in Tokens
    PROVE  /\ Stored(t) => row[t] \in RefreshRow
           /\ Stored(t) \/ row[t].status = "deleted" \/ row[t] = Unissued
           /\ Issued(t) => row[t].family \in Tokens
           /\ row[t].status = "deleted" =>
                row[t] = [status |-> "deleted", family |-> row[t].family]
<1>. row[t] \in {Unissued} \cup RefreshRow \cup DeletedRow
  BY DEF TypeOK
<1>. QED
  BY DEF Stored, Issued, Unissued, RefreshRow, DeletedRow

(* Revoking rows keeps the table well typed and touches only the status of *)
(* rows that were active.                                                  *)
LEMMA RevokeRowsType ==
    ASSUME TypeOK, NEW T, RevokeRows(T)
    PROVE  row' \in [Tokens -> {Unissued} \cup RefreshRow \cup DeletedRow]
<1>1. SUFFICES ASSUME NEW t \in Tokens
               PROVE row'[t] \in {Unissued} \cup RefreshRow \cup DeletedRow
  BY DEF RevokeRows
<1>2. CASE t \in T /\ Active(t)
  <2>1. row[t] \in RefreshRow
    BY <1>2, RowFields DEF Active, Stored
  <2>2. row'[t] = [row[t] EXCEPT !.status = "revoked"]
    BY <1>2 DEF RevokeRows
  <2>. QED
    BY <2>1, <2>2 DEF RefreshRow
<1>3. CASE ~(t \in T /\ Active(t))
  BY <1>3 DEF RevokeRows, TypeOK
<1>. QED
  BY <1>2, <1>3

(* A new row and its access token are well typed.                          *)
LEMMA CreateType ==
    ASSUME TypeOK, NEW t \in Tokens, NEW u \in Users, NEW f \in Tokens,
           NEW d \in Nat, NEW p \in Nat, CreateRefreshToken(t, u, f, d, p)
    PROVE  /\ row' \in [Tokens -> {Unissued} \cup RefreshRow \cup DeletedRow]
           /\ access' \in [Tokens -> {NoAccess} \cup AccessToken]
<1>1. now + RefreshTTL \in Nat /\ now + AccessTTL \in Nat
  BY LifetimesAreNaturals DEF TypeOK
<1>2. [status |-> "active", user |-> u, family |-> f,
       expiresAt |-> now + RefreshTTL,
       familySessionExpiresAt |-> d, password |-> p] \in RefreshRow
  BY <1>1 DEF RefreshRow
<1>3. [user |-> u, expiresAt |-> now + AccessTTL] \in AccessToken
  BY <1>1 DEF AccessToken
<1>. QED
  BY <1>2, <1>3 DEF CreateRefreshToken, TypeOK

LEMMA TypeInit == Init => TypeOK
BY DEF Init, TypeOK, Unissued, NoAccess, NoChallenge, Request, Idle

(* A request that moves to a state of type Request leaves req well typed.  *)
LEMMA BecomeType ==
    ASSUME TypeOK, NEW r \in Requests, NEW x \in Request, Become(r, x)
    PROVE  req' \in [Requests -> Request]
BY DEF TypeOK, Become

LEMMA IdleType == Idle \in Request
BY DEF Request

(* A rotation that moves on keeps what it has read.                        *)
LEMMA Advance ==
    ASSUME TypeOK, NEW r \in Requests, InRotation(r),
           NEW p \in {"refreshRevoke", "refreshIssue"}
    PROVE  LET x == [req[r] EXCEPT !.pc = p] IN
             /\ x \in Request
             /\ x = [pc |-> p, user |-> req[r].user, token |-> req[r].token,
                     family |-> req[r].family, deadline |-> req[r].deadline,
                     password |-> req[r].password]
<1> DEFINE x == [pc |-> p, user |-> req[r].user, token |-> req[r].token,
                 family |-> req[r].family, deadline |-> req[r].deadline,
                 password |-> req[r].password]
<1>1. req[r] = [pc |-> req[r].pc, user |-> req[r].user,
                token |-> req[r].token, family |-> req[r].family,
                deadline |-> req[r].deadline, password |-> req[r].password]
  BY RequestFields
<1>2. [req[r] EXCEPT !.pc = p] = x
  BY <1>1
<1>3. x \in Request
  <2>1. x \in [pc : {"refreshUser", "refreshRevoke", "refreshIssue"},
               user : Users, token : Tokens, family : Tokens, deadline : Nat,
               password : Nat]
    BY RequestFields
  <2>. QED
    BY <2>1 DEF Request
<1>. QED
  BY <1>2, <1>3

LEMMA TypeRefresh ==
    ASSUME TypeOK, NEW r \in Requests, RefreshStep(r)
    PROVE  TypeOK'
<1>1. ASSUME NEW t \in Tokens, RefreshReuse(r, t)
      PROVE  TypeOK'
  <2>1. [pc |-> "burn", family |-> row[t].family] \in Request
    BY <1>1, RowFields DEF RefreshReuse, Request, RefreshRow
  <2>. QED
    BY <1>1, <2>1, BecomeType DEF RefreshReuse, TypeOK
<1>2. ASSUME NEW t \in Tokens, RefreshFind(r, t)
      PROVE  TypeOK'
  <2>1. row[t] \in RefreshRow
    BY <1>2, RowFields DEF RefreshFind, Active, Stored
  <2>2. [pc |-> "refreshUser", user |-> row[t].user, token |-> t,
         family |-> row[t].family,
         deadline |-> row[t].familySessionExpiresAt,
         password |-> row[t].password] \in Request
    BY <2>1 DEF Request, RefreshRow
  <2>. QED
    BY <1>2, <2>2, BecomeType DEF RefreshFind, TypeOK
<1>3. CASE RefreshUser(r)
  <2>1. [req[r] EXCEPT !.pc = "refreshRevoke"] \in Request
    BY <1>3, Advance DEF RefreshUser, InRotation
  <2>2. req' \in [Requests -> Request]
    BY <1>3, <2>1, IdleType, BecomeType DEF RefreshUser, Finish
  <2>. QED
    BY <1>3, <2>2 DEF RefreshUser, TypeOK
<1>4. CASE RefreshRevoke(r)
  <2>1. [req[r] EXCEPT !.pc = "refreshIssue"] \in Request
    BY <1>4, Advance DEF RefreshRevoke, InRotation
  <2>2. [pc |-> "burn", family |-> req[r].family] \in Request
    BY <1>4, RequestFields DEF RefreshRevoke, InRotation, Request
  <2>3. req' \in [Requests -> Request]
    BY <1>4, <2>1, <2>2, BecomeType DEF RefreshRevoke, RevokeIfActive
  <2>4. row' \in [Tokens -> {Unissued} \cup RefreshRow \cup DeletedRow]
    BY <1>4, RevokeRowsType DEF RefreshRevoke, RevokeIfActive, TypeOK
  <2>. QED
    BY <1>4, <2>3, <2>4 DEF RefreshRevoke, TypeOK
<1>5. ASSUME NEW t \in Tokens, RefreshIssue(r, t)
      PROVE  TypeOK'
  <2>1. /\ req[r].user \in Users
        /\ req[r].family \in Tokens
        /\ req[r].deadline \in Nat
        /\ req[r].password \in Nat
    BY <1>5, RequestFields DEF RefreshIssue, Pending, InRotation
  <2>2. /\ row' \in [Tokens -> {Unissued} \cup RefreshRow \cup DeletedRow]
        /\ access' \in [Tokens -> {NoAccess} \cup AccessToken]
    BY <1>5, <2>1, CreateType DEF RefreshIssue
  <2>3. req' \in [Requests -> Request]
    BY <1>5, IdleType, BecomeType DEF RefreshIssue, Finish
  <2>. QED
    BY <1>5, <2>2, <2>3 DEF RefreshIssue, TypeOK
<1>6. CASE RefreshBurn(r)
  <2>1. row' \in [Tokens -> {Unissued} \cup RefreshRow \cup DeletedRow]
    BY <1>6, RevokeRowsType DEF RefreshBurn
  <2>2. req' \in [Requests -> Request]
    BY <1>6, IdleType, BecomeType DEF RefreshBurn, Finish
  <2>3. ended' \in SUBSET Tokens
    BY <1>6, RequestFields DEF RefreshBurn, TypeOK
  <2>. QED
    BY <1>6, <2>1, <2>2, <2>3 DEF RefreshBurn, TypeOK
<1>. QED
  BY <1>1, <1>2, <1>3, <1>4, <1>5, <1>6 DEF RefreshStep

LEMMA TypeSignOut ==
    ASSUME TypeOK, NEW r \in Requests, SignOutStep(r)
    PROVE  TypeOK'
<1>1. ASSUME NEW a \in Tokens, NEW t \in Tokens, Logout(r, a, t)
      PROVE  TypeOK'
  <2>1. access[a].user \in Users
    BY <1>1 DEF Logout, Accepted, TypeOK, AccessToken
  <2>2. [pc |-> "logoutFind", user |-> access[a].user, token |-> t] \in Request
    BY <2>1 DEF Request
  <2>3. req' \in [Requests -> Request]
    BY <1>1, <2>2, BecomeType DEF Logout
  <2>. QED
    BY <1>1, <2>3 DEF Logout, TypeOK
<1>2. ASSUME NEW a \in Tokens, NEW t \in Tokens, RevokeSession(r, a, t)
      PROVE  TypeOK'
  <2>1. [pc |-> "revokeOne", token |-> t] \in Request
    BY DEF Request
  <2>2. req' \in [Requests -> Request]
    BY <1>2, <2>1, BecomeType DEF RevokeSession
  <2>. QED
    BY <1>2, <2>2 DEF RevokeSession, TypeOK
<1>3. CASE LogoutFind(r)
  <2>1. [pc |-> "revokeOne", token |-> req[r].token] \in Request
    BY <1>3, RequestFields DEF LogoutFind, Request
  <2>2. req' \in [Requests -> Request]
    BY <1>3, <2>1, IdleType, BecomeType DEF LogoutFind, Finish
  <2>. QED
    BY <1>3, <2>2 DEF LogoutFind, TypeOK
<1>4. CASE RevokeOne(r)
  <2>1. req[r].token \in Tokens
    BY <1>4, RequestFields DEF RevokeOne
  <2>2. row' \in [Tokens -> {Unissued} \cup RefreshRow \cup DeletedRow]
    BY <1>4, RevokeRowsType DEF RevokeOne
  <2>3. req' \in [Requests -> Request]
    BY <1>4, IdleType, BecomeType DEF RevokeOne, Finish
  <2>4. ended' \in SUBSET Tokens
    <3>1. Stored(req[r].token) => row[req[r].token].family \in Tokens
      BY <2>1, RowFields DEF RefreshRow
    <3>. QED
      BY <1>4, <3>1 DEF RevokeOne, TypeOK
  <2>. QED
    BY <1>4, <2>2, <2>3, <2>4 DEF RevokeOne, TypeOK
<1>5. ASSUME NEW a \in Tokens, RevokeAll(r, a)
      PROVE  TypeOK'
  <2>1. row' \in [Tokens -> {Unissued} \cup RefreshRow \cup DeletedRow]
    BY <1>5, RevokeRowsType DEF RevokeAll
  <2>2. FamiliesOf(access[a].user) \subseteq Tokens
    BY RowFields DEF FamiliesOf, TokensOf, RefreshRow
  <2>. QED
    BY <1>5, <2>1, <2>2 DEF RevokeAll, TypeOK
<1>. QED
  BY <1>1, <1>2, <1>3, <1>4, <1>5 DEF SignOutStep

LEMMA TypePassword ==
    ASSUME TypeOK, NEW r \in Requests, PasswordStep(r)
    PROVE  TypeOK'
<1>1. ASSUME NEW u \in Users, ForgotPassword(r, u)
      PROVE  TypeOK'
  <2>1. [pc |-> "forgotDelete", user |-> u] \in Request
    BY DEF Request
  <2>. QED
    BY <1>1, <2>1, BecomeType DEF ForgotPassword, TypeOK
<1>2. CASE ForgotDelete(r)
  <2>1. [pc |-> "forgotCreate", user |-> req[r].user] \in Request
    BY <1>2, RequestFields DEF ForgotDelete, Request
  <2>2. reset' \in [ResetTokens -> {Unissued} \cup ResetRow \cup DeletedReset]
    BY <1>2 DEF ForgotDelete, TypeOK, DeletedReset
  <2>. QED
    BY <1>2, <2>1, <2>2, BecomeType DEF ForgotDelete, TypeOK
<1>3. ASSUME NEW k \in ResetTokens, ForgotCreate(r, k)
      PROVE  TypeOK'
  <2>1. [status |-> "valid", user |-> req[r].user,
         expiresAt |-> now + ResetTTL] \in ResetRow
    BY <1>3, RequestFields, LifetimesAreNaturals
       DEF ForgotCreate, ResetRow, TypeOK
  <2>2. reset' \in [ResetTokens -> {Unissued} \cup ResetRow \cup DeletedReset]
    BY <1>3, <2>1 DEF ForgotCreate, TypeOK
  <2>3. req' \in [Requests -> Request]
    BY <1>3, IdleType, BecomeType DEF ForgotCreate, Finish
  <2>. QED
    BY <1>3, <2>2, <2>3 DEF ForgotCreate, TypeOK
<1>4. ASSUME NEW k \in ResetTokens, ResetPassword(r, k)
      PROVE  TypeOK'
  <2>1. reset[k].user \in Users
    BY <1>4 DEF ResetPassword, TypeOK, Unissued, ResetRow, DeletedReset
  <2>2. [pc |-> "resetCommit", user |-> reset[k].user, reset |-> k] \in Request
    BY <2>1 DEF Request
  <2>. QED
    BY <1>4, <2>2, BecomeType DEF ResetPassword, TypeOK
<1>5. CASE ResetCommit(r)
  <2>1. req[r].user \in Users /\ req[r].reset \in ResetTokens
    BY <1>5, RequestFields DEF ResetCommit
  <2>2. req' \in [Requests -> Request]
    BY <1>5, IdleType, BecomeType DEF ResetCommit, Finish
  <2>3. CASE ResetTokenGone(req[r].reset)
    BY <1>5, <2>2, <2>3 DEF ResetCommit, TypeOK
  <2>4. CASE ~ResetTokenGone(req[r].reset)
    <3>1. account' \in [Users -> [password : Nat, mfaEnabled : BOOLEAN,
                             deleted : BOOLEAN]]
      BY <1>5, <2>1, <2>4 DEF ResetCommit, TypeOK
    <3>2. reset[req[r].reset] \in ResetRow
      BY <2>1, <2>4 DEF ResetTokenGone, TypeOK, Unissued, DeletedReset
    <3>3. reset' \in [ResetTokens -> {Unissued} \cup ResetRow \cup DeletedReset]
      BY <1>5, <2>1, <2>4, <3>2 DEF ResetCommit, TypeOK, ResetRow
    <3>4. row' \in [Tokens -> {Unissued} \cup RefreshRow \cup DeletedRow]
      BY <1>5, <2>4, RevokeRowsType DEF ResetCommit
    <3>5. FamiliesOf(req[r].user) \subseteq Tokens
      BY RowFields DEF FamiliesOf, TokensOf, RefreshRow
    <3>. QED
      BY <1>5, <2>2, <2>4, <3>1, <3>3, <3>4, <3>5 DEF ResetCommit, TypeOK
  <2>. QED
    BY <2>3, <2>4
<1>. QED
  BY <1>1, <1>2, <1>3, <1>4, <1>5 DEF PasswordStep

LEMMA TypeLogin ==
    ASSUME TypeOK, NEW r \in Requests, LoginStep(r)
    PROVE  TypeOK'
<1>1. ASSUME NEW u \in Users, Login(r, u)
      PROVE  TypeOK'
  <2>1. \A p \in {"loginIssue", "loginChallenge"} :
          [pc |-> p, user |-> u, password |-> account[u].password] \in Request
    BY DEF Request, TypeOK
  <2>. QED
    BY <1>1, <2>1, BecomeType DEF Login, TypeOK
<1>2. ASSUME NEW t \in Tokens, LoginIssue(r, t)
      PROVE  TypeOK'
  <2>1. req[r].user \in Users /\ req[r].password \in Nat
    BY <1>2, RequestFields DEF LoginIssue
  <2>2. now + SessionMax \in Nat
    BY LifetimesAreNaturals DEF TypeOK
  <2>3. /\ row' \in [Tokens -> {Unissued} \cup RefreshRow \cup DeletedRow]
        /\ access' \in [Tokens -> {NoAccess} \cup AccessToken]
    BY <1>2, <2>1, <2>2, CreateType DEF LoginIssue
  <2>4. req' \in [Requests -> Request]
    BY <1>2, IdleType, BecomeType DEF LoginIssue, Finish
  <2>. QED
    BY <1>2, <2>3, <2>4 DEF LoginIssue, TypeOK
<1>3. ASSUME NEW c \in Challenges, LoginChallenge(r, c)
      PROVE  TypeOK'
  <2>1. [user |-> req[r].user, expiresAt |-> now + ChallengeTTL,
         password |-> req[r].password] \in Challenge
    BY <1>3, RequestFields, LifetimesAreNaturals
       DEF LoginChallenge, Challenge, TypeOK
  <2>2. challenge' \in [Challenges -> {NoChallenge} \cup Challenge]
    BY <1>3, <2>1 DEF LoginChallenge, TypeOK
  <2>3. req' \in [Requests -> Request]
    BY <1>3, IdleType, BecomeType DEF LoginChallenge, Finish
  <2>. QED
    BY <1>3, <2>2, <2>3 DEF LoginChallenge, TypeOK
<1>4. ASSUME NEW c \in Challenges, VerifyMfaLogin(r, c)
      PROVE  TypeOK'
  <2>1. challenge[c] \in Challenge
    BY <1>4 DEF VerifyMfaLogin, ChallengeHolds, TypeOK
  <2>2. [pc |-> "mfaUser", user |-> challenge[c].user,
         password |-> challenge[c].password] \in Request
    BY <2>1 DEF Challenge, Request
  <2>. QED
    BY <1>4, <2>2, BecomeType DEF VerifyMfaLogin, TypeOK
<1>5. CASE MfaUser(r)
  <2>1. [pc |-> "loginIssue", user |-> req[r].user,
         password |-> req[r].password] \in Request
    BY <1>5, RequestFields DEF MfaUser, Request
  <2>2. req' \in [Requests -> Request]
    BY <1>5, <2>1, IdleType, BecomeType DEF MfaUser, Finish
  <2>. QED
    BY <1>5, <2>2 DEF MfaUser, TypeOK
<1>. QED
  BY <1>1, <1>2, <1>3, <1>4, <1>5 DEF LoginStep

(* Every step keeps every variable's type.                                 *)
LEMMA TypeNext ==
    ASSUME TypeOK, [Next]_vars
    PROVE  TypeOK'
<1>3. ASSUME NEW r \in Requests, Abort(r)
      PROVE  TypeOK'
  <2>1. req' \in [Requests -> Request]
    BY <1>3, IdleType, BecomeType DEF Abort, Finish
  <2>. QED
    BY <1>3, <2>1 DEF Abort, TypeOK
<1>4. ASSUME NEW u \in Users, DeleteUser(u) \/ SwitchMfa(u)
      PROVE  TypeOK'
  BY <1>4 DEF DeleteUser, SwitchMfa, TypeOK
<1>5. CASE CleanupRefreshTokens
  <2>1. row' \in [Tokens -> {Unissued} \cup RefreshRow \cup DeletedRow]
    BY <1>5, RowFields DEF CleanupRefreshTokens, TypeOK, DeletedRow, RefreshRow
  <2>. QED
    BY <1>5, <2>1 DEF CleanupRefreshTokens, TypeOK
<1>6. CASE CleanupAuthTokens
  BY <1>6 DEF CleanupAuthTokens, TypeOK, DeletedReset
<1>7. CASE CleanupBlacklistedTokens
  BY <1>7 DEF CleanupBlacklistedTokens, TypeOK
<1>8. CASE Tick
  BY <1>8 DEF Tick, TypeOK
<1>9. CASE UNCHANGED vars
  BY <1>9 DEF vars, TypeOK
<1>. QED
  BY <1>3, <1>4, <1>5, <1>6, <1>7, <1>8, <1>9, TypeLogin,
     TypeRefresh, TypeSignOut, TypePassword DEF Next

(* Every reachable state is well typed.                                    *)
THEOREM TypeCorrect == Spec => []TypeOK
BY TypeInit, TypeNext, PTL DEF Spec

-----------------------------------------------------------------------------
(* One live token per family                                               *)

(* Steps that create no row: rows may be revoked or deleted, but keep what *)
(* they say of their family.                                               *)
RowsFade ==
    \A t \in Tokens :
        /\ Issued(t) => Issued(t)' /\ row'[t].family = row[t].family
        /\ Issued(t)' => Issued(t)
        /\ Active(t)' => Active(t)
        /\ Stored(t)' => /\ Stored(t)
                         /\ row'[t].user = row[t].user
                         /\ row'[t].password = row[t].password
                         /\ row'[t].familySessionExpiresAt =
                                row[t].familySessionExpiresAt

(* Steps that start no rotation and let none become pending.               *)
RotationsFade ==
    \A r \in Requests :
        /\ Pending(r)' => Pending(r)
        /\ InRotation(r)' =>
             /\ InRotation(r)
             /\ req'[r].user = req[r].user
             /\ req'[r].token = req[r].token
             /\ req'[r].family = req[r].family
             /\ req'[r].deadline = req[r].deadline
             /\ req'[r].password = req[r].password
        /\ req'[r].pc \in {"refreshUser", "refreshRevoke"} =>
             req[r].pc \in {"refreshUser", "refreshRevoke"}

(* Such steps keep the invariant.                                          *)
LEMMA FadingKeepsInvariant ==
    ASSUME RotationInvariant, TypeOK', RowsFade, RotationsFade
    PROVE  RotationInvariant'
<1>1. OneLiveTokenPerFamily'
  BY DEF OneLiveTokenPerFamily, RotationInvariant, RowsFade, Active, Issued
<1>2. FamilyAgrees'
  BY DEF FamilyAgrees, RotationInvariant, RowsFade, Stored, Issued
<1>3. \A f \in Tokens : FamilyExists(f) => FamilyExists(f)'
  BY DEF FamilyExists, RowsFade
<1>4. FamiliesExist'
  <2>1. ASSUME NEW t \in Tokens, Issued(t)'
        PROVE  FamilyExists(row[t].family)'
    <3>1. Issued(t) /\ row'[t].family = row[t].family
      BY <2>1 DEF RowsFade
    <3>2. row[t].family \in Tokens /\ FamilyExists(row[t].family)
      BY <3>1, RowFields DEF FamiliesExist, RotationInvariant
    <3>. QED
      BY <1>3, <3>1, <3>2 DEF FamilyExists, Issued
  <2>2. ASSUME NEW r \in Requests, InRotation(r)'
        PROVE  FamilyExists(req[r].family)'
    BY <1>3, <2>2, RequestFields
       DEF FamiliesExist, RotationInvariant, RotationsFade, FamilyExists
  <2>. QED
    BY <2>1, <2>2 DEF FamiliesExist
<1>5. RotationsKnowTheirToken'
  <2>1. SUFFICES ASSUME NEW r \in Requests,
                        req'[r].pc \in {"refreshUser", "refreshRevoke"}
                 PROVE  /\ Issued(req[r].token)'
                        /\ row'[req'[r].token].family = req'[r].family
    BY DEF RotationsKnowTheirToken
  <2>2. /\ req[r].pc \in {"refreshUser", "refreshRevoke"}
        /\ req'[r].token = req[r].token
        /\ req'[r].family = req[r].family
    BY <2>1 DEF RotationsFade, InRotation
  <2>3. /\ req[r].token \in Tokens
        /\ Issued(req[r].token)
        /\ row[req[r].token].family = req[r].family
    BY <2>2, RequestFields
       DEF RotationsKnowTheirToken, RotationInvariant, InRotation
  <2>. QED
    BY <2>2, <2>3 DEF RowsFade, Issued
<1>6. OneHeirPerFamily'
  BY DEF OneHeirPerFamily, RotationInvariant, RowsFade, RotationsFade,
         Pending, InRotation, Active, Issued
<1>7. RotationsAgree'
  BY DEF RotationsAgree, RotationInvariant, RowsFade, RotationsFade, Stored,
         Issued
<1>. QED
  BY <1>1, <1>2, <1>4, <1>5, <1>6, <1>7 DEF RotationInvariant

LEMMA RevokingFades ==
    ASSUME TypeOK, NEW T, RevokeRows(T)
    PROVE  RowsFade
BY RowFields DEF RevokeRows, RowsFade, Active, Stored, Issued, RefreshRow

LEMMA SameRowsFade ==
    ASSUME UNCHANGED row
    PROVE  RowsFade
BY DEF RowsFade, Active, Stored, Issued

(* A request that leaves the rotation, or was never in it, fades.          *)
LEMMA LeavingFades ==
    ASSUME TypeOK, NEW r \in Requests, NEW x, Become(r, x),
           x.pc \notin {"refreshUser", "refreshRevoke", "refreshIssue"}
    PROVE  RotationsFade
BY DEF Become, RotationsFade, Pending, InRotation, TypeOK

LEMMA SameRequestsFade ==
    ASSUME UNCHANGED req
    PROVE  RotationsFade
BY DEF RotationsFade, Pending, InRotation

LEMMA FinishFades ==
    ASSUME TypeOK, NEW r \in Requests, Finish(r)
    PROVE  RotationsFade
BY LeavingFades DEF Finish, Idle

(* refreshUser passes on to refreshRevoke with what it has read.           *)
LEMMA UserFoundFades ==
    ASSUME TypeOK, NEW r \in Requests, RefreshUser(r)
    PROVE  RotationsFade
<1>1. CASE account[req[r].user].deleted
  BY <1>1, FinishFades DEF RefreshUser
<1>2. CASE ~account[req[r].user].deleted
  <2>1. InRotation(r)
    BY DEF RefreshUser, InRotation
  <2>2. req'[r] = [pc |-> "refreshRevoke", user |-> req[r].user,
                   token |-> req[r].token, family |-> req[r].family,
                   deadline |-> req[r].deadline, password |-> req[r].password]
    BY <1>2, <2>1, Advance DEF RefreshUser, Become, TypeOK
  <2>3. \A s \in Requests : s # r => req'[s] = req[s]
    BY <1>2 DEF RefreshUser, Become, TypeOK
  <2>. QED
    BY <2>1, <2>2, <2>3 DEF RefreshUser, RotationsFade, Pending, InRotation
<1>. QED
  BY <1>1, <1>2

(* A login opens a family no row and no rotation knows.                    *)
LEMMA LoginKeepsInvariant ==
    ASSUME RotationInvariant, TypeOK', NEW r \in Requests, NEW t \in Tokens,
           LoginIssue(r, t)
    PROVE  RotationInvariant'
<1>1. /\ row'[t].status = "active"
      /\ row'[t].family = t
      /\ Active(t)' /\ Stored(t)' /\ Issued(t)'
      /\ ~Issued(t) /\ ~Stored(t) /\ ~Active(t)
  BY DEF LoginIssue, CreateRefreshToken, RotationInvariant, TypeOK, Active,
         Stored, Issued
<1>2. \A s \in Tokens : s # t => row'[s] = row[s]
  BY DEF LoginIssue, CreateRefreshToken, RotationInvariant, TypeOK
<1>3. \A s \in Requests : s # r => req'[s] = req[s]
  BY DEF LoginIssue, Finish, Become, RotationInvariant, TypeOK
<1>4. req[r].pc = "loginIssue" /\ req'[r].pc = "idle"
  BY DEF LoginIssue, Finish, Become, Idle, RotationInvariant, TypeOK
<1>5. \A s \in Tokens : Issued(s) => row[s].family # t
  BY <1>1 DEF RotationInvariant, FamiliesExist, FamilyExists
<1>6. \A s \in Requests : InRotation(s) => req[s].family # t
  BY <1>1 DEF RotationInvariant, FamiliesExist, FamilyExists
<1>7. \A s \in Requests : InRotation(s)' =>
        s # r /\ req'[s] = req[s] /\ InRotation(s)
  BY <1>3, <1>4 DEF InRotation
<1>8. \A s \in Tokens : FamilyExists(s) => FamilyExists(s)'
  BY <1>1, <1>2 DEF FamilyExists, Issued
<1>9. FamilyExists(t)'
  BY <1>1 DEF FamilyExists
<1>10. OneLiveTokenPerFamily'
  BY <1>1, <1>2, <1>5
     DEF OneLiveTokenPerFamily, RotationInvariant, Active, Issued
<1>11. FamilyAgrees'
  BY <1>1, <1>2, <1>5 DEF FamilyAgrees, RotationInvariant, Stored, Issued
<1>12. FamiliesExist'
  <2>1. ASSUME NEW s \in Tokens, Issued(s)'
        PROVE  FamilyExists(row[s].family)'
    <3>1. CASE s = t
      BY <1>1, <1>9, <3>1 DEF FamilyExists, Issued
    <3>2. CASE s # t
      <4>1. Issued(s) /\ row'[s].family = row[s].family
        BY <1>2, <2>1, <3>2 DEF Issued
      <4>2. row[s].family \in Tokens /\ FamilyExists(row[s].family)
        BY <4>1, RowFields DEF RotationInvariant, FamiliesExist
      <4>. QED
        BY <1>8, <4>1, <4>2 DEF FamilyExists, Issued
    <3>. QED
      BY <3>1, <3>2
  <2>2. ASSUME NEW s \in Requests, InRotation(s)'
        PROVE  FamilyExists(req[s].family)'
    <3>1. InRotation(s) /\ req'[s] = req[s]
      BY <1>7, <2>2
    <3>2. req[s].family \in Tokens /\ FamilyExists(req[s].family)
      BY <3>1, RequestFields DEF RotationInvariant, FamiliesExist
    <3>. QED
      BY <1>8, <3>1, <3>2 DEF FamilyExists, Issued
  <2>. QED
    BY <2>1, <2>2 DEF FamiliesExist
<1>13. RotationsKnowTheirToken'
  <2>1. SUFFICES ASSUME NEW s \in Requests,
                        req'[s].pc \in {"refreshUser", "refreshRevoke"}
                 PROVE  /\ Issued(req[s].token)'
                        /\ row'[req'[s].token].family = req'[s].family
    BY DEF RotationsKnowTheirToken
  <2>2. InRotation(s) /\ req'[s] = req[s]
    BY <1>7, <2>1 DEF InRotation
  <2>3. /\ req[s].token \in Tokens
        /\ Issued(req[s].token)
        /\ row[req[s].token].family = req[s].family
    BY <2>1, <2>2, RequestFields DEF RotationInvariant, RotationsKnowTheirToken
  <2>. QED
    BY <1>1, <1>2, <2>2, <2>3 DEF Issued
<1>14. OneHeirPerFamily'
  BY <1>1, <1>2, <1>6, <1>7
     DEF OneHeirPerFamily, RotationInvariant, Pending, InRotation, Active
<1>15. RotationsAgree'
  BY <1>1, <1>2, <1>6, <1>7 DEF RotationsAgree, RotationInvariant, Stored
<1>. QED
  BY <1>10, <1>11, <1>12, <1>13, <1>14, <1>15 DEF RotationInvariant

(* Reading a row starts a rotation that knows the row.                     *)
LEMMA FindKeepsInvariant ==
    ASSUME RotationInvariant, TypeOK', NEW r \in Requests, NEW t \in Tokens,
           RefreshFind(r, t)
    PROVE  RotationInvariant'
<1>1. UNCHANGED row /\ Active(t) /\ Stored(t) /\ Issued(t) /\ req[r] = Idle
  BY DEF RefreshFind, Active, Stored, Issued
<1>2. req'[r] = [pc |-> "refreshUser", user |-> row[t].user, token |-> t,
                 family |-> row[t].family,
                 deadline |-> row[t].familySessionExpiresAt,
                 password |-> row[t].password]
  BY DEF RefreshFind, Become, RotationInvariant, TypeOK
<1>3. \A s \in Requests : s # r => req'[s] = req[s]
  BY DEF RefreshFind, Become, RotationInvariant, TypeOK
<1>4. OneLiveTokenPerFamily'
  BY <1>1 DEF OneLiveTokenPerFamily, RotationInvariant, Active
<1>5. FamilyAgrees'
  BY <1>1 DEF FamilyAgrees, RotationInvariant, Stored
<1>6. FamiliesExist'
  BY <1>1, <1>2, <1>3
     DEF FamiliesExist, RotationInvariant, InRotation, FamilyExists, Issued
<1>7. RotationsKnowTheirToken'
  BY <1>1, <1>2, <1>3 DEF RotationsKnowTheirToken, RotationInvariant, Issued
<1>8. OneHeirPerFamily'
  BY <1>1, <1>2, <1>3 DEF OneHeirPerFamily, RotationInvariant, Pending, Active
<1>9. RotationsAgree'
  <2>1. \A s \in Tokens :
          Stored(s) /\ row[s].family = row[t].family =>
            /\ row[s].user = row[t].user
            /\ row[s].password = row[t].password
            /\ row[s].familySessionExpiresAt = row[t].familySessionExpiresAt
    BY <1>1 DEF RotationInvariant, FamilyAgrees
  <2>2. \A s \in Requests :
          InRotation(s) /\ req[s].family = row[t].family =>
            /\ req[s].user = row[t].user
            /\ req[s].password = row[t].password
            /\ req[s].deadline = row[t].familySessionExpiresAt
    BY <1>1 DEF RotationInvariant, RotationsAgree
  <2>3. \A s \in Requests : s # r /\ InRotation(s)' => InRotation(s)
    BY <1>3 DEF InRotation
  <2>4. ASSUME NEW q \in Requests, NEW s \in Tokens, InRotation(q)',
               Stored(s)', row'[s].family = req'[q].family
        PROVE  /\ row'[s].user = req'[q].user
               /\ row'[s].password = req'[q].password
               /\ row'[s].familySessionExpiresAt = req'[q].deadline
    BY <1>1, <1>2, <1>3, <2>1, <2>3, <2>4
       DEF RotationInvariant, RotationsAgree, Stored
  <2>5. ASSUME NEW q \in Requests, NEW s \in Requests, InRotation(q)',
               InRotation(s)', req'[q].family = req'[s].family
        PROVE  /\ req'[q].user = req'[s].user
               /\ req'[q].password = req'[s].password
               /\ req'[q].deadline = req'[s].deadline
    BY <1>2, <1>3, <2>2, <2>3, <2>5 DEF RotationInvariant, RotationsAgree
  <2>. QED
    BY <2>4, <2>5 DEF RotationsAgree
<1>. QED
  BY <1>4, <1>5, <1>6, <1>7, <1>8, <1>9 DEF RotationInvariant

(* revokeRefreshTokenIfActive hands the family from the active token to    *)
(* the rotation in one step; this is where atomicity matters.              *)
LEMMA RevokeKeepsInvariant ==
    ASSUME RotationInvariant, TypeOK', NEW r \in Requests, RefreshRevoke(r)
    PROVE  RotationInvariant'
<1>a. PICK t \in Tokens : t = req[r].token
  BY RequestFields DEF RefreshRevoke, RotationInvariant, InRotation
<1>0. /\ TypeOK
      /\ InRotation(r) /\ req[r].pc = "refreshRevoke"
      /\ Issued(t)
      /\ row[t].family = req[r].family
  BY <1>a DEF RefreshRevoke, RotationInvariant, InRotation,
              RotationsKnowTheirToken
<1>1. CASE ~Active(t)
  <2>1. RowsFade
    BY <1>a, <1>1, SameRowsFade DEF RefreshRevoke, RevokeIfActive
  <2>2. RotationsFade
    BY <1>a, <1>0, <1>1, LeavingFades DEF RefreshRevoke, RevokeIfActive
  <2>. QED
    BY <2>1, <2>2, FadingKeepsInvariant
<1>2. CASE Active(t)
  <2>1. RevokeRows({t})
    BY <1>a, <1>2 DEF RefreshRevoke, RevokeIfActive
  <2>2. RowsFade
    BY <1>0, <2>1, RevokingFades
  <2>3. ~Active(t)'
    <3>1. row[t] \in RefreshRow
      BY <1>0, <1>2, RowFields DEF Active, Stored
    <3>2. row'[t] = [row[t] EXCEPT !.status = "revoked"]
      BY <1>0, <1>2, <2>1 DEF RevokeRows
    <3>3. row'[t].status = "revoked"
      BY <3>1, <3>2 DEF RefreshRow
    <3>. QED
      BY <3>3 DEF Active
  <2>4. req'[r] = [pc |-> "refreshIssue", user |-> req[r].user,
                   token |-> req[r].token, family |-> req[r].family,
                   deadline |-> req[r].deadline, password |-> req[r].password]
    BY <1>a, <1>0, <1>2, Advance DEF RefreshRevoke, RevokeIfActive, Become, TypeOK
  <2>5. \A s \in Requests : s # r => req'[s] = req[s]
    BY <1>a, <1>2 DEF RefreshRevoke, RevokeIfActive, Become, RotationInvariant, TypeOK
  <2>6. OneLiveTokenPerFamily'
    BY <2>2 DEF OneLiveTokenPerFamily, RotationInvariant, RowsFade, Active,
                Issued
  <2>7. FamilyAgrees'
    BY <2>2 DEF FamilyAgrees, RotationInvariant, RowsFade, Stored, Issued
  <2>8. \A s \in Requests : InRotation(s)' =>
          InRotation(s) /\ req'[s].family = req[s].family
                        /\ req'[s].user = req[s].user
                        /\ req'[s].password = req[s].password
                        /\ req'[s].deadline = req[s].deadline
    BY <1>0, <2>4, <2>5 DEF InRotation
  <2>9. FamiliesExist'
    <3>1. \A f \in Tokens : FamilyExists(f) => FamilyExists(f)'
      BY <2>2 DEF FamilyExists, RowsFade
    <3>2. ASSUME NEW s \in Tokens, Issued(s)'
          PROVE  FamilyExists(row[s].family)'
      <4>1. Issued(s) /\ row'[s].family = row[s].family
        BY <2>2, <3>2 DEF RowsFade
      <4>2. row[s].family \in Tokens /\ FamilyExists(row[s].family)
        BY <1>0, <4>1, RowFields DEF RotationInvariant, FamiliesExist
      <4>. QED
        BY <3>1, <4>1, <4>2 DEF FamilyExists, Issued
    <3>3. ASSUME NEW s \in Requests, InRotation(s)'
          PROVE  FamilyExists(req[s].family)'
      <4>1. InRotation(s) /\ req'[s].family = req[s].family
        BY <2>8, <3>3
      <4>2. req[s].family \in Tokens /\ FamilyExists(req[s].family)
        BY <1>0, <4>1, RequestFields DEF RotationInvariant, FamiliesExist
      <4>. QED
        BY <3>1, <4>1, <4>2 DEF FamilyExists, Issued
    <3>. QED
      BY <3>2, <3>3 DEF FamiliesExist
  <2>10. RotationsKnowTheirToken'
    <3>1. SUFFICES ASSUME NEW s \in Requests,
                          req'[s].pc \in {"refreshUser", "refreshRevoke"}
                   PROVE  /\ Issued(req[s].token)'
                          /\ row'[req'[s].token].family = req'[s].family
      BY DEF RotationsKnowTheirToken
    <3>2. s # r /\ req'[s] = req[s]
      BY <2>4, <2>5, <3>1
    <3>3. /\ req[s].token \in Tokens
          /\ Issued(req[s].token)
          /\ row[req[s].token].family = req[s].family
      BY <1>0, <3>1, <3>2, RequestFields
         DEF RotationInvariant, RotationsKnowTheirToken, InRotation
    <3>. QED
      BY <2>2, <3>2, <3>3 DEF RowsFade, Issued
  <2>11. OneHeirPerFamily'
    <3>1. \A s \in Requests : s # r /\ Pending(s)' =>
            Pending(s) /\ req'[s].family # req'[r].family
      BY <1>0, <1>2, <2>4, <2>5
         DEF RotationInvariant, OneHeirPerFamily, Pending
    <3>2. \A s \in Tokens : Active(s)' =>
            /\ s # t
            /\ Active(s)
            /\ row'[s].family = row[s].family
            /\ row[s].family # req'[r].family
      BY <1>0, <1>2, <2>2, <2>3, <2>4
         DEF RotationInvariant, OneLiveTokenPerFamily, RowsFade, Active, Issued
    <3>3. ASSUME NEW p \in Requests, NEW q \in Requests, Pending(p)',
                 Pending(q)', req'[p].family = req'[q].family
          PROVE  p = q
      BY <2>5, <3>1, <3>3 DEF RotationInvariant, OneHeirPerFamily
    <3>4. ASSUME NEW p \in Requests, NEW s \in Tokens, Pending(p)', Active(s)'
          PROVE  row'[s].family # req'[p].family
      BY <2>5, <3>1, <3>2, <3>4 DEF RotationInvariant, OneHeirPerFamily
    <3>. QED
      BY <3>3, <3>4 DEF OneHeirPerFamily
  <2>12. RotationsAgree'
    BY <2>2, <2>8 DEF RotationsAgree, RotationInvariant, RowsFade, Stored,
                      Issued
  <2>. QED
    BY <2>6, <2>7, <2>9, <2>10, <2>11, <2>12 DEF RotationInvariant
<1>. QED
  BY <1>1, <1>2

(* The pending rotation turns its right into the next active token.        *)
LEMMA IssueKeepsInvariant ==
    ASSUME RotationInvariant, TypeOK', NEW r \in Requests, NEW t \in Tokens,
           RefreshIssue(r, t)
    PROVE  RotationInvariant'
<1> DEFINE f == req[r].family
<1>1. /\ TypeOK /\ Pending(r) /\ InRotation(r) /\ f \in Tokens
      /\ ~Issued(t) /\ ~Stored(t) /\ ~Active(t)
  BY RequestFields DEF RefreshIssue, RotationInvariant, Pending, InRotation,
                       Issued, Stored, Active
<1>2. /\ row'[t].family = f
      /\ row'[t].user = req[r].user
      /\ row'[t].password = req[r].password
      /\ row'[t].familySessionExpiresAt = req[r].deadline
      /\ Active(t)' /\ Stored(t)' /\ Issued(t)'
  BY <1>1 DEF RefreshIssue, CreateRefreshToken, TypeOK, Active, Stored, Issued
<1>3. \A s \in Tokens : s # t => row'[s] = row[s]
  BY <1>1 DEF RefreshIssue, CreateRefreshToken, TypeOK
<1>4. req'[r].pc = "idle" /\ \A s \in Requests : s # r => req'[s] = req[s]
  BY <1>1 DEF RefreshIssue, Finish, Become, Idle, TypeOK
<1>5. \A s \in Requests : InRotation(s)' =>
        s # r /\ req'[s] = req[s] /\ InRotation(s)
  BY <1>4 DEF InRotation
<1>6. FamilyExists(f) /\ f # t
  BY <1>1 DEF RotationInvariant, FamiliesExist, FamilyExists
<1>7. \A g \in Tokens : FamilyExists(g) => FamilyExists(g)'
  BY <1>1, <1>3 DEF FamilyExists, Issued
<1>8. \A s \in Tokens : Active(s) => row[s].family # f
  BY <1>1 DEF RotationInvariant, OneHeirPerFamily
<1>9. \A s \in Requests : s # r /\ Pending(s) => req[s].family # f
  BY <1>1 DEF RotationInvariant, OneHeirPerFamily
<1>10. OneLiveTokenPerFamily'
  BY <1>2, <1>3, <1>8 DEF OneLiveTokenPerFamily, RotationInvariant, Active
<1>11. \A s \in Tokens : Stored(s) /\ row[s].family = f =>
         /\ row[s].user = req[r].user
         /\ row[s].password = req[r].password
         /\ row[s].familySessionExpiresAt = req[r].deadline
  BY <1>1 DEF RotationInvariant, RotationsAgree
<1>12. FamilyAgrees'
  BY <1>2, <1>3, <1>11 DEF FamilyAgrees, RotationInvariant, Stored
<1>13. FamiliesExist'
  <2>1. ASSUME NEW s \in Tokens, Issued(s)'
        PROVE  FamilyExists(row[s].family)'
    <3>1. CASE s = t
      BY <1>2, <1>6, <1>7, <1>1, <3>1 DEF FamilyExists, Issued
    <3>2. CASE s # t
      <4>1. Issued(s) /\ row'[s].family = row[s].family
        BY <1>3, <2>1, <3>2 DEF Issued
      <4>2. row[s].family \in Tokens /\ FamilyExists(row[s].family)
        BY <1>1, <4>1, RowFields DEF RotationInvariant, FamiliesExist
      <4>. QED
        BY <1>7, <4>1, <4>2 DEF FamilyExists, Issued
    <3>. QED
      BY <3>1, <3>2
  <2>2. ASSUME NEW s \in Requests, InRotation(s)'
        PROVE  FamilyExists(req[s].family)'
    <3>1. InRotation(s) /\ req'[s] = req[s]
      BY <1>5, <2>2
    <3>2. req[s].family \in Tokens /\ FamilyExists(req[s].family)
      BY <1>1, <3>1, RequestFields DEF RotationInvariant, FamiliesExist
    <3>. QED
      BY <1>7, <3>1, <3>2 DEF FamilyExists, Issued
  <2>. QED
    BY <2>1, <2>2 DEF FamiliesExist
<1>14. RotationsKnowTheirToken'
  <2>1. SUFFICES ASSUME NEW s \in Requests,
                        req'[s].pc \in {"refreshUser", "refreshRevoke"}
                 PROVE  /\ Issued(req[s].token)'
                        /\ row'[req'[s].token].family = req'[s].family
    BY DEF RotationsKnowTheirToken
  <2>2. InRotation(s) /\ req'[s] = req[s]
    BY <1>5, <2>1 DEF InRotation
  <2>3. /\ req[s].token \in Tokens
        /\ Issued(req[s].token)
        /\ row[req[s].token].family = req[s].family
    BY <1>1, <2>1, <2>2, RequestFields
       DEF RotationInvariant, RotationsKnowTheirToken
  <2>. QED
    BY <1>1, <1>3, <2>2, <2>3 DEF Issued
<1>15. OneHeirPerFamily'
  BY <1>2, <1>3, <1>5, <1>9
     DEF OneHeirPerFamily, RotationInvariant, Pending, InRotation, Active
<1>16. RotationsAgree'
  <2>1. \A s \in Requests : InRotation(s) /\ req[s].family = f =>
          /\ req[s].user = req[r].user
          /\ req[s].password = req[r].password
          /\ req[s].deadline = req[r].deadline
    BY <1>1 DEF RotationInvariant, RotationsAgree
  <2>. QED
    BY <1>2, <1>3, <1>5, <2>1 DEF RotationsAgree, RotationInvariant, Stored
<1>. QED
  BY <1>10, <1>12, <1>13, <1>14, <1>15, <1>16 DEF RotationInvariant

LEMMA InvariantInit == Init => RotationInvariant
<1>. SUFFICES ASSUME Init PROVE RotationInvariant
  OBVIOUS
<1>1. \A t \in Tokens : ~Issued(t) /\ ~Stored(t) /\ ~Active(t)
  BY DEF Init, Unissued, Issued, Stored, Active
<1>2. \A r \in Requests : req[r].pc = "idle"
  BY DEF Init, Idle
<1>. QED
  BY <1>1, <1>2, TypeInit
     DEF RotationInvariant, OneLiveTokenPerFamily, FamilyAgrees, FamiliesExist,
         RotationsKnowTheirToken, OneHeirPerFamily, RotationsAgree, InRotation,
         Pending

(* Every step keeps the invariant: four actions of a login and a rotation  *)
(* have a lemma of their own, all others fade.                             *)
LEMMA InvariantNext ==
    ASSUME RotationInvariant, [Next]_vars
    PROVE  RotationInvariant'
<1>1. TypeOK /\ TypeOK'
  BY TypeNext DEF RotationInvariant
<1>2. ASSUME RowsFade, RotationsFade
      PROVE  RotationInvariant'
  BY <1>1, <1>2, FadingKeepsInvariant
<1>3. ASSUME NEW r \in Requests, NEW u \in Users, Login(r, u)
      PROVE  RotationInvariant'
  BY <1>1, <1>2, <1>3, SameRowsFade, LeavingFades DEF Login
<1>4. ASSUME NEW r \in Requests, NEW t \in Tokens, LoginIssue(r, t)
      PROVE  RotationInvariant'
  BY <1>1, <1>4, LoginKeepsInvariant
<1>c. ASSUME NEW r \in Requests, NEW c \in Challenges,
             LoginChallenge(r, c) \/ VerifyMfaLogin(r, c)
      PROVE  RotationInvariant'
  BY <1>1, <1>2, <1>c, SameRowsFade, LeavingFades, FinishFades
     DEF LoginChallenge, VerifyMfaLogin
<1>m. ASSUME NEW r \in Requests, MfaUser(r)
      PROVE  RotationInvariant'
  BY <1>1, <1>2, <1>m, SameRowsFade, LeavingFades, FinishFades DEF MfaUser
<1>5. ASSUME NEW r \in Requests, RefreshStep(r)
      PROVE  RotationInvariant'
  <2>1. ASSUME NEW t \in Tokens, RefreshReuse(r, t)
        PROVE  RotationInvariant'
    BY <1>1, <1>2, <2>1, SameRowsFade, LeavingFades DEF RefreshReuse
  <2>2. ASSUME NEW t \in Tokens, RefreshFind(r, t)
        PROVE  RotationInvariant'
    BY <1>1, <2>2, FindKeepsInvariant
  <2>3. CASE RefreshUser(r)
    BY <1>1, <1>2, <2>3, SameRowsFade, UserFoundFades DEF RefreshUser
  <2>4. CASE RefreshRevoke(r)
    BY <1>1, <2>4, RevokeKeepsInvariant
  <2>5. ASSUME NEW t \in Tokens, RefreshIssue(r, t)
        PROVE  RotationInvariant'
    BY <1>1, <2>5, IssueKeepsInvariant
  <2>6. CASE RefreshBurn(r)
    BY <1>1, <1>2, <2>6, RevokingFades, FinishFades DEF RefreshBurn
  <2>. QED
    BY <1>5, <2>1, <2>2, <2>3, <2>4, <2>5, <2>6 DEF RefreshStep
<1>6. ASSUME NEW r \in Requests, SignOutStep(r)
      PROVE  RotationInvariant'
  <2>1. ASSUME NEW a \in Tokens, NEW t \in Tokens, Logout(r, a, t)
        PROVE  RotationInvariant'
    BY <1>1, <1>2, <2>1, SameRowsFade, LeavingFades DEF Logout
  <2>2. ASSUME NEW a \in Tokens, NEW t \in Tokens, RevokeSession(r, a, t)
        PROVE  RotationInvariant'
    BY <1>1, <1>2, <2>2, SameRowsFade, LeavingFades DEF RevokeSession
  <2>3. CASE LogoutFind(r)
    BY <1>1, <1>2, <2>3, SameRowsFade, LeavingFades, FinishFades DEF LogoutFind
  <2>4. CASE RevokeOne(r)
    BY <1>1, <1>2, <2>4, RevokingFades, FinishFades DEF RevokeOne
  <2>5. ASSUME NEW a \in Tokens, RevokeAll(r, a)
        PROVE  RotationInvariant'
    BY <1>1, <1>2, <2>5, RevokingFades, SameRequestsFade DEF RevokeAll
  <2>. QED
    BY <1>6, <2>1, <2>2, <2>3, <2>4, <2>5 DEF SignOutStep
<1>7. ASSUME NEW r \in Requests, PasswordStep(r)
      PROVE  RotationInvariant'
  <2>1. ASSUME NEW u \in Users, ForgotPassword(r, u)
        PROVE  RotationInvariant'
    BY <1>1, <1>2, <2>1, SameRowsFade, LeavingFades DEF ForgotPassword
  <2>2. CASE ForgotDelete(r)
    BY <1>1, <1>2, <2>2, SameRowsFade, LeavingFades DEF ForgotDelete
  <2>3. ASSUME NEW k \in ResetTokens, ForgotCreate(r, k)
        PROVE  RotationInvariant'
    BY <1>1, <1>2, <2>3, SameRowsFade, FinishFades DEF ForgotCreate
  <2>4. ASSUME NEW k \in ResetTokens, ResetPassword(r, k)
        PROVE  RotationInvariant'
    BY <1>1, <1>2, <2>4, SameRowsFade, LeavingFades DEF ResetPassword
  <2>5. CASE ResetCommit(r)
    BY <1>1, <1>2, <2>5, SameRowsFade, RevokingFades, FinishFades
       DEF ResetCommit
  <2>. QED
    BY <1>7, <2>1, <2>2, <2>3, <2>4, <2>5 DEF PasswordStep
<1>8. ASSUME NEW r \in Requests, Abort(r)
      PROVE  RotationInvariant'
  BY <1>1, <1>2, <1>8, SameRowsFade, FinishFades DEF Abort
<1>9. ASSUME NEW u \in Users, DeleteUser(u) \/ SwitchMfa(u)
      PROVE  RotationInvariant'
  BY <1>2, <1>9, SameRowsFade, SameRequestsFade DEF DeleteUser, SwitchMfa
<1>10. CASE CleanupRefreshTokens
  <2>1. RowsFade
    BY <1>1, <1>10, RowFields
       DEF CleanupRefreshTokens, RowsFade, Active, Stored, Issued
  <2>. QED
    BY <1>2, <1>10, <2>1, SameRequestsFade DEF CleanupRefreshTokens
<1>11. CASE CleanupAuthTokens
  BY <1>2, <1>11, SameRowsFade, SameRequestsFade DEF CleanupAuthTokens
<1>12. CASE CleanupBlacklistedTokens
  BY <1>2, <1>12, SameRowsFade, SameRequestsFade DEF CleanupBlacklistedTokens
<1>13. CASE Tick
  BY <1>2, <1>13, SameRowsFade, SameRequestsFade DEF Tick
<1>14. CASE UNCHANGED vars
  BY <1>2, <1>14, SameRowsFade, SameRequestsFade DEF vars
<1>. QED
  BY <1>3, <1>4, <1>c, <1>m, <1>5, <1>6, <1>7, <1>8, <1>9, <1>10, <1>11, <1>12,
     <1>13, <1>14 DEF Next, LoginStep

(* The inductive invariant holds of every reachable state.                 *)
THEOREM RotationCorrect == Spec => []RotationInvariant
BY InvariantInit, InvariantNext, PTL DEF Spec

(* A token family never has two tokens that can be exchanged, whatever the *)
(* requests that present them and wherever they crash (AuthService.refresh *)
(* with revokeRefreshTokenIfActive).                                       *)
THEOREM SingleLiveToken == Spec => []OneLiveTokenPerFamily
<1>1. RotationInvariant => OneLiveTokenPerFamily
  BY DEF RotationInvariant
<1>. QED
  BY <1>1, RotationCorrect, PTL

(* Rotation never moves a session to another account, another login or a   *)
(* later absolute deadline (familySessionExpiresAt).                       *)
THEOREM DeadlineIsAbsolute == Spec => []FamilyAgrees
<1>1. RotationInvariant => FamilyAgrees
  BY DEF RotationInvariant
<1>. QED
  BY <1>1, RotationCorrect, PTL

-----------------------------------------------------------------------------
(* Refinement of SessionLifecycle                                          *)

(* No session is born and none comes back to life.                         *)
PhasesFade ==
    \A f \in Tokens : /\ FamilyExists(f)' <=> FamilyExists(f)
                      /\ FamilyIsLive(f)' => FamilyIsLive(f)

LEMMA PhasesFadeEnds ==
    ASSUME PhasesFade
    PROVE  Lifecycle!Next
<1> DEFINE S == {f \in Tokens : SessionPhase[f] = "live"
                                  /\ SessionPhase'[f] # "live"}
<1>1. SessionPhase' = [f \in Tokens |-> IF f \in S THEN "over"
                                        ELSE SessionPhase[f]]
  <2>1. ASSUME NEW f \in Tokens
        PROVE  SessionPhase'[f] = IF f \in S THEN "over" ELSE SessionPhase[f]
    BY DEF PhasesFade, SessionPhase
  <2>. QED
    BY <2>1 DEF SessionPhase
<1>2. \A f \in S : SessionPhase[f] = "live"
  OBVIOUS
<1>3. S \in SUBSET Tokens
  OBVIOUS
<1>. QED
  BY <1>1, <1>2, <1>3 DEF Lifecycle!Next, Lifecycle!End

LEMMA RowsFadeExistence ==
    ASSUME RowsFade
    PROVE  \A f \in Tokens : FamilyExists(f)' <=> FamilyExists(f)
BY DEF RowsFade, FamilyExists, Issued

(* A step that creates no row and lets no rotation become pending.         *)
LEMMA FadingEnds ==
    ASSUME RowsFade,
           \A r \in Requests : Pending(r)' =>
               Pending(r) /\ req'[r].family = req[r].family
    PROVE  PhasesFade
<1>1. \A f \in Tokens : FamilyExists(f)' <=> FamilyExists(f)
  BY RowsFadeExistence
<1>2. ASSUME NEW f \in Tokens, FamilyIsLive(f)'
      PROVE  FamilyIsLive(f)
  <2>1. ASSUME NEW t \in Tokens, Active(t)', row'[t].family = f
        PROVE  Active(t) /\ row[t].family = f
    BY <2>1 DEF RowsFade, Active, Issued
  <2>2. ASSUME NEW r \in Requests, Pending(r)', req'[r].family = f
        PROVE  Pending(r) /\ req[r].family = f
    BY <2>2
  <2>. QED
    BY <1>2, <2>1, <2>2 DEF FamilyIsLive
<1>. QED
  BY <1>1, <1>2 DEF PhasesFade

LEMMA RotationsFadeEnds ==
    ASSUME RowsFade, RotationsFade
    PROVE  PhasesFade
<1>1. \A r \in Requests : Pending(r)' =>
        Pending(r) /\ req'[r].family = req[r].family
  BY DEF RotationsFade, InRotation, Pending
<1>. QED
  BY <1>1, FadingEnds

LEMMA LoginBegins ==
    ASSUME RotationInvariant, NEW r \in Requests, NEW t \in Tokens,
           LoginIssue(r, t)
    PROVE  Lifecycle!Begin(t)
<1>1. /\ row'[t].family = t
      /\ Active(t)' /\ Issued(t)'
      /\ ~Issued(t) /\ ~Active(t)
  BY DEF LoginIssue, CreateRefreshToken, RotationInvariant, TypeOK, Active,
         Issued
<1>2. \A s \in Tokens : s # t => row'[s] = row[s]
  BY DEF LoginIssue, CreateRefreshToken, RotationInvariant, TypeOK
<1>3. \A s \in Requests : Pending(s)' <=> Pending(s)
  BY DEF LoginIssue, Finish, Become, Idle, RotationInvariant, TypeOK, Pending
<1>4. \A s \in Requests : Pending(s) => req'[s] = req[s]
  BY DEF LoginIssue, Finish, Become, RotationInvariant, TypeOK, Pending
<1>5. SessionPhase[t] = "unborn" /\ SessionPhase'[t] = "live"
  BY <1>1 DEF SessionPhase, FamilyExists, FamilyIsLive
<1>6. ASSUME NEW f \in Tokens, f # t
      PROVE  SessionPhase'[f] = SessionPhase[f]
  <2>1. FamilyExists(f)' <=> FamilyExists(f)
    BY <1>2, <1>6 DEF FamilyExists, Issued
  <2>2. FamilyIsLive(f)' <=> FamilyIsLive(f)
    BY <1>1, <1>2, <1>3, <1>4, <1>6 DEF FamilyIsLive, Active
  <2>. QED
    BY <2>1, <2>2 DEF SessionPhase
<1>7. SessionPhase' = [SessionPhase EXCEPT ![t] = "live"]
  BY <1>5, <1>6 DEF SessionPhase
<1>. QED
  BY <1>5, <1>7 DEF Lifecycle!Begin

(* Between its two writes a rotation keeps its session live.               *)
LEMMA RevokeStaysLive ==
    ASSUME RotationInvariant, NEW r \in Requests, RefreshRevoke(r)
    PROVE  PhasesFade
<1>a. PICK t \in Tokens : t = req[r].token
  BY RequestFields DEF RefreshRevoke, RotationInvariant, InRotation
<1>0. TypeOK /\ InRotation(r) /\ row[t].family = req[r].family
  BY <1>a DEF RefreshRevoke, RotationInvariant, InRotation,
              RotationsKnowTheirToken
<1>1. CASE ~Active(t)
  <2>1. RowsFade
    BY <1>a, <1>1, SameRowsFade DEF RefreshRevoke, RevokeIfActive
  <2>2. RotationsFade
    BY <1>a, <1>0, <1>1, LeavingFades DEF RefreshRevoke, RevokeIfActive
  <2>. QED
    BY <2>1, <2>2, RotationsFadeEnds
<1>2. CASE Active(t)
  <2>1. RowsFade
    BY <1>a, <1>0, <1>2, RevokingFades DEF RefreshRevoke, RevokeIfActive
  <2>2. /\ req'[r].family = req[r].family
        /\ \A s \in Requests : s # r => req'[s] = req[s]
    <3>1. Become(r, [req[r] EXCEPT !.pc = "refreshIssue"])
      BY <1>a, <1>2 DEF RefreshRevoke, RevokeIfActive
    <3>2. [req[r] EXCEPT !.pc = "refreshIssue"].family = req[r].family
      BY <1>0, Advance
    <3>. QED
      BY <1>0, <3>1, <3>2 DEF Become, TypeOK
  <2>3. ASSUME NEW f \in Tokens, FamilyIsLive(f)'
        PROVE  FamilyIsLive(f)
    <3>1. ASSUME NEW s \in Tokens, Active(s)', row'[s].family = f
          PROVE  Active(s) /\ row[s].family = f
      BY <2>1, <3>1 DEF RowsFade, Active, Issued
    <3>2. ASSUME NEW s \in Requests, Pending(s)', req'[s].family = f, s # r
          PROVE  Pending(s) /\ req[s].family = f
      BY <2>2, <3>2 DEF Pending
    <3>3. CASE f = req[r].family
      BY <1>0, <1>2, <3>3 DEF FamilyIsLive
    <3>4. CASE f # req[r].family
      BY <2>2, <2>3, <3>1, <3>2, <3>4 DEF FamilyIsLive
    <3>. QED
      BY <3>3, <3>4
  <2>. QED
    BY <2>1, <2>3, RowsFadeExistence DEF PhasesFade
<1>. QED
  BY <1>1, <1>2

LEMMA IssueStaysLive ==
    ASSUME RotationInvariant, NEW r \in Requests, NEW t \in Tokens,
           RefreshIssue(r, t)
    PROVE  PhasesFade
<1>a. PICK f \in Tokens : f = req[r].family
  BY RequestFields DEF RefreshIssue, RotationInvariant, Pending, InRotation
<1>1. TypeOK /\ Pending(r) /\ InRotation(r) /\ ~Issued(t)
  BY DEF RefreshIssue, RotationInvariant, Pending, InRotation
<1>2. FamilyExists(f) /\ f # t
  BY <1>a, <1>1 DEF RotationInvariant, FamiliesExist, FamilyExists
<1>3. row'[t].family = f
  BY <1>a, <1>1 DEF RefreshIssue, CreateRefreshToken, TypeOK
<1>4. \A s \in Tokens : s # t => row'[s] = row[s]
  BY <1>1 DEF RefreshIssue, CreateRefreshToken, TypeOK
<1>5. \A s \in Requests : Pending(s)' => Pending(s) /\ req'[s] = req[s]
  BY <1>1 DEF RefreshIssue, Finish, Become, Idle, TypeOK, Pending
<1>6. \A g \in Tokens : FamilyExists(g)' <=> FamilyExists(g)
  BY <1>1, <1>2, <1>3, <1>4 DEF FamilyExists, Issued
<1>7. ASSUME NEW g \in Tokens, FamilyIsLive(g)'
      PROVE  FamilyIsLive(g)
  <2>1. CASE g = f
    BY <1>a, <1>1, <2>1 DEF FamilyIsLive
  <2>2. CASE g # f
    BY <1>3, <1>4, <1>5, <1>7, <2>2 DEF FamilyIsLive, Active
  <2>. QED
    BY <2>1, <2>2
<1>. QED
  BY <1>6, <1>7 DEF PhasesFade

LEMMA LifecycleInit == Init => Lifecycle!Init
<1>. SUFFICES ASSUME Init PROVE Lifecycle!Init
  OBVIOUS
<1>1. \A f \in Tokens : ~FamilyExists(f)
  BY DEF Init, FamilyExists, Issued, Unissued
<1>. QED
  BY <1>1 DEF Lifecycle!Init, SessionPhase

(* Every step of the tokens is a step of the sessions.                     *)
LEMMA LifecycleNext ==
    ASSUME RotationInvariant, Next
    PROVE  Lifecycle!Next
<1>0. TypeOK
  BY DEF RotationInvariant
<1>1. ASSUME RowsFade, RotationsFade
      PROVE  Lifecycle!Next
  BY <1>1, RotationsFadeEnds, PhasesFadeEnds
<1>2. ASSUME NEW r \in Requests, NEW u \in Users, Login(r, u)
      PROVE  Lifecycle!Next
  BY <1>0, <1>1, <1>2, SameRowsFade, LeavingFades DEF Login
<1>3. ASSUME NEW r \in Requests, NEW t \in Tokens, LoginIssue(r, t)
      PROVE  Lifecycle!Next
  BY <1>3, LoginBegins DEF Lifecycle!Next
<1>c. ASSUME NEW r \in Requests, NEW c \in Challenges,
             LoginChallenge(r, c) \/ VerifyMfaLogin(r, c)
      PROVE  Lifecycle!Next
  BY <1>0, <1>1, <1>c, SameRowsFade, LeavingFades, FinishFades
     DEF LoginChallenge, VerifyMfaLogin
<1>m. ASSUME NEW r \in Requests, MfaUser(r)
      PROVE  Lifecycle!Next
  BY <1>0, <1>1, <1>m, SameRowsFade, LeavingFades, FinishFades DEF MfaUser
<1>4. ASSUME NEW r \in Requests, RefreshStep(r)
      PROVE  Lifecycle!Next
  <2>1. ASSUME NEW t \in Tokens, RefreshReuse(r, t)
        PROVE  Lifecycle!Next
    BY <1>0, <1>1, <2>1, SameRowsFade, LeavingFades DEF RefreshReuse
  <2>2. ASSUME NEW t \in Tokens, RefreshFind(r, t)
        PROVE  Lifecycle!Next
    <3>1. \A s \in Requests : Pending(s)' =>
            Pending(s) /\ req'[s].family = req[s].family
      BY <1>0, <2>2 DEF RefreshFind, Become, Pending, TypeOK
    <3>. QED
      BY <2>2, <3>1, SameRowsFade, FadingEnds, PhasesFadeEnds DEF RefreshFind
  <2>3. CASE RefreshUser(r)
    BY <1>0, <1>1, <2>3, SameRowsFade, UserFoundFades DEF RefreshUser
  <2>4. CASE RefreshRevoke(r)
    BY <2>4, RevokeStaysLive, PhasesFadeEnds
  <2>5. ASSUME NEW t \in Tokens, RefreshIssue(r, t)
        PROVE  Lifecycle!Next
    BY <2>5, IssueStaysLive, PhasesFadeEnds
  <2>6. CASE RefreshBurn(r)
    BY <1>0, <1>1, <2>6, RevokingFades, FinishFades DEF RefreshBurn
  <2>. QED
    BY <1>4, <2>1, <2>2, <2>3, <2>4, <2>5, <2>6 DEF RefreshStep
<1>5. ASSUME NEW r \in Requests, SignOutStep(r)
      PROVE  Lifecycle!Next
  <2>1. ASSUME NEW a \in Tokens, NEW t \in Tokens, Logout(r, a, t)
        PROVE  Lifecycle!Next
    BY <1>0, <1>1, <2>1, SameRowsFade, LeavingFades DEF Logout
  <2>2. ASSUME NEW a \in Tokens, NEW t \in Tokens, RevokeSession(r, a, t)
        PROVE  Lifecycle!Next
    BY <1>0, <1>1, <2>2, SameRowsFade, LeavingFades DEF RevokeSession
  <2>3. CASE LogoutFind(r)
    BY <1>0, <1>1, <2>3, SameRowsFade, LeavingFades, FinishFades DEF LogoutFind
  <2>4. CASE RevokeOne(r)
    BY <1>0, <1>1, <2>4, RevokingFades, FinishFades DEF RevokeOne
  <2>5. ASSUME NEW a \in Tokens, RevokeAll(r, a)
        PROVE  Lifecycle!Next
    BY <1>0, <1>1, <2>5, RevokingFades, SameRequestsFade DEF RevokeAll
  <2>. QED
    BY <1>5, <2>1, <2>2, <2>3, <2>4, <2>5 DEF SignOutStep
<1>6. ASSUME NEW r \in Requests, PasswordStep(r)
      PROVE  Lifecycle!Next
  <2>1. ASSUME NEW u \in Users, ForgotPassword(r, u)
        PROVE  Lifecycle!Next
    BY <1>0, <1>1, <2>1, SameRowsFade, LeavingFades DEF ForgotPassword
  <2>2. CASE ForgotDelete(r)
    BY <1>0, <1>1, <2>2, SameRowsFade, LeavingFades DEF ForgotDelete
  <2>3. ASSUME NEW k \in ResetTokens, ForgotCreate(r, k)
        PROVE  Lifecycle!Next
    BY <1>0, <1>1, <2>3, SameRowsFade, FinishFades DEF ForgotCreate
  <2>4. ASSUME NEW k \in ResetTokens, ResetPassword(r, k)
        PROVE  Lifecycle!Next
    BY <1>0, <1>1, <2>4, SameRowsFade, LeavingFades DEF ResetPassword
  <2>5. CASE ResetCommit(r)
    BY <1>0, <1>1, <2>5, SameRowsFade, RevokingFades, FinishFades
       DEF ResetCommit
  <2>. QED
    BY <1>6, <2>1, <2>2, <2>3, <2>4, <2>5 DEF PasswordStep
<1>7. ASSUME NEW r \in Requests, Abort(r)
      PROVE  Lifecycle!Next
  <2>1. \A s \in Requests : Pending(s)' =>
          Pending(s) /\ req'[s].family = req[s].family
    BY <1>0, <1>7 DEF Abort, Finish, Become, Idle, Pending, TypeOK
  <2>. QED
    BY <1>7, <2>1, SameRowsFade, FadingEnds, PhasesFadeEnds DEF Abort
<1>8. ASSUME NEW u \in Users, DeleteUser(u) \/ SwitchMfa(u)
      PROVE  Lifecycle!Next
  BY <1>1, <1>8, SameRowsFade, SameRequestsFade DEF DeleteUser, SwitchMfa
<1>9. CASE CleanupRefreshTokens
  <2>1. RowsFade
    BY <1>0, <1>9, RowFields
       DEF CleanupRefreshTokens, RowsFade, Active, Stored, Issued
  <2>. QED
    BY <1>1, <1>9, <2>1, SameRequestsFade DEF CleanupRefreshTokens
<1>10. CASE CleanupAuthTokens \/ CleanupBlacklistedTokens \/ Tick
  BY <1>1, <1>10, SameRowsFade, SameRequestsFade
     DEF CleanupAuthTokens, CleanupBlacklistedTokens, Tick
<1>. QED
  BY <1>2, <1>3, <1>c, <1>m, <1>4, <1>5, <1>6, <1>7, <1>8, <1>9, <1>10
     DEF Next, LoginStep

(* Stuttering of the tokens is stuttering of the sessions.                 *)
LEMMA LifecycleStutter == UNCHANGED vars => UNCHANGED SessionPhase
BY DEF vars, SessionPhase, FamilyExists, FamilyIsLive, Issued, Active, Pending

(* AuthSession implements SessionLifecycle: a session that is over never   *)
(* comes back, whatever requests are still in flight.                      *)
THEOREM SessionsImplementLifecycle == Spec => ImplementsLifecycle
<1>1. RotationInvariant /\ [Next]_vars => [Lifecycle!Next]_SessionPhase
  BY LifecycleNext, LifecycleStutter
<1>. QED
  BY <1>1, RotationCorrect, LifecycleInit, PTL
     DEF Spec, ImplementsLifecycle, Lifecycle!Spec

(* What ends a family on purpose: a reuse that has been detected, the      *)
(* revocation of its active token, or of all sessions, or a reset of the   *)
(* password of its account.                                                *)
IsRevoked(f) ==
    \/ \E r \in Requests : RefreshBurn(r) /\ req[r].family = f
    \/ \E r \in Requests :
         RevokeOne(r) /\ Active(req[r].token) /\ row[req[r].token].family = f
    \/ \E r \in Requests, a \in Tokens :
         RevokeAll(r, a) /\ f \in FamiliesOf(access[a].user)
    \/ \E r \in Requests :
         ResetCommit(r) /\ account' # account /\ f \in FamiliesOf(req[r].user)

(* A rotation of the family stands between its two writes.                 *)
InTransit(f) == \E r \in Requests : Pending(r) /\ req[r].family = f

(* It ends the family unless a rotation is in transit, which it never is   *)
(* while the family has an active token; and it ends it for good.          *)
RevocationHolds ==
    \A f \in Tokens :
        /\ IsRevoked(f) =>
              /\ ~FamilyIsLive(f)' \/ InTransit(f)
              /\ InTransit(f) => \A t \in Tokens : Active(t) => row[t].family # f
        /\ FamilyExists(f) /\ ~FamilyIsLive(f) => ~FamilyIsLive(f)'

(* All rows of a family that are active are revoked, and no rotation of it *)
(* starts to wait for its second write.                                    *)
LEMMA RevokedRowsEnd ==
    ASSUME TypeOK, NEW f \in Tokens, NEW T,
           \A t \in Tokens : Active(t) /\ row[t].family = f => t \in T,
           RevokeRows(T), RotationsFade, ~InTransit(f)
    PROVE  ~FamilyIsLive(f)'
<1>1. \A t \in Tokens : ~(Active(t)' /\ row'[t].family = f)
  BY RowFields DEF RevokeRows, Active, Stored, RefreshRow
<1>2. \A r \in Requests : ~(Pending(r)' /\ req'[r].family = f)
  BY DEF RotationsFade, InTransit, Pending, InRotation
<1>. QED
  BY <1>1, <1>2 DEF FamilyIsLive

(* The active rows of a family of u are among the rows of u.               *)
LEMMA FamilyIsOfOneUser ==
    ASSUME FamilyAgrees, NEW u, NEW f \in FamiliesOf(u), NEW t \in Tokens,
           Active(t), row[t].family = f
    PROVE  t \in TokensOf(u)
BY DEF FamilyAgrees, FamiliesOf, TokensOf, Active, Stored

LEMMA RevocationStep ==
    ASSUME RotationInvariant, [Next]_vars
    PROVE  RevocationHolds
<1>0. TypeOK /\ OneLiveTokenPerFamily /\ FamilyAgrees /\ OneHeirPerFamily
  BY DEF RotationInvariant
<1>. SUFFICES ASSUME NEW f \in Tokens
              PROVE  /\ IsRevoked(f) => ~FamilyIsLive(f)' \/ InTransit(f)
                     /\ InTransit(f) => \A t \in Tokens : Active(t) => row[t].family # f
                     /\ FamilyExists(f) /\ ~FamilyIsLive(f) => ~FamilyIsLive(f)'
  BY DEF RevocationHolds
<1>1. ASSUME IsRevoked(f), ~InTransit(f)
      PROVE  ~FamilyIsLive(f)'
  <2>1. ASSUME NEW r \in Requests, RefreshBurn(r), req[r].family = f
        PROVE  ~FamilyIsLive(f)'
    BY <1>0, <1>1, <2>1, FinishFades, RevokedRowsEnd
       DEF RefreshBurn, FamilyOf, Active, Stored
  <2>2. ASSUME NEW r \in Requests, RevokeOne(r), Active(req[r].token),
               row[req[r].token].family = f
        PROVE  ~FamilyIsLive(f)'
    <3>1. req[r].token \in Tokens
      BY <1>0, <2>2 DEF RevokeOne, TypeOK, Request, Idle
    <3>2. \A t \in Tokens : Active(t) /\ row[t].family = f => t \in {req[r].token}
      BY <1>0, <2>2, <3>1 DEF OneLiveTokenPerFamily
    <3>. QED
      BY <1>0, <1>1, <2>2, <3>2, FinishFades, RevokedRowsEnd DEF RevokeOne
  <2>3. ASSUME NEW r \in Requests, NEW a \in Tokens, RevokeAll(r, a),
               f \in FamiliesOf(access[a].user)
        PROVE  ~FamilyIsLive(f)'
    BY <1>0, <1>1, <2>3, SameRequestsFade, FamilyIsOfOneUser, RevokedRowsEnd DEF RevokeAll
  <2>4. ASSUME NEW r \in Requests, ResetCommit(r), account' # account,
               f \in FamiliesOf(req[r].user)
        PROVE  ~FamilyIsLive(f)'
    BY <1>0, <1>1, <2>4, FinishFades, FamilyIsOfOneUser, RevokedRowsEnd DEF ResetCommit
  <2>. QED
    BY <1>1, <2>1, <2>2, <2>3, <2>4 DEF IsRevoked
<1>2. InTransit(f) => \A t \in Tokens : Active(t) => row[t].family # f
  BY <1>0 DEF InTransit, OneHeirPerFamily
<1>3. ASSUME FamilyExists(f), ~FamilyIsLive(f)
      PROVE  ~FamilyIsLive(f)'
  <2>1. SessionPhase[f] = "over"
    BY <1>3 DEF SessionPhase
  <2>2. Lifecycle!Next \/ UNCHANGED SessionPhase
    BY LifecycleNext, LifecycleStutter
  <2>3. SessionPhase'[f] = "over"
    BY <2>1, <2>2 DEF Lifecycle!Next, Lifecycle!Begin, Lifecycle!End, SessionPhase
  <2>. QED
    BY <2>3 DEF SessionPhase
<1>. QED
  BY <1>1, <1>2, <1>3

(* Revoking a family ends it for good, unless a rotation of it is between  *)
(* its two writes (auth.service.ts:512 and :522), the case that            *)
(* RevokedFamilyIsDead is refuted with; as long as the family has a token  *)
(* that can be used, it is not.                                            *)
THEOREM RevokedFamiliesEnd == Spec => [][RevocationHolds]_vars
<1>1. RotationInvariant /\ [Next]_vars => [RevocationHolds]_vars
  BY RevocationStep
<1>. QED
  BY <1>1, RotationCorrect, PTL DEF Spec

-----------------------------------------------------------------------------
(* Logout                                                                  *)

LogoutInvariant == TypeOK /\ AccessComesWithRow

(* A new row and its access token come together, and nothing else changes  *)
(* access tokens or takes a row back.                                      *)
LEMMA AccessNext ==
    ASSUME LogoutInvariant, [Next]_vars
    PROVE  /\ LogoutInvariant'
           /\ \A a \in Tokens : access[a] # NoAccess => access'[a] = access[a]
<1>0. TypeOK /\ TypeOK'
  BY TypeNext DEF LogoutInvariant
<1>1. ASSUME RowsFade, UNCHANGED access
      PROVE  /\ LogoutInvariant'
             /\ \A a \in Tokens : access[a] # NoAccess => access'[a] = access[a]
  BY <1>0, <1>1 DEF RowsFade, LogoutInvariant, AccessComesWithRow
<1>2. ASSUME NEW t \in Tokens, ~Issued(t), NEW u, NEW f, NEW d, NEW p,
             CreateRefreshToken(t, u, f, d, p)
      PROVE  /\ LogoutInvariant'
             /\ \A a \in Tokens : access[a] # NoAccess => access'[a] = access[a]
  <2>1. Issued(t)' /\ \A s \in Tokens : s # t => row'[s] = row[s] /\ access'[s] = access[s]
    BY <1>0, <1>2 DEF CreateRefreshToken, Issued, TypeOK
  <2>2. access[t] = NoAccess
    BY <1>2 DEF LogoutInvariant, AccessComesWithRow
  <2>. QED
    BY <1>0, <2>1, <2>2 DEF LogoutInvariant, AccessComesWithRow, Issued
<1>3. ASSUME NEW r \in Requests, LoginStep(r)
      PROVE  /\ LogoutInvariant'
             /\ \A a \in Tokens : access[a] # NoAccess => access'[a] = access[a]
  BY <1>1, <1>2, <1>3, SameRowsFade
     DEF LoginStep, Login, LoginIssue, LoginChallenge, VerifyMfaLogin, MfaUser
<1>4. ASSUME NEW r \in Requests, RefreshStep(r)
      PROVE  /\ LogoutInvariant'
             /\ \A a \in Tokens : access[a] # NoAccess => access'[a] = access[a]
  <2>1. ASSUME NEW t \in Tokens, RefreshIssue(r, t)
        PROVE  /\ LogoutInvariant'
               /\ \A a \in Tokens : access[a] # NoAccess => access'[a] = access[a]
    BY <1>2, <2>1 DEF RefreshIssue
  <2>2. CASE RefreshRevoke(r) \/ RefreshBurn(r)
    BY <1>0, <1>1, <2>2, SameRowsFade, RevokingFades
       DEF RefreshRevoke, RevokeIfActive, RefreshBurn
  <2>. QED
    BY <1>1, <1>4, <2>1, <2>2, SameRowsFade
       DEF RefreshStep, RefreshReuse, RefreshFind, RefreshUser
<1>5. ASSUME NEW r \in Requests, SignOutStep(r) \/ PasswordStep(r) \/ Abort(r)
      PROVE  RowsFade /\ UNCHANGED access
  <2>1. ASSUME NEW T, RevokeRows(T)
        PROVE  RowsFade
    BY <1>0, <2>1, RevokingFades
  <2>2. CASE SignOutStep(r)
    BY <2>1, <2>2, SameRowsFade
       DEF SignOutStep, Logout, RevokeSession, LogoutFind, RevokeOne, RevokeAll
  <2>. QED
    BY <1>5, <2>1, <2>2, SameRowsFade
       DEF PasswordStep, ForgotPassword, ForgotDelete, ForgotCreate,
           ResetPassword, ResetCommit, Abort
<1>6. CASE CleanupRefreshTokens
  BY <1>0, <1>1, <1>6, RowFields
     DEF CleanupRefreshTokens, RowsFade, Active, Stored, Issued
<1>. QED
  BY <1>1, <1>3, <1>4, <1>5, <1>6, SameRowsFade
     DEF Next, vars, DeleteUser, SwitchMfa, CleanupAuthTokens,
         CleanupBlacklistedTokens, Tick

(* Only the clean-up takes a token off the blacklist, and only an expired  *)
(* one; and nothing turns the clock back.                                  *)
LEMMA BlacklistNext ==
    ASSUME TypeOK, [Next]_vars
    PROVE  /\ now' \in Nat /\ now <= now'
           /\ \A a \in blacklist \ blacklist' : access[a].expiresAt < now /\ UNCHANGED now
<1>1. CASE CleanupBlacklistedTokens
  BY <1>1 DEF CleanupBlacklistedTokens, TypeOK
<1>2. CASE Tick
  BY <1>2 DEF Tick, TypeOK
<1>3. ASSUME NEW r \in Requests,
             \/ LoginStep(r) \/ RefreshStep(r) \/ SignOutStep(r)
             \/ PasswordStep(r) \/ Abort(r)
      PROVE  blacklist \subseteq blacklist' /\ UNCHANGED now
  BY <1>3 DEF LoginStep, Login, LoginIssue, LoginChallenge, VerifyMfaLogin, MfaUser,
              RefreshStep, RefreshReuse, RefreshFind, RefreshUser, RefreshRevoke,
              RefreshIssue, RefreshBurn, SignOutStep, Logout, RevokeSession,
              LogoutFind, RevokeOne, RevokeAll, PasswordStep, ForgotPassword,
              ForgotDelete, ForgotCreate, ResetPassword, ResetCommit, Abort
<1>4. CASE \/ CleanupRefreshTokens \/ CleanupAuthTokens \/ UNCHANGED vars
           \/ \E u \in Users : DeleteUser(u) \/ SwitchMfa(u)
  BY <1>4 DEF CleanupRefreshTokens, CleanupAuthTokens, vars, DeleteUser, SwitchMfa,
              TypeOK
<1>5. now \in Nat
  BY DEF TypeOK
<1>. QED
  BY <1>1, <1>2, <1>3, <1>4, <1>5 DEF Next

LEMMA RefusedForEver ==
    ASSUME LogoutInvariant, [Next]_vars, NEW a \in Tokens, Refused(a)
    PROVE  Refused(a)'
<1>1. access[a] # NoAccess /\ access'[a] = access[a]
  BY AccessNext DEF Refused
<1>2. access[a].expiresAt \in Nat /\ now \in Nat /\ now' \in Nat /\ now <= now'
  BY <1>1, BlacklistNext DEF LogoutInvariant, TypeOK, AccessToken
<1>3. a \in blacklist \/ ~(now < access[a].expiresAt)
  BY DEF Refused, Accepted
<1>4. a \in blacklist' \/ ~(now' < access'[a].expiresAt)
  BY <1>1, <1>2, <1>3, BlacklistNext DEF LogoutInvariant
<1>. QED
  BY <1>1, <1>4 DEF Refused, Accepted

(* LoggedOutStaysOut: an access token that logout has blacklisted is       *)
(* refused from then on, also after cleanupExpiredTokens has dropped its   *)
(* entry.                                                                  *)
THEOREM LogoutIsFinal == Spec => LoggedOutStaysOut
<1>1. Init => LogoutInvariant
  BY TypeInit DEF Init, LogoutInvariant, AccessComesWithRow
<1>2. LogoutInvariant /\ [Next]_vars => LogoutInvariant'
  BY AccessNext
<1>3. LogoutInvariant /\ [Next]_vars =>
        [\A a \in Tokens : Refused(a) => Refused(a)']_vars
  BY RefusedForEver
<1>. QED
  BY <1>1, <1>2, <1>3, PTL DEF Spec, LoggedOutStaysOut

-----------------------------------------------------------------------------
(* Password resets                                                         *)

(* The tokens an account has used up.                                      *)
UsedBy(u) == {k \in ResetTokens : reset[k].status = "used" /\ reset[k].user = u}

(* A request that is about to commit holds a token of the account that it  *)
(* will give a new password; the tokens used up so far are finitely many.  *)
ResetInvariant ==
    /\ TypeOK
    /\ EveryResetUsesItsToken
    /\ \A u \in Users : IsFiniteSet(UsedBy(u))
    /\ \A r \in Requests : req[r].pc = "resetCommit" =>
         /\ reset[req[r].reset] # Unissued
         /\ reset[req[r].reset].status = "valid" =>
              reset[req[r].reset].user = req[r].user

LEMMA ResetFields ==
    ASSUME TypeOK, NEW k \in ResetTokens
    PROVE  /\ reset[k].status \in {"valid", "used"} => reset[k] \in ResetRow
           /\ reset[k] = Unissued <=> reset[k].status = "unissued"
<1>. reset[k] \in {Unissued} \cup ResetRow \cup DeletedReset
  BY DEF TypeOK
<1>. QED
  BY DEF Unissued, ResetRow, DeletedReset

(* Steps that change no password and use up no token.                      *)
ResetsFade ==
    /\ \A u \in Users : account'[u].password = account[u].password
    /\ \A k \in ResetTokens :
         /\ reset'[k].status = "used" <=> reset[k].status = "used"
         /\ reset[k].status = "used" => reset'[k] = reset[k]
         /\ reset[k] # Unissued =>
              /\ reset'[k] # Unissued
              /\ reset'[k].status = "valid" => reset'[k] = reset[k]
    /\ \A r \in Requests : req'[r].pc = "resetCommit" => req'[r] = req[r]

LEMMA FadingKeepsResets ==
    ASSUME ResetInvariant, TypeOK', ResetsFade
    PROVE  ResetInvariant'
<1>1. \A u \in Users : UsedBy(u)' = UsedBy(u)
  BY DEF UsedBy, ResetsFade
<1>2. EveryResetUsesItsToken' /\ \A u \in Users : IsFiniteSet(UsedBy(u))'
  BY <1>1 DEF ResetInvariant, EveryResetUsesItsToken, UsedBy, ResetsFade
<1>3. ASSUME NEW r \in Requests, req'[r].pc = "resetCommit"
      PROVE  /\ reset'[req'[r].reset] # Unissued
             /\ reset'[req'[r].reset].status = "valid" =>
                  reset'[req'[r].reset].user = req'[r].user
  <2>1. req'[r] = req[r] /\ req[r].pc = "resetCommit"
    BY <1>3 DEF ResetsFade
  <2>2. req[r].reset \in ResetTokens
    BY <2>1, RequestFields DEF ResetInvariant
  <2>. QED
    BY <2>1, <2>2 DEF ResetInvariant, ResetsFade
<1>. QED
  BY <1>2, <1>3 DEF ResetInvariant

(* Steps of a request that touch neither accounts nor reset tokens.        *)
LEMMA OtherStepKeepsResets ==
    ASSUME ResetInvariant, TypeOK', NEW r \in Requests, NEW x, Become(r, x),
           x.pc # "resetCommit", UNCHANGED <<account, reset>>
    PROVE  ResetInvariant'
<1>1. \A s \in Requests : req'[s].pc = "resetCommit" => req'[s] = req[s]
  BY DEF Become, ResetInvariant, TypeOK
<1>2. ResetsFade
  BY <1>1 DEF ResetsFade
<1>. QED
  BY <1>2, FadingKeepsResets

LEMMA CommitKeepsResets ==
    ASSUME ResetInvariant, TypeOK', NEW r \in Requests, ResetCommit(r)
    PROVE  ResetInvariant'
<1>a. PICK k \in ResetTokens, u \in Users : k = req[r].reset /\ u = req[r].user
  BY RequestFields DEF ResetCommit, ResetInvariant
<1>0. TypeOK /\ req[r].pc = "resetCommit"
  BY DEF ResetCommit, ResetInvariant
<1>1. CASE ResetTokenGone(k)
  BY <1>a, <1>1, OtherStepKeepsResets DEF ResetCommit, Finish, Idle
<1>2. CASE ~ResetTokenGone(k)
  <2>1. reset[k].status = "valid" /\ reset[k] \in ResetRow /\ reset[k].user = u
    BY <1>a, <1>0, <1>2, ResetFields DEF ResetTokenGone, ResetInvariant
  <2>2. /\ reset'[k] = [reset[k] EXCEPT !.status = "used"]
        /\ \A j \in ResetTokens : j # k => reset'[j] = reset[j]
    BY <1>a, <1>0, <1>2 DEF ResetCommit, TypeOK
  <2>3. reset'[k].status = "used" /\ reset'[k].user = u
    BY <2>1, <2>2 DEF ResetRow
  <2>4. /\ account'[u].password = account[u].password + 1
        /\ \A v \in Users : v # u => account'[v] = account[v]
    BY <1>a, <1>0, <1>2 DEF ResetCommit, TypeOK
  <2>5. UsedBy(u)' = UsedBy(u) \cup {k} /\ k \notin UsedBy(u)
    BY <2>1, <2>2, <2>3 DEF UsedBy
  <2>6. \A v \in Users : v # u => UsedBy(v)' = UsedBy(v)
    BY <2>1, <2>2, <2>3 DEF UsedBy
  <2>7. IsFiniteSet(UsedBy(u))
    BY <1>0 DEF ResetInvariant
  <2>8. /\ IsFiniteSet(UsedBy(u)')
        /\ Cardinality(UsedBy(u)') = Cardinality(UsedBy(u)) + 1
    BY <2>5, <2>7, FS_AddElement
  <2>9. \A v \in Users : account[v].password = Cardinality(UsedBy(v))
    BY DEF ResetInvariant, EveryResetUsesItsToken, UsedBy
  <2>10. \A v \in Users : /\ account'[v].password = Cardinality(UsedBy(v)')
                          /\ IsFiniteSet(UsedBy(v)')
    <3>1. account[u].password \in Nat /\ \A v \in Users : IsFiniteSet(UsedBy(v))
      BY <1>0 DEF ResetInvariant, TypeOK
    <3>2. ASSUME NEW v \in Users, v # u
          PROVE  /\ account'[v].password = Cardinality(UsedBy(v)')
                 /\ IsFiniteSet(UsedBy(v)')
      BY <2>4, <2>6, <2>9, <3>1, <3>2
    <3>3. account'[u].password = Cardinality(UsedBy(u)')
      BY <1>a, <1>0, <2>4, <2>8, <2>9
    <3>. QED
      BY <2>8, <3>2, <3>3
  <2>11. \A s \in Requests : req'[s].pc = "resetCommit" =>
           s # r /\ req'[s] = req[s]
    BY <1>0 DEF ResetCommit, Finish, Become, Idle, TypeOK
  <2>12. ASSUME NEW s \in Requests, req'[s].pc = "resetCommit"
         PROVE  /\ reset'[req'[s].reset] # Unissued
                /\ reset'[req'[s].reset].status = "valid" =>
                     reset'[req'[s].reset].user = req'[s].user
    <3>1. req'[s] = req[s] /\ req[s].reset \in ResetTokens
      BY <1>a, <1>0, <2>11, <2>12, RequestFields
    <3>2. reset'[k] # Unissued /\ reset'[k].status # "valid"
      BY <2>3 DEF Unissued
    <3>3. CASE req[s].reset = k
      BY <3>1, <3>2, <3>3
    <3>4. CASE req[s].reset # k
      <4>1. req[s].pc = "resetCommit" /\ reset'[req[s].reset] = reset[req[s].reset]
        BY <2>2, <2>12, <3>1, <3>4
      <4>. QED
        BY <3>1, <4>1 DEF ResetInvariant
    <3>. QED
      BY <3>3, <3>4
  <2>. QED
    BY <2>10, <2>12 DEF ResetInvariant, EveryResetUsesItsToken, UsedBy
<1>. QED
  BY <1>1, <1>2

LEMMA ResetInit == Init => ResetInvariant
<1>. SUFFICES ASSUME Init PROVE ResetInvariant
  OBVIOUS
<1>1. \A u \in Users : UsedBy(u) = {}
  BY DEF Init, UsedBy, Unissued
<1>2. \A r \in Requests : req[r].pc # "resetCommit"
  BY DEF Init, Idle
<1>3. \A u \in Users : account[u].password = 0
  BY DEF Init
<1>. QED
  BY <1>1, <1>2, <1>3, TypeInit, FS_EmptySet
     DEF ResetInvariant, EveryResetUsesItsToken, UsedBy

LEMMA PasswordKeepsResets ==
    ASSUME ResetInvariant, TypeOK', NEW r \in Requests, PasswordStep(r)
    PROVE  ResetInvariant'
<1>0. TypeOK
  BY DEF ResetInvariant
<1>1. ASSUME NEW u \in Users, ForgotPassword(r, u)
      PROVE  ResetInvariant'
  BY <1>1, OtherStepKeepsResets DEF ForgotPassword
<1>2. CASE ForgotDelete(r)
  <2>1. \A s \in Requests : req'[s].pc = "resetCommit" => req'[s] = req[s]
    BY <1>0, <1>2 DEF ForgotDelete, Become, TypeOK
  <2>2. ResetsFade
    BY <1>0, <1>2, <2>1 DEF ForgotDelete, ResetsFade, Unissued, TypeOK
  <2>. QED
    BY <2>2, FadingKeepsResets
<1>3. ASSUME NEW k \in ResetTokens, ForgotCreate(r, k)
      PROVE  ResetInvariant'
  <2>1. \A s \in Requests : req'[s].pc = "resetCommit" => req'[s] = req[s]
    BY <1>0, <1>3 DEF ForgotCreate, Finish, Become, Idle, TypeOK
  <2>2. /\ reset[k] = Unissued /\ reset'[k].status = "valid"
        /\ \A j \in ResetTokens : j # k => reset'[j] = reset[j]
        /\ UNCHANGED account
    BY <1>0, <1>3 DEF ForgotCreate, TypeOK
  <2>3. ResetsFade
    BY <2>1, <2>2 DEF ResetsFade, Unissued
  <2>. QED
    BY <2>3, FadingKeepsResets
<1>4. ASSUME NEW k \in ResetTokens, ResetPassword(r, k)
      PROVE  ResetInvariant'
  <2>1. /\ UNCHANGED <<account, reset>> /\ reset[k].status = "valid"
        /\ req'[r] = [pc |-> "resetCommit", user |-> reset[k].user, reset |-> k]
        /\ \A s \in Requests : s # r => req'[s] = req[s]
    BY <1>0, <1>4 DEF ResetPassword, Become, TypeOK
  <2>2. reset[k] # Unissued
    BY <2>1 DEF Unissued
  <2>. QED
    BY <2>1, <2>2 DEF ResetInvariant, EveryResetUsesItsToken, UsedBy
<1>5. CASE ResetCommit(r)
  BY <1>5, CommitKeepsResets
<1>. QED
  BY <1>1, <1>2, <1>3, <1>4, <1>5 DEF PasswordStep

LEMMA ResetNext ==
    ASSUME ResetInvariant, [Next]_vars
    PROVE  ResetInvariant'
<1>0. TypeOK /\ TypeOK'
  BY TypeNext DEF ResetInvariant
<1>1. ASSUME UNCHANGED <<reset, req>>,
             \A u \in Users : account'[u].password = account[u].password
      PROVE  ResetInvariant'
  <2>1. ResetsFade
    BY <1>1 DEF ResetsFade
  <2>. QED
    BY <1>0, <2>1, FadingKeepsResets
<1>2. ASSUME NEW r \in Requests, NEW u \in Users, Login(r, u)
      PROVE  ResetInvariant'
  BY <1>0, <1>2, OtherStepKeepsResets DEF Login
<1>3. ASSUME NEW r \in Requests, NEW t \in Tokens, LoginIssue(r, t)
      PROVE  ResetInvariant'
  BY <1>0, <1>3, OtherStepKeepsResets DEF LoginIssue, Finish, Idle
<1>c. ASSUME NEW r \in Requests, NEW c \in Challenges,
             LoginChallenge(r, c) \/ VerifyMfaLogin(r, c)
      PROVE  ResetInvariant'
  BY <1>0, <1>c, OtherStepKeepsResets DEF LoginChallenge, VerifyMfaLogin, Finish, Idle
<1>m. ASSUME NEW r \in Requests, MfaUser(r)
      PROVE  ResetInvariant'
  BY <1>0, <1>m, OtherStepKeepsResets DEF MfaUser, Finish, Idle
<1>4. ASSUME NEW r \in Requests, RefreshStep(r)
      PROVE  ResetInvariant'
  <2>1. CASE RefreshUser(r)
    <3>1. [req[r] EXCEPT !.pc = "refreshRevoke"].pc = "refreshRevoke"
      BY <1>0, <2>1, Advance DEF RefreshUser, InRotation
    <3>. QED
      BY <1>0, <2>1, <3>1, OtherStepKeepsResets DEF RefreshUser, Finish, Idle
  <2>2. CASE RefreshRevoke(r)
    <3>1. [req[r] EXCEPT !.pc = "refreshIssue"].pc = "refreshIssue"
      BY <1>0, <2>2, Advance DEF RefreshRevoke, InRotation
    <3>. QED
      BY <1>0, <2>2, <3>1, OtherStepKeepsResets DEF RefreshRevoke, RevokeIfActive
  <2>3. ASSUME NEW t \in Tokens, RefreshReuse(r, t) \/ RefreshFind(r, t) \/ RefreshIssue(r, t)
        PROVE  ResetInvariant'
    BY <1>0, <2>3, OtherStepKeepsResets
       DEF RefreshReuse, RefreshFind, RefreshIssue, Finish, Idle
  <2>4. CASE RefreshBurn(r)
    BY <1>0, <2>4, OtherStepKeepsResets DEF RefreshBurn, Finish, Idle
  <2>. QED
    BY <1>4, <2>1, <2>2, <2>3, <2>4 DEF RefreshStep
<1>5. ASSUME NEW r \in Requests, SignOutStep(r)
      PROVE  ResetInvariant'
  <2>1. ASSUME NEW a \in Tokens, NEW t \in Tokens, Logout(r, a, t) \/ RevokeSession(r, a, t)
        PROVE  ResetInvariant'
    BY <1>0, <2>1, OtherStepKeepsResets DEF Logout, RevokeSession
  <2>2. CASE LogoutFind(r) \/ RevokeOne(r)
    BY <1>0, <2>2, OtherStepKeepsResets DEF LogoutFind, RevokeOne, Finish, Idle
  <2>3. ASSUME NEW a \in Tokens, RevokeAll(r, a)
        PROVE  ResetInvariant'
    BY <1>1, <2>3 DEF RevokeAll
  <2>. QED
    BY <1>5, <2>1, <2>2, <2>3 DEF SignOutStep
<1>6. ASSUME NEW r \in Requests, PasswordStep(r)
      PROVE  ResetInvariant'
  BY <1>0, <1>6, PasswordKeepsResets
<1>7. ASSUME NEW r \in Requests, Abort(r)
      PROVE  ResetInvariant'
  BY <1>0, <1>7, OtherStepKeepsResets DEF Abort, Finish, Idle
<1>8. ASSUME NEW u \in Users, DeleteUser(u) \/ SwitchMfa(u)
      PROVE  ResetInvariant'
  BY <1>0, <1>1, <1>8 DEF DeleteUser, SwitchMfa, TypeOK
<1>9. CASE CleanupAuthTokens
  <2>1. ResetsFade
    BY <1>0, <1>9 DEF CleanupAuthTokens, ResetsFade, Unissued, TypeOK
  <2>. QED
    BY <1>0, <2>1, FadingKeepsResets
<1>10. CASE CleanupRefreshTokens \/ CleanupBlacklistedTokens \/ Tick \/ UNCHANGED vars
  BY <1>1, <1>10 DEF CleanupRefreshTokens, CleanupBlacklistedTokens, Tick, vars
<1>. QED
  BY <1>2, <1>3, <1>c, <1>m, <1>4, <1>5, <1>6, <1>7, <1>8, <1>9, <1>10
     DEF Next, LoginStep

(* EveryResetUsesItsToken: of all requests with one link, resetPassword    *)
(* changes the password for one.                                           *)
THEOREM ResetsUseTokens == Spec => []EveryResetUsesItsToken
<1>1. ResetInvariant => EveryResetUsesItsToken
  BY DEF ResetInvariant
<1>. QED
  BY <1>1, ResetInit, ResetNext, PTL DEF Spec

-----------------------------------------------------------------------------
(* Sessions of an old password                                             *)

(* One step of OldPasswordsDieOut.                                         *)
OldFade ==
    IF PasswordsStay
    THEN RestOnOld' <= RestOnOld \/ SecondStepOfOld
    ELSE OldSessions' \subseteq OldSessions

LEMMA OldAreFinite ==
    /\ IsFiniteSet(OldSessions) /\ IsFiniteSet(OldSessions')
    /\ IsFiniteSet(OldChallenges) /\ IsFiniteSet(OldChallenges')
    /\ IsFiniteSet(OldRequests) /\ IsFiniteSet(OldRequests')
<1>1. /\ OldSessions \subseteq Tokens /\ OldSessions' \subseteq Tokens
      /\ OldChallenges \subseteq Challenges /\ OldChallenges' \subseteq Challenges
      /\ OldRequests \subseteq Requests /\ OldRequests' \subseteq Requests
  BY DEF OldSessions, OldChallenges, OldRequests
<1>. QED
  BY <1>1, RowsAreFinite, FS_Subset

LEMMA OldAreCounted ==
    /\ Cardinality(OldSessions) \in Nat /\ Cardinality(OldSessions') \in Nat
    /\ Cardinality(OldChallenges) \in Nat /\ Cardinality(OldChallenges') \in Nat
    /\ Cardinality(OldRequests) \in Nat /\ Cardinality(OldRequests') \in Nat
BY OldAreFinite, FS_CardinalityType

(* What a set gains and loses, counted.                                    *)
LEMMA Grown ==
    ASSUME NEW S, NEW T, NEW x, IsFiniteSet(S), T \subseteq S \cup {x}
    PROVE  Cardinality(T) <= Cardinality(S) + 1
<1>1. IsFiniteSet(S \cup {x}) /\ Cardinality(S \cup {x}) <= Cardinality(S) + 1
  <2>1. /\ IsFiniteSet(S \cup {x})
        /\ Cardinality(S \cup {x}) =
             IF x \in S THEN Cardinality(S) ELSE Cardinality(S) + 1
    BY FS_AddElement
  <2>2. Cardinality(S) \in Nat
    BY FS_CardinalityType
  <2>. QED
    BY <2>1, <2>2
<1>2. Cardinality(T) <= Cardinality(S \cup {x}) /\ IsFiniteSet(T)
  BY <1>1, FS_Subset
<1>. QED
  BY <1>1, <1>2, FS_CardinalityType

LEMMA Shrunk ==
    ASSUME NEW S, NEW T, NEW x \in S, IsFiniteSet(S), T \subseteq S \ {x}
    PROVE  Cardinality(T) + 1 <= Cardinality(S)
<1>1. IsFiniteSet(S \ {x}) /\ Cardinality(S \ {x}) = Cardinality(S) - 1
  BY FS_RemoveElement
<1>2. Cardinality(T) <= Cardinality(S \ {x}) /\ IsFiniteSet(T)
  BY <1>1, FS_Subset
<1>. QED
  BY <1>1, <1>2, FS_CardinalityType

(* Steps that let nothing join the old ones.                               *)
LEMMA FewerOld ==
    ASSUME OldSessions' \subseteq OldSessions,
           PasswordsStay => /\ OldChallenges' \subseteq OldChallenges
                            /\ OldRequests' \subseteq OldRequests
    PROVE  OldFade
<1>1. Cardinality(OldSessions') <= Cardinality(OldSessions)
  BY OldAreFinite, FS_Subset
<1>2. PasswordsStay => /\ Cardinality(OldChallenges') <= Cardinality(OldChallenges)
                       /\ Cardinality(OldRequests') <= Cardinality(OldRequests)
  BY OldAreFinite, FS_Subset
<1>. QED
  BY <1>1, <1>2, OldAreCounted DEF OldFade, RestOnOld

(* One old request stores one old session.                                 *)
LEMMA RequestToSession ==
    ASSUME NEW r \in OldRequests, NEW t, PasswordsStay,
           OldSessions' \subseteq OldSessions \cup {t},
           OldChallenges' \subseteq OldChallenges,
           OldRequests' \subseteq OldRequests \ {r}
    PROVE  OldFade
<1>1. Cardinality(OldSessions') <= Cardinality(OldSessions) + 1
  BY OldAreFinite, Grown
<1>2. Cardinality(OldRequests') + 1 <= Cardinality(OldRequests)
  BY OldAreFinite, Shrunk
<1>3. Cardinality(OldChallenges') <= Cardinality(OldChallenges)
  BY OldAreFinite, FS_Subset
<1>. QED
  BY <1>1, <1>2, <1>3, OldAreCounted DEF OldFade, RestOnOld

(* One old request hands out one challenge.                                *)
LEMMA RequestToChallenge ==
    ASSUME NEW r \in OldRequests, NEW c, PasswordsStay,
           OldSessions' \subseteq OldSessions,
           OldChallenges' \subseteq OldChallenges \cup {c},
           OldRequests' \subseteq OldRequests \ {r}
    PROVE  OldFade
<1>1. Cardinality(OldChallenges') <= Cardinality(OldChallenges) + 1
  BY OldAreFinite, Grown
<1>2. Cardinality(OldRequests') + 1 <= Cardinality(OldRequests)
  BY OldAreFinite, Shrunk
<1>3. Cardinality(OldSessions') <= Cardinality(OldSessions)
  BY OldAreFinite, FS_Subset
<1>. QED
  BY <1>1, <1>2, <1>3, OldAreCounted DEF OldFade, RestOnOld

(* An old session is handed to one old request.                            *)
LEMMA SessionToRequest ==
    ASSUME NEW r, NEW t \in OldSessions, PasswordsStay,
           OldSessions' \subseteq OldSessions \ {t},
           OldChallenges' \subseteq OldChallenges,
           OldRequests' \subseteq OldRequests \cup {r}
    PROVE  OldFade
<1>1. Cardinality(OldRequests') <= Cardinality(OldRequests) + 1
  BY OldAreFinite, Grown
<1>2. Cardinality(OldSessions') + 1 <= Cardinality(OldSessions)
  BY OldAreFinite, Shrunk
<1>3. Cardinality(OldChallenges') <= Cardinality(OldChallenges)
  BY OldAreFinite, FS_Subset
<1>. QED
  BY <1>1, <1>2, <1>3, OldAreCounted DEF OldFade, RestOnOld

(* Rows that fade join the old sessions only with a change of password.    *)
LEMMA FadingSessions ==
    ASSUME TypeOK, RowsFade, PasswordsStay
    PROVE  OldSessions' \subseteq OldSessions
<1>1. ASSUME NEW t \in Tokens, Active(t)'
      PROVE  /\ Active(t) /\ row[t].user \in Users
             /\ row'[t].user = row[t].user /\ row'[t].password = row[t].password
  <2>1. Active(t) /\ Stored(t) /\ Stored(t)'
    BY <1>1 DEF RowsFade, Active, Stored
  <2>2. row[t].user \in Users
    BY <2>1, RowFields DEF RefreshRow
  <2>. QED
    BY <2>1, <2>2 DEF RowsFade
<1>. QED
  BY <1>1 DEF OldSessions, Outdated, PasswordsStay

(* So do challenges, which only lapse.                                     *)
LEMMA FadingChallenges ==
    ASSUME TypeOK, UNCHANGED challenge, PasswordsStay, now' \in Nat, now <= now'
    PROVE  OldChallenges' \subseteq OldChallenges
<1>1. ASSUME NEW c \in Challenges, challenge[c] # NoChallenge
      PROVE  challenge[c].user \in Users /\ challenge[c].expiresAt \in Nat
  BY <1>1 DEF TypeOK, Challenge
<1>2. now \in Nat
  BY DEF TypeOK
<1>. QED
  BY <1>1, <1>2 DEF OldChallenges, Outdated, PasswordsStay

(* Steps of a request that leave accounts, challenges and the clock alone. *)
Quietly == UNCHANGED <<now, account, challenge>>

LEMMA QuietChallenges ==
    ASSUME TypeOK, Quietly
    PROVE  PasswordsStay /\ OldChallenges' \subseteq OldChallenges
<1>1. PasswordsStay /\ now' \in Nat /\ now <= now' /\ UNCHANGED challenge
  BY DEF Quietly, PasswordsStay, TypeOK
<1>. QED
  BY <1>1, FadingChallenges

LEMMA FadingRequests ==
    ASSUME UNCHANGED account, NEW r \in Requests,
           \A s \in Requests : s # r => req'[s] = req[s],
           CarriesLogin(r)' => req'[r].password = account[req'[r].user].password
    PROVE  OldRequests' \subseteq OldRequests \ {r}
BY DEF OldRequests, CarriesLogin, Outdated

(* One that stores no session.                                             *)
LEMMA OtherStepFades ==
    ASSUME TypeOK, RowsFade, Quietly, NEW r \in Requests, NEW x, Become(r, x),
           x.pc \notin {"loginIssue", "loginChallenge", "mfaUser", "refreshIssue"}
    PROVE  OldFade
<1>1. OldSessions' \subseteq OldSessions /\ OldChallenges' \subseteq OldChallenges
  BY FadingSessions, QuietChallenges
<1>2. OldRequests' \subseteq OldRequests \ {r}
  BY FadingRequests DEF Become, TypeOK, CarriesLogin, Quietly
<1>. QED
  BY <1>1, <1>2, FewerOld

(* A login or a rotation stores the session it stands for.                 *)
LEMMA IssueFades ==
    ASSUME TypeOK, Quietly, NEW r \in Requests, NEW t \in Tokens, NEW f, NEW d,
           CarriesLogin(r), ~Issued(t),
           CreateRefreshToken(t, req[r].user, f, d, req[r].password), Finish(r)
    PROVE  OldFade
<1>1. /\ \A s \in Tokens : s # t => row'[s] = row[s]
      /\ row'[t].user = req[r].user /\ row'[t].password = req[r].password
  BY DEF CreateRefreshToken, TypeOK
<1>2. OldSessions' \subseteq OldSessions \cup {t}
  BY <1>1 DEF OldSessions, Outdated, Active, Quietly
<1>3. PasswordsStay /\ OldChallenges' \subseteq OldChallenges
  BY QuietChallenges
<1>4. OldRequests' \subseteq OldRequests \ {r}
  BY FadingRequests DEF Finish, Become, Idle, TypeOK, CarriesLogin, Quietly
<1>5. CASE r \in OldRequests
  BY <1>2, <1>3, <1>4, <1>5, RequestToSession
<1>6. CASE r \notin OldRequests
  <2>1. req[r].password = account[req[r].user].password
    BY <1>6 DEF OldRequests, Outdated
  <2>2. t \notin OldSessions'
    BY <1>1, <2>1 DEF OldSessions, Outdated, Quietly
  <2>. QED
    BY <1>2, <1>3, <1>4, <2>2, FewerOld
<1>. QED
  BY <1>5, <1>6

(* A login that waits for its second factor hands out its challenge.       *)
LEMMA ChallengeFades ==
    ASSUME TypeOK, NEW r \in Requests, NEW c \in Challenges, LoginChallenge(r, c)
    PROVE  OldFade
<1>1. /\ \A d \in Challenges : d # c => challenge'[d] = challenge[d]
      /\ challenge'[c].user = req[r].user /\ challenge'[c].password = req[r].password
  BY DEF LoginChallenge, TypeOK
<1>2. UNCHANGED <<now, account, row>> /\ PasswordsStay /\ CarriesLogin(r)
  BY DEF LoginChallenge, PasswordsStay, CarriesLogin
<1>3. OldChallenges' \subseteq OldChallenges \cup {c}
  BY <1>1, <1>2 DEF OldChallenges, Outdated
<1>4. OldSessions' \subseteq OldSessions
  BY <1>2, SameRowsFade, FadingSessions
<1>5. OldRequests' \subseteq OldRequests \ {r}
  BY <1>2, FadingRequests DEF LoginChallenge, Finish, Become, Idle, TypeOK, CarriesLogin
<1>6. CASE r \in OldRequests
  BY <1>2, <1>3, <1>4, <1>5, <1>6, RequestToChallenge
<1>7. CASE r \notin OldRequests
  <2>1. req[r].password = account[req[r].user].password
    BY <1>2, <1>7 DEF OldRequests, Outdated
  <2>2. c \notin OldChallenges'
    BY <1>1, <1>2, <2>1 DEF OldChallenges, Outdated
  <2>. QED
    BY <1>2, <1>3, <1>4, <1>5, <2>2, FewerOld
<1>. QED
  BY <1>6, <1>7

(* A challenge that holds is presented: the one step that adds to what     *)
(* rests on an old password.                                               *)
LEMMA VerifyFades ==
    ASSUME TypeOK, NEW r \in Requests, NEW c \in Challenges, VerifyMfaLogin(r, c)
    PROVE  OldFade
<1>1. /\ Quietly /\ UNCHANGED row /\ PasswordsStay
      /\ challenge[c] # NoChallenge /\ now < challenge[c].expiresAt
      /\ req[r].pc = "idle"
  BY DEF VerifyMfaLogin, ChallengeHolds, Idle, Quietly, PasswordsStay
<1>2. /\ req'[r].pc = "mfaUser" /\ req'[r].user = challenge[c].user
      /\ req'[r].password = challenge[c].password
      /\ \A s \in Requests : s # r => req'[s] = req[s]
  BY DEF VerifyMfaLogin, Become, TypeOK
<1>3. OldSessions' = OldSessions /\ OldChallenges' = OldChallenges
  BY <1>1 DEF Quietly, OldSessions, OldChallenges, Outdated, Active
<1>4. CASE Outdated(challenge[c])
  <2>1. c \in OldChallenges
    BY <1>1, <1>4 DEF OldChallenges
  <2>2. OldRequests' = OldRequests \cup {r}
    BY <1>1, <1>2, <1>4 DEF OldRequests, CarriesLogin, Outdated, Quietly
  <2>. QED
    BY <1>1, <1>2, <1>3, <2>1, <2>2 DEF OldFade, SecondStepOfOld
<1>5. CASE ~Outdated(challenge[c])
  <2>1. OldRequests' \subseteq OldRequests \ {r}
    BY <1>1, <1>2, <1>5, FadingRequests DEF Outdated, Quietly
  <2>. QED
    BY <1>3, <2>1, FewerOld
<1>. QED
  BY <1>4, <1>5

LEMMA MfaUserFades ==
    ASSUME TypeOK, NEW r \in Requests, MfaUser(r)
    PROVE  OldFade
<1>1. Quietly /\ RowsFade /\ CarriesLogin(r)
  BY SameRowsFade DEF MfaUser, Quietly, CarriesLogin
<1>2. OldSessions' \subseteq OldSessions /\ OldChallenges' \subseteq OldChallenges
  BY <1>1, QuietChallenges, FadingSessions
<1>3. CASE Finish(r)
  BY <1>1, <1>3, OtherStepFades DEF Finish, Idle
<1>4. CASE Become(r, [pc |-> "loginIssue", user |-> req[r].user,
                      password |-> req[r].password])
  <2>1. /\ req'[r].user = req[r].user /\ req'[r].password = req[r].password
        /\ \A s \in Requests : s # r => req'[s] = req[s]
    BY <1>4 DEF Become, TypeOK
  <2>2. OldRequests' \subseteq OldRequests
    BY <1>1, <2>1 DEF OldRequests, CarriesLogin, Outdated, Quietly
  <2>. QED
    BY <1>2, <2>2, FewerOld
<1>. QED
  BY <1>3, <1>4 DEF MfaUser

LEMMA RevokedIsInactive ==
    ASSUME TypeOK, NEW T, RevokeRows(T), NEW t \in Tokens, t \in T
    PROVE  ~Active(t)'
<1>1. CASE Active(t)
  <2>1. row[t] \in RefreshRow
    BY <1>1, RowFields DEF Active, Stored
  <2>2. row'[t] = [row[t] EXCEPT !.status = "revoked"]
    BY <1>1 DEF RevokeRows
  <2>3. row'[t].status = "revoked"
    BY <2>1, <2>2 DEF RefreshRow
  <2>. QED
    BY <2>3 DEF Active
<1>2. CASE ~Active(t)
  BY <1>2 DEF RevokeRows, Active
<1>. QED
  BY <1>1, <1>2

(* A rotation takes its session over from the token it revokes.            *)
LEMMA RevokeFades ==
    ASSUME RotationInvariant, NEW r \in Requests, RefreshRevoke(r)
    PROVE  OldFade
<1>a. PICK t \in Tokens : t = req[r].token
  BY RequestFields DEF RefreshRevoke, RotationInvariant, InRotation
<1>0. /\ TypeOK /\ InRotation(r) /\ req[r].pc = "refreshRevoke" /\ Quietly
      /\ PasswordsStay /\ OldChallenges' \subseteq OldChallenges
  BY QuietChallenges DEF RefreshRevoke, RotationInvariant, InRotation, Quietly
<1>1. CASE ~Active(t)
  BY <1>a, <1>0, <1>1, SameRowsFade, OtherStepFades DEF RefreshRevoke, RevokeIfActive
<1>2. CASE Active(t)
  <2>1. RowsFade
    BY <1>a, <1>0, <1>2, RevokingFades DEF RefreshRevoke, RevokeIfActive
  <2>2. Stored(t) /\ row[t].family = req[r].family
    BY <1>a, <1>0, <1>2 DEF RotationInvariant, RotationsKnowTheirToken, Active, Stored
  <2>3. row[t].user = req[r].user /\ row[t].password = req[r].password
    BY <1>0, <2>2 DEF RotationInvariant, RotationsAgree
  <2>4. ~Active(t)'
    BY <1>a, <1>0, <1>2, RevokedIsInactive DEF RefreshRevoke, RevokeIfActive
  <2>5. OldSessions' \subseteq OldSessions \ {t}
    BY <1>0, <2>1, <2>4, FadingSessions DEF OldSessions
  <2>6. /\ req'[r].user = req[r].user /\ req'[r].password = req[r].password
        /\ \A s \in Requests : s # r => req'[s] = req[s]
    <3>1. req' = [req EXCEPT ![r] = [req[r] EXCEPT !.pc = "refreshIssue"]]
      BY <1>a, <1>0, <1>2 DEF RefreshRevoke, RevokeIfActive, Become
    <3>2. req'[r] = [req[r] EXCEPT !.pc = "refreshIssue"]
      BY <1>0, <3>1 DEF TypeOK
    <3>3. \A s \in Requests : s # r => req'[s] = req[s]
      BY <1>0, <3>1 DEF TypeOK
    <3>. QED
      BY <1>0, <3>2, <3>3, Advance
  <2>7. OldRequests' \subseteq OldRequests \cup {r}
    BY <1>0, <2>6 DEF OldRequests, CarriesLogin, Outdated, Quietly
  <2>8. CASE t \in OldSessions
    BY <1>0, <2>5, <2>7, <2>8, SessionToRequest
  <2>9. CASE t \notin OldSessions
    <3>1. row[t].password = account[row[t].user].password
      BY <1>2, <2>9 DEF OldSessions, Outdated
    <3>2. r \notin OldRequests'
      BY <1>0, <2>3, <2>6, <3>1 DEF OldRequests, Outdated, Quietly
    <3>. QED
      BY <1>0, <2>5, <2>7, <3>2, FewerOld
  <2>. QED
    BY <2>8, <2>9
<1>. QED
  BY <1>1, <1>2

(* A change of password revokes the sessions of its account.               *)
LEMMA CommitFades ==
    ASSUME TypeOK, NEW r \in Requests, ResetCommit(r)
    PROVE  OldFade
<1>a. PICK k \in ResetTokens, u \in Users : k = req[r].reset /\ u = req[r].user
  BY RequestFields DEF ResetCommit
<1>0. TypeOK
  OBVIOUS
<1>1. CASE ResetTokenGone(k)
  BY <1>a, <1>1, SameRowsFade, OtherStepFades DEF ResetCommit, Finish, Idle, Quietly
<1>2. CASE ~ResetTokenGone(k)
  <2>1. RevokeRows(TokensOf(u)) /\ RowsFade
    BY <1>a, <1>2, RevokingFades DEF ResetCommit
  <2>2. \A v \in Users : v # u => account'[v] = account[v]
    BY <1>a, <1>2 DEF ResetCommit, TypeOK
  <2>3. ASSUME NEW t \in Tokens, Active(t)'
        PROVE  /\ Active(t) /\ row[t].user \in Users /\ row[t].user # u
               /\ row'[t].user = row[t].user /\ row'[t].password = row[t].password
    <3>1. Active(t) /\ Stored(t) /\ Stored(t)' /\ row[t] \in RefreshRow
      BY <2>1, <2>3, RowFields DEF RowsFade, Active, Stored
    <3>2. t \notin TokensOf(u)
      BY <2>1, <2>3, <1>0, RevokedIsInactive
    <3>. QED
      BY <2>1, <3>1, <3>2 DEF RowsFade, TokensOf, RefreshRow
  <2>4. OldSessions' \subseteq OldSessions
    BY <2>2, <2>3 DEF OldSessions, Outdated
  <2>5. ~PasswordsStay
    BY <1>a, <1>2 DEF ResetCommit, PasswordsStay, TypeOK
  <2>. QED
    BY <2>4, <2>5, FewerOld
<1>. QED
  BY <1>1, <1>2

LEMMA OldFadeNext ==
    ASSUME RotationInvariant, [Next]_vars
    PROVE  OldFade
<1>0. TypeOK
  BY DEF RotationInvariant
<1>1. ASSUME RowsFade, UNCHANGED <<req, challenge>>, now' \in Nat, now <= now',
             PasswordsStay
      PROVE  OldFade
  <2>1. ASSUME NEW r \in Requests, CarriesLogin(r)
        PROVE  req[r].user \in Users
    BY <1>0, <2>1, RequestFields DEF CarriesLogin, InRotation
  <2>2. OldRequests' \subseteq OldRequests
    BY <1>1, <2>1 DEF OldRequests, CarriesLogin, Outdated, PasswordsStay
  <2>. QED
    BY <1>0, <1>1, <2>2, FadingSessions, FadingChallenges, FewerOld
<1>q. now \in Nat /\ now <= now
  BY <1>0 DEF TypeOK
<1>2. ASSUME NEW r \in Requests, NEW u \in Users, Login(r, u)
      PROVE  OldFade
  <2>1. OldSessions' \subseteq OldSessions /\ OldChallenges' \subseteq OldChallenges
    BY <1>0, <1>2, SameRowsFade, QuietChallenges, FadingSessions DEF Login, Quietly
  <2>2. OldRequests' \subseteq OldRequests \ {r}
    BY <1>0, <1>2, FadingRequests DEF Login, Become, TypeOK
  <2>. QED
    BY <2>1, <2>2, FewerOld
<1>3. ASSUME NEW r \in Requests, NEW t \in Tokens, LoginIssue(r, t)
      PROVE  OldFade
  BY <1>0, <1>3, IssueFades DEF LoginIssue, CarriesLogin, Quietly
<1>c. ASSUME NEW r \in Requests, NEW c \in Challenges,
             LoginChallenge(r, c) \/ VerifyMfaLogin(r, c)
      PROVE  OldFade
  BY <1>0, <1>c, ChallengeFades, VerifyFades
<1>m. ASSUME NEW r \in Requests, MfaUser(r)
      PROVE  OldFade
  BY <1>0, <1>m, MfaUserFades
<1>4. ASSUME NEW r \in Requests, RefreshStep(r)
      PROVE  OldFade
  <2>1. ASSUME NEW t \in Tokens, RefreshReuse(r, t) \/ RefreshFind(r, t)
        PROVE  OldFade
    BY <1>0, <2>1, SameRowsFade, OtherStepFades DEF RefreshReuse, RefreshFind, Quietly
  <2>2. CASE RefreshUser(r)
    <3>1. [req[r] EXCEPT !.pc = "refreshRevoke"].pc = "refreshRevoke"
      BY <1>0, <2>2, Advance DEF RefreshUser, InRotation
    <3>. QED
      BY <1>0, <2>2, <3>1, SameRowsFade, OtherStepFades DEF RefreshUser, Finish, Idle, Quietly
  <2>3. CASE RefreshRevoke(r)
    BY <2>3, RevokeFades
  <2>4. ASSUME NEW t \in Tokens, RefreshIssue(r, t)
        PROVE  OldFade
    BY <1>0, <2>4, IssueFades DEF RefreshIssue, Pending, CarriesLogin, Quietly
  <2>5. CASE RefreshBurn(r)
    BY <1>0, <2>5, RevokingFades, OtherStepFades DEF RefreshBurn, Finish, Idle, Quietly
  <2>. QED
    BY <1>4, <2>1, <2>2, <2>3, <2>4, <2>5 DEF RefreshStep
<1>5. ASSUME NEW r \in Requests, SignOutStep(r)
      PROVE  OldFade
  <2>1. ASSUME NEW a \in Tokens, NEW t \in Tokens, Logout(r, a, t) \/ RevokeSession(r, a, t)
        PROVE  OldFade
    BY <1>0, <2>1, SameRowsFade, OtherStepFades DEF Logout, RevokeSession, Quietly
  <2>2. CASE LogoutFind(r)
    BY <1>0, <2>2, SameRowsFade, OtherStepFades DEF LogoutFind, Finish, Idle, Quietly
  <2>3. CASE RevokeOne(r)
    BY <1>0, <2>3, RevokingFades, OtherStepFades DEF RevokeOne, Finish, Idle, Quietly
  <2>4. ASSUME NEW a \in Tokens, RevokeAll(r, a)
        PROVE  OldFade
    BY <1>0, <1>1, <1>q, <2>4, RevokingFades DEF RevokeAll, PasswordsStay
  <2>. QED
    BY <1>5, <2>1, <2>2, <2>3, <2>4 DEF SignOutStep
<1>6. ASSUME NEW r \in Requests, PasswordStep(r)
      PROVE  OldFade
  <2>1. ASSUME NEW u \in Users, ForgotPassword(r, u)
        PROVE  OldFade
    BY <1>0, <2>1, SameRowsFade, OtherStepFades DEF ForgotPassword, Quietly
  <2>2. CASE ForgotDelete(r)
    BY <1>0, <2>2, SameRowsFade, OtherStepFades DEF ForgotDelete, Quietly
  <2>3. ASSUME NEW k \in ResetTokens, ForgotCreate(r, k) \/ ResetPassword(r, k)
        PROVE  OldFade
    BY <1>0, <2>3, SameRowsFade, OtherStepFades DEF ForgotCreate, ResetPassword, Finish, Idle, Quietly
  <2>4. CASE ResetCommit(r)
    BY <1>0, <2>4, CommitFades
  <2>. QED
    BY <1>6, <2>1, <2>2, <2>3, <2>4 DEF PasswordStep
<1>7. ASSUME NEW r \in Requests, Abort(r)
      PROVE  OldFade
  BY <1>0, <1>7, SameRowsFade, OtherStepFades DEF Abort, Finish, Idle, Quietly
<1>8. ASSUME NEW u \in Users, DeleteUser(u) \/ SwitchMfa(u)
      PROVE  OldFade
  <2>1. PasswordsStay
    BY <1>0, <1>8 DEF DeleteUser, SwitchMfa, PasswordsStay, TypeOK
  <2>. QED
    BY <1>1, <1>q, <1>8, <2>1, SameRowsFade DEF DeleteUser, SwitchMfa
<1>9. CASE CleanupRefreshTokens
  <2>1. RowsFade
    BY <1>0, <1>9, RowFields
       DEF CleanupRefreshTokens, RowsFade, Active, Stored, Issued
  <2>. QED
    BY <1>1, <1>q, <1>9, <2>1 DEF CleanupRefreshTokens, PasswordsStay
<1>10. CASE CleanupAuthTokens \/ CleanupBlacklistedTokens \/ Tick \/ UNCHANGED vars
  BY <1>1, <1>q, <1>10, SameRowsFade
     DEF CleanupAuthTokens, CleanupBlacklistedTokens, Tick, vars, PasswordsStay
<1>. QED
  BY <1>2, <1>3, <1>c, <1>m, <1>4, <1>5, <1>6, <1>7, <1>8, <1>9, <1>10
     DEF Next, LoginStep

(* OldPasswordsDieOut: a login or a rotation in flight, or a challenge     *)
(* that waits for its second factor, may carry an old password past        *)
(* resetPassword.  A request stands for one session or one challenge at    *)
(* most; only a challenge that still holds lets further requests in, and   *)
(* no step after a reset makes one but for a login that was in flight.     *)
THEOREM OldSessionsFade == Spec => OldPasswordsDieOut
<1>1. RotationInvariant /\ [Next]_vars => [OldFade]_vars
  BY OldFadeNext
<1>2. OldPasswordsDieOut <=> [][OldFade]_vars
  BY PTL DEF OldPasswordsDieOut, OldFade
<1>. QED
  BY <1>1, <1>2, RotationCorrect, PTL DEF Spec
=============================================================================
