----------------------------- MODULE KeyRotation -----------------------------
(***************************************************************************)
(* Rotation of JWT_SECRET and ENCRYPTION_KEY (shared/config/env.ts,        *)
(* shared/utils/jwt.ts, shared/security/encryption.service.ts) by the      *)
(* procedure of docs/runbook.md: a new value is deployed beside the old    *)
(* one, the processes restart one after the other, and once every token    *)
(* of the old value has expired the old value is taken away.               *)
(*                                                                         *)
(* A process reads its variables when it starts.  Values are numbered; the *)
(* two variables are rotated together.                                     *)
(***************************************************************************)
EXTENDS Naturals

CONSTANTS Processes,   \* API and worker processes
          Columns,     \* encrypted columns of rows: MFA, SSO, webhook secrets
          ExpiresIn,   \* JWT_EXPIRES_IN
          MaxKey       \* bound: values there ever are

ASSUME KeyOptions == MaxKey \in Nat \ {0} /\ ExpiresIn \in Nat

VARIABLES deployed,    \* <VAR> and <VAR>_PREVIOUS as the operator has set them
          env,         \* as each process has read them
          tokens,      \* access tokens in use: what signed them, their age
          secret       \* the key each column is encrypted with, or NoValue

keyVars == <<deployed, env, tokens, secret>>

NoValue == 0
Keys == 1..MaxKey
Config == [active : Keys, previous : Keys \cup {NoValue}]

KeyTypeOK ==
    /\ deployed \in Config
    /\ env \in [Processes -> Config]
    /\ tokens \subseteq [key : Keys, age : 0..ExpiresIn]
    /\ secret \in [Columns -> Keys \cup {NoValue}]

KeyInit ==
    /\ deployed = [active |-> 1, previous |-> NoValue]
    /\ env = [p \in Processes |-> deployed]
    /\ tokens = {}
    /\ secret = [c \in Columns |-> NoValue]

-----------------------------------------------------------------------------
(* jwtHelper.sign                                                          *)
Sign(p) ==
    /\ tokens' = tokens \cup {[key |-> env[p].active, age |-> 0]}
    /\ UNCHANGED <<deployed, env, secret>>

(* Mutant: as verifyMfaChallenge does, which has no fallback.              *)
VerifyActive(p, k) == k = env[p].active

(* jwtHelper.verify of a token that has not expired: the active secret,    *)
(* and when that fails the previous one if there is one.                   *)
VerifyToken(p, k) == k = env[p].active \/ k = env[p].previous

(* Tokens age and are refused once they have expired.                      *)
TokensAge ==
    /\ tokens # {}
    /\ tokens' = {[t EXCEPT !.age = @ + 1] : t \in {u \in tokens : u.age < ExpiresIn}}
    /\ UNCHANGED <<deployed, env, secret>>

(* encrypt, for a secret that is new or replaced.                          *)
Encrypt(p, c) ==
    /\ secret' = [secret EXCEPT ![c] = env[p].active]
    /\ UNCHANGED <<deployed, env, tokens>>

(* decrypt; the tag tells when a key is not the right one.                 *)
Decrypt(p, k) == k = env[p].active \/ k = env[p].previous

-----------------------------------------------------------------------------
(* The operator gives the variables new values and keeps the old ones.     *)
Rotate ==
    /\ deployed.previous = NoValue /\ deployed.active < MaxKey
    /\ deployed' = [active |-> deployed.active + 1, previous |-> deployed.active]
    /\ UNCHANGED <<env, tokens, secret>>

(* A process is restarted, by the deployment or for any other reason.      *)
Start(p) ==
    /\ env[p] # deployed
    /\ env' = [env EXCEPT ![p] = deployed]
    /\ UNCHANGED <<deployed, tokens, secret>>

(* Everything runs with the new values and the old tokens have expired.    *)
Retire ==
    /\ deployed.previous # NoValue
    /\ \A p \in Processes : env[p] = deployed
    /\ \A t \in tokens : t.key = deployed.active
    /\ deployed' = [deployed EXCEPT !.previous = NoValue]
    /\ UNCHANGED <<env, tokens, secret>>

KeyNext ==
    \/ \E p \in Processes : Sign(p) \/ Start(p) \/ \E c \in Columns : Encrypt(p, c)
    \/ TokensAge \/ Rotate \/ Retire

KeySpec == KeyInit /\ [][KeyNext]_keyVars

-----------------------------------------------------------------------------
(* Rotations sign nobody out: a token that has not expired is accepted by  *)
(* every process, but for those that have yet to be restarted with the     *)
(* secret it was signed with (env.ts:56-64).                               *)
RotationLogsNobodyOut ==
    \A p \in Processes, t \in tokens : VerifyToken(p, t.key) \/ env[p].active < t.key

(* What is stored encrypted stays readable through rotations, with the     *)
(* same exception (env.ts:79-86, docs/runbook.md:86-90).                   *)
StoredSecretsStayReadable ==
    \A p \in Processes, c \in Columns :
        secret[c] = NoValue \/ Decrypt(p, secret[c]) \/ env[p].active < secret[c]
=============================================================================
