--------------------------- MODULE MCAuthSession ---------------------------
(***************************************************************************)
(* Small instances of AuthSession, for TLC.  A behaviour is of one part:   *)
(* sessions; passwords and resets, with shorter lifetimes; second factors, *)
(* with resets between a challenge and its use; or sign-outs, with a clock *)
(* that runs past the life of the access tokens and of their entries in    *)
(* the blacklist.  The last three have fewer rows.                         *)
(***************************************************************************)
EXTENDS AuthSession, TLC

VARIABLE part

SessionOps == {"login", "refresh", "logout", "revokeSession", "revokeAll", "cleanup"}
PasswordOps == {"login", "refresh", "forgot", "reset", "cleanup", "deleteUser"}
FactorOps == {"login", "mfa", "forgot", "reset"}
SignOutOps == {"login", "refresh", "logout", "cleanup"}

Passwords == INSTANCE AuthSession WITH
    Ops <- PasswordOps, RefreshTTL <- 0, SessionMax <- 1, AccessTTL <- 1, ResetTTL <- 0

Factors == INSTANCE AuthSession WITH
    Ops <- FactorOps, RefreshTTL <- 0, SessionMax <- 1, AccessTTL <- 1, ResetTTL <- 0

SignOuts == INSTANCE AuthSession WITH
    Ops <- SignOutOps, RefreshTTL <- 1, SessionMax <- 3, AccessTTL <- 2,
    MaxTime <- 3

IssuedAfter == Cardinality({t \in Tokens : Issued(t)'})

authVars == <<vars, part>>

AuthInit == part \in {"sessions", "passwords", "factors", "signOuts"} /\ Init

AuthNext ==
    /\ UNCHANGED part
    /\ \/ part = "sessions" /\ Next
       \/ part = "passwords" /\ Passwords!Next /\ IssuedAfter < Cardinality(Tokens)
       \/ part = "factors" /\ Factors!Next /\ IssuedAfter < Cardinality(Tokens)
       \/ part = "signOuts" /\ SignOuts!Next /\ IssuedAfter < Cardinality(Tokens)

AuthSpec == AuthInit /\ [][AuthNext]_authVars

(* Rows, reset tokens and requests are interchangeable.                    *)
Symmetry ==
    Permutations(Tokens) \cup Permutations(ResetTokens) \cup Permutations(Requests)
=============================================================================
