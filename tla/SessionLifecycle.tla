-------------------------- MODULE SessionLifecycle --------------------------
(***************************************************************************)
(* What the authentication module promises about login sessions, with no   *)
(* tokens, requests or races in it.  A session is born by a login, lives   *)
(* while its refresh token is rotated, and once it is over it is over for  *)
(* good: nothing but a new login, which is a new session, signs the device *)
(* in again.  AuthSession implements this specification with one token     *)
(* family per session.                                                     *)
(***************************************************************************)
CONSTANT Sessions   \* identities of login sessions (RefreshToken.familyId)

VARIABLE session    \* the phase every session is in

Phases == {"unborn", "live", "over"}

Init == session = [s \in Sessions |-> "unborn"]

(* A login, by whatever method, begins a session that never existed.       *)
Begin(s) ==
    /\ session[s] = "unborn"
    /\ session' = [session EXCEPT ![s] = "live"]

(* Logout, revocation, reuse detection, password reset, expiry clean-up or *)
(* a failed rotation ends some live sessions at once.                      *)
End(S) ==
    /\ \A s \in S : session[s] = "live"
    /\ session' = [s \in Sessions |-> IF s \in S THEN "over" ELSE session[s]]

Next ==
    \/ \E s \in Sessions : Begin(s)
    \/ \E S \in SUBSET Sessions : End(S)

Spec == Init /\ [][Next]_session
=============================================================================
