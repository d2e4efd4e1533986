\* Sessions of one account: rotation, reuse detection, sign-out, expiry and
\* clean-up; password resets racing logins, rotations and each other; second
\* factors asked for before a reset and given after it; and sign-outs past the
\* life of the access tokens.
\* The clock, the accounts and the row identities are bounded, so it may stop.
SPECIFICATION AuthSpec
CONSTANTS
    Users = {u1}
    Tokens = {t1, t2, t3}
    ResetTokens = {k1, k2}
    Challenges = {c1}
    Requests = {r1, r2}
    Ops <- SessionOps
    RefreshTTL = 1
    SessionMax = 0
    AccessTTL = 2
    ResetTTL = 1
    ChallengeTTL = 1
    MaxTime = 1
SYMMETRY Symmetry
INVARIANT OneLiveTokenPerFamily
INVARIANT FamilyAgrees
INVARIANT EveryResetUsesItsToken
PROPERTY LoggedOutStaysOut
PROPERTY OldPasswordsDieOut
PROPERTY ImplementsLifecycle
CHECK_DEADLOCK FALSE
