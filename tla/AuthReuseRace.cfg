\* Reuse detection racing the rotation it should cut off.
\* The clock, the accounts and the row identities are bounded, so it may stop.
SPECIFICATION Spec
CONSTANTS
    Users = {u1}
    Tokens = {t1, t2, t3}
    ResetTokens = {k1}
    Challenges = {}
    Requests = {r1, r2}
    Ops = {"login", "refresh"}
    RefreshTTL = 1
    SessionMax = 2
    AccessTTL = 1
    ResetTTL = 1
    ChallengeTTL = 1
    MaxTime = 1
INVARIANT RevokedFamilyIsDead
CHECK_DEADLOCK FALSE
