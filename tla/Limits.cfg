\* Two attempts or requests at once; three failures in two ticks lock.  No symmetry, for liveness.
SPECIFICATION LimitsSpec
CONSTANTS
    Attempts = {a1, a2}
    MaxFailed = 3
    Window = 2
    LockFor = 2
    MaxCount = 5
    Reqs = {a1, a2}
    IpMax = 1
    KeyMax = 1
    MaxHits = 2
INVARIANT GuessesAreLimited
PROPERTY LocksAreBrief
INVARIANT KeyActsInItsTenant
PROPERTY QuotasAreFair
PROPERTY SuspensionTakesHold
