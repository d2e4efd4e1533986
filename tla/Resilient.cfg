\* Three callers for one slot and a queue of one, two attempts each, and a
\* breaker that opens after two failures.  Behaviours of the server end with its
\* process.
SPECIFICATION ReliabilitySpec
CONSTANTS
    Calls = {c1, c2, c3}
    MaxConcurrent = 1
    MaxQueue = 1
    FailureThreshold = 2
    ResetTimeout = 2
    CallTimeout = 1
    Attempts = 2
    MaxTime = 4
    Clients = {1, 2}
    Pool = 2
CHECK_DEADLOCK FALSE
INVARIANT HalfOpenIsOneProbe
INVARIANT NobodyIsStranded
PROPERTY ImplementsItsParts
PROPERTY EveryCallReturns
PROPERTY ServerServesAndEnds
PROPERTY AttemptsAreOrderly
