\* A provider that answers every call with an error status.
SPECIFICATION Spec
CONSTANTS
    Calls = {c1, c2, c3}
    MaxConcurrent = 1
    MaxQueue = 1
    FailureThreshold = 2
    ResetTimeout = 2
    CallTimeout = 1
    Attempts = 2
    MaxTime = 3
INVARIANT FailingProviderIsCutOff
