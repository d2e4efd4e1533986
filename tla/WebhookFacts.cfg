\* One change and one endpoint; the receiver is told before the change commits.
SPECIFICATION WebhooksSpec
CONSTANTS
    Tasks <- AllTasks
    Exports = {e1}
    Hooks <- OneHook
    e1 = e1
    Changes = {c1}
    Endpoints = {u1}
    Workers = {w1, w2}
    Nobody = Nobody
    NoRun = NoRun
    MaxAttempts = 2
    MaxStalls = 1
    u1 = u1
    u2 = u2
    r1 = r1
    r2 = r2
    c1 = c1
CHECK_DEADLOCK FALSE
INVARIANT WebhooksTellFacts
