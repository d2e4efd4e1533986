\* Exports: one of them, two worker slots, two attempts and one stall, as configured.
\* Accounts: two users, u1 cannot be erased.
\* Webhooks: one change, one endpoint.
\* An export or a webhook stops when its request is answered and its job has ended.
SPECIFICATION TasksSpec
CONSTANTS
    Tasks <- AllTasks
    Exports = {e1}
    Hooks <- OneHook
    e1 = e1
    Changes = {c1}
    Endpoints = {u1}
    Workers = {w1, w2}
    Nobody = Nobody
    NoRun = NoRun
    MaxAttempts = 2
    MaxStalls = 1
    u1 = u1
    u2 = u2
    r1 = r1
    r2 = r2
    c1 = c1
CHECK_DEADLOCK FALSE
INVARIANT OneRunAtATime
INVARIANT RowsTellTheTruth
PROPERTY EveryExportSettles
PROPERTY ErasureComesToAnEnd
INVARIANT DeliveriesAreAccountedFor
PROPERTY EveryWebhookSettles
