\* Two requests with one key, and no failures at all; all requests come to an end.
SPECIFICATION CalmSpec
CONSTANTS
    Clients = {r1, r2}
    Nobody = Nobody
    NoAnswer = NoAnswer
    TTL = 2
CHECK_DEADLOCK FALSE
PROPERTY AnsweredOnce
