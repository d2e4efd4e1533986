\* Two processes, one encrypted column, and a rotation to its end.
\* No symmetry is needed; values are bounded, so it may stop.
SPECIFICATION KeySpec
CONSTANTS
    Processes = {p1, p2}
    Columns = {c1}
    ExpiresIn = 1
    MaxKey = 3
CHECK_DEADLOCK FALSE
INVARIANT StoredSecretsStayReadable
