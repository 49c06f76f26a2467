\* Three requests of one user, any mix of kinds, one fault anywhere.
CONSTANTS
    u1 = u1  sql = sql  dsa = dsa  pandas = pandas  r1 = r1  r2 = r2  r3 = r3
    Null = Null
    Requests = {r1, r2, r3}
    Users = {u1}
    Problems = {sql, dsa}
    Kind <- KindOf
    Gated = {dsa}
    Subscribers = {u1}
    Limit = 2
    Threshold = 2
    LateNights = FALSE
    MaxDay = 3
    MaxFaults = 1
SPECIFICATION Spec
SYMMETRY Symmetry
INVARIANTS
    SolvedWasAttempted
    SandboxDropped
    StreakPaid
    CounterExpires
    WithinLimit
PROPERTIES
    StreakKept
\* Every request is served once, so a run comes to its end.
CHECK_DEADLOCK FALSE
