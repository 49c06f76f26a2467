\* Two accepted submissions of one user on the day after another one.
CONSTANTS
    u1 = u1  sql = sql  dsa = dsa  pandas = pandas  r1 = r1  r2 = r2  r3 = r3
    Null = Null
    Requests = {r1, r2, r3}
    Users = {u1}
    Problems = {sql}
    Kind <- KindOf
    Gated = {}
    Subscribers = {u1}
    Limit = 3
    Threshold = 2
    LateNights = FALSE
    MaxDay = 3
    MaxFaults = 0
SPECIFICATION Spec
SYMMETRY Symmetry
INVARIANTS
    StreakCountsDays
\* Every request is served once, so a run comes to its end.
CHECK_DEADLOCK FALSE
