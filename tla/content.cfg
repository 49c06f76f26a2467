\* The problems of the CMS and their schedule, the profiles and the judge, one at a time.
CONSTANTS
    w1 = w1  w2 = w2  u1 = u1  c1 = c1  c2 = c2  n1 = n1  n2 = n2  p1 = p1  p2 = p2
    Null = Null
    Workers = {w1, w2}
    Users = {u1}
    Problems = {p1, p2}
    MaxProblems = 2
    FreeLimit = 1
    Keep = 1
    LastDate = 2
    MaxVersions = 2
    Codes = {c1, c2}
    MaxMembers = 3
    Names = {n1, n2}
    Blank = Blank
    MaxStreak = 1
    Columns = {c1, c2}
    Numbers = {0, 1}
    MaxRows = 2
SYMMETRY Symmetry
SPECIFICATION Spec
INVARIANTS
    NothingDangles
    OutputOfCode
    ListMatchesGate
    OnboardedHasPage
    EachOnOnePage
    VerdictIsFair
PROPERTIES
    VisibleStays
\* Problems, dates and versions are bounded, so a run may come to its end.
CHECK_DEADLOCK FALSE
