\* Staff, Community, Inbox, Coupons, Cashfree and Runners, one at a time.
CONSTANTS
    w1 = w1  w2 = w2  u1 = u1  p1 = p1  p2 = p2  i1 = i1  i2 = i2
    e1 = e1  e2 = e2  k1 = k1  m1 = m1  m2 = m2
    j1 = j1  j2 = j2  j3 = j3  t1 = t1  t2 = t2  r1 = r1  r2 = r2
    o1 = o1  f1 = f1  f2 = f2
    Null = Null
    Workers = {w1, w2}
    Users = {u1}
    Problems = {p1, p2}
    MaxDay = 4
    Desks = {w1}
    StaffIds = {i1, i2}
    StaffEmails = {m1, m2}
    DefaultEmail = m1
    Passwords = {u1}
    DefaultPassword = u1
    TokenDays = 1
    MaxTokens = 1
    MaxComments = 3
    Addresses = {m1, m2}
    EntryIds = {e1}
    Banners = {u1}
    DefaultBanner = u1
    MaxFeedback = 1
    MaxCodes = 3
    Mailboxes = {m1, m2}
    Registered = {m1, m2}
    Clerks = {k1}
    Validity = {0, 1}
    Horizon = 2
    OldOrders = {o1}
    Charge <- Charged
    PlanPrices = {1, 2, 3}
    RefundIds = {f1, f2}
    Jobs = {j1, j2, j3}
    Tables = {t1, t2}
    DataOf <- Data
    Threads = 2
    Runs = {r1, r2}
    MaxSession = 3
SPECIFICATION Spec
INVARIANTS
    StaleAccessEnds
    EveryCommentShown
    NoOrphanVotes
    ApprovedIsWhitelisted
    OneUnusedPerEmail
    EndedForGood
    RunsApart
\* Ids, days and sessions are bounded, so a run may come to its end.
CHECK_DEADLOCK FALSE
