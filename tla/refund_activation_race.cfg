\* A refund is processed while another order of the user is activated.
CONSTANTS
    c1 = c1  g1 = g1  o1 = o1  o2 = o2  o3 = o3  u1 = u1  u2 = u2  w1 = w1  w2 = w2  w3 = w3
    Null = Null
    Users = {u1}
    Orders = {o1, o2}
    Grants = {}
    Coupons = {}
    CouponOwner <- Owned
    Workers = {w1, w2}
    OnSale = {"monthly"}
    Prices = {1}
    LegacyOrders = {}
    Reversals = {"refunded"}
    MonthDays = 1
    YearDays = 2
    AdminPlans = {}
    GrantDays = {1}
    FirstTrials = {Null}
    MaxDay = 0
    MaxCrashes = 0
SPECIFICATION Spec
SYMMETRY Symmetry
INVARIANTS
    AppliedKeepsAccess
\* The clock, the orders and the crashes are bounded, so a run may come to its end.
CHECK_DEADLOCK FALSE
