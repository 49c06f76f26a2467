\* Two requests at once: two orders, a lifetime coupon and admin grants, downgrades and revokes.
CONSTANTS
    c1 = c1  g1 = g1  o1 = o1  o2 = o2  o3 = o3  u1 = u1  u2 = u2  w1 = w1  w2 = w2  w3 = w3
    Null = Null
    Users = {u1}
    Orders = {o1, o2}
    Grants = {g1}
    Coupons = {c1}
    CouponOwner <- Owned
    Workers = {w1, w2}
    OnSale = {"monthly", "yearly"}
    Prices = {1}
    LegacyOrders = {}
    Reversals = {}
    MonthDays = 1
    YearDays = 2
    AdminPlans = {"free", "monthly", "yearly"}
    GrantDays = {1}
    FirstTrials = {Null}
    MaxDay = 2
    MaxCrashes = 1
SPECIFICATION Spec
SYMMETRY Symmetry
INVARIANTS
    BackedAccess
    AccessIsPaidFor
PROPERTIES
    ActivationNeverLowers
\* The clock, the orders and the crashes are bounded, so a run may come to its end.
CHECK_DEADLOCK FALSE
