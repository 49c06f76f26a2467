------------------------------ MODULE Billing ------------------------------
(***************************************************************************)
(* The billing core: core.users, core.subscriptions, core.coupons and the  *)
(* handlers that move them (payments/subscription_service.py,              *)
(* payments/router.py, the grant endpoint of admin/router.py, the sweep of *)
(* billing_hardening.sql).                                                 *)
(*                                                                         *)
(* Every request runs on a worker (an asyncio task with a pooled           *)
(* connection).  A worker's Postgres transaction is READ COMMITTED: its    *)
(* writes live in txn[w] until it commits, a plain SELECT reads what is    *)
(* committed when the statement runs, and an UPDATE or SELECT FOR UPDATE   *)
(* waits until no other worker holds the row and then looks at it again.   *)
(***************************************************************************)
EXTENDS Integers, FiniteSets

CONSTANTS
    Users,
    Orders,         \* order ids that create_order may hand out
    Grants,         \* ids of manual_grant_* subscription rows
    Coupons,        \* lifetime coupons; COUPON_<code> rows share their id
    CouponOwner,    \* the user whose email each coupon was issued to
    Workers,        \* requests that can be in flight together
    OnSale,         \* the plans that can be ordered
    Prices,         \* prices (amount with currency) a plan can be given
    LegacyOrders,   \* pending rows older than the expected_amount column
    Reversals,      \* reversals the gateway issues: "refunded", "disputed"
    MonthDays, YearDays,
    AdminPlans,     \* plans an admin sets by hand ("free" revokes)
    GrantDays,      \* durations an admin may choose
    FirstTrials,    \* trial_expires_at a user may start with
    MaxDay,         \* bound on the clock
    MaxCrashes,     \* bound on rolled back requests and restarts
    Null

VARIABLES
    now,            \* today, in days
    price,          \* core.subscription_plans.price_*
    users,          \* core.users: plan, plan_expires_at, trial_expires_at
    subs,           \* core.subscriptions
    coupons,        \* core.coupons.is_used
    gateway,        \* what Razorpay knows of each order
    txn,            \* the request each worker is serving
    crashes,
    activations,    \* history: how often a row was turned into a plan
    applied         \* history: rows whose plan was written to the user

vars == <<now, price, users, subs, coupons, gateway, txn, crashes,
          activations, applied>>
history == <<activations, applied>>

TimedPlans == {"monthly", "yearly"}
PaidPlans  == TimedPlans \cup {"lifetime"}
PLAN_RANK  == [free |-> 0, monthly |-> 1, yearly |-> 2, lifetime |-> 3]
PLAN_DURATIONS == [monthly |-> MonthDays, yearly |-> YearDays, lifetime |-> Null]

SubIds == Orders \cup Grants \cup Coupons

Claimable == {"pending", "failed"}           \* what activation may claim
Held      == {"active", "cancelled"}         \* in force until it expires
Reversed  == {"refunded", "disputed", "revoked"}
Revocable == Claimable \cup Held                   \* what a refund or dispute ends
Statuses  == {"none"} \cup Claimable \cup Held \cup Reversed \cup {"expired"}

ASSUME BillingAssumption ==
    /\ Orders \cap Grants = {} /\ Orders \cap Coupons = {} /\ Grants \cap Coupons = {}
    /\ Users \cap SubIds = {}
    /\ CouponOwner \in [Coupons -> Users]
    /\ OnSale \subseteq PaidPlans
    /\ LegacyOrders \subseteq Orders
    /\ Reversals \subseteq {"refunded", "disputed"}
    /\ MonthDays \in Nat \ {0} /\ YearDays \in Nat \ {0}
    /\ AdminPlans \subseteq PaidPlans \cup {"free"}
    /\ GrantDays \subseteq Nat \ {0}
    /\ FirstTrials \subseteq Nat \cup {Null}
    /\ MaxDay \in Nat /\ MaxCrashes \in Nat
    /\ Null \notin Nat /\ Null \notin Users /\ Null \notin SubIds
    /\ Null \notin Prices /\ Null \notin Statuses /\ Null \notin PaidPlans \cup {"free"}

----------------------------------------------------------------------------
(* Rows *)

NoSub == [status |-> "none", user |-> Null, plan |-> Null, expected |-> Null,
          expires |-> Null, refunded |-> 0]

NoTxn == [pc |-> "idle", sub |-> Null, user |-> Null, plan |-> Null,
          exp |-> Null, amount |-> Null, at |-> 0, live |-> "free", to |-> "none",
          locks |-> {}]

Idle(w)    == txn[w].pc = "idle"

(* Commit or rollback.  Mutated form: the connection goes back to the pool *)
(* with its transaction still open.                                        *)
LeftOpen(w) == txn' = [txn EXCEPT ![w].pc = "idle"]
Done(w)     == txn' = [txn EXCEPT ![w] = NoTxn]

(* No other transaction holds row r. *)
Free(w, r) == \A v \in Workers \ {w} : r \notin txn[v].locks

(* SELECT ... FOR UPDATE of the user's row.  Mutated form: a plain SELECT. *)
ReadUnlocked(w, u) == TRUE
ReadLocked(w, u)   == Free(w, u)

Unused(s)  == subs[s].status = "none" /\ \A v \in Workers : txn[v].sub # s

(* The paid plan in force at day d, "free" if there is none. *)
LivePlan(usr, d) ==
    IF \/ usr.plan = "lifetime"
       \/ usr.plan \in TimedPlans /\ usr.planExp # Null /\ usr.planExp > d
    THEN usr.plan ELSE "free"

(* A live trial ends on day d, an ended one keeps its history. *)
EndTrial(trialExp, d) ==
    IF trialExp # Null /\ trialExp > d THEN d ELSE trialExp

InForce(s, d) ==
    /\ subs[s].status \in Held
    /\ subs[s].expires = Null \/ subs[s].expires > d

InForceOf(u, d) == {s \in SubIds : subs[s].user = u /\ InForce(s, d)}

(* Order of _recompute_user_plan: rank, then the later expiry, NULL first. *)
(* Mutated form: the later expiry alone, NULL last.                        *)
LaterExpiry(s, t) ==
    subs[t].expires # Null => subs[s].expires # Null /\ subs[s].expires >= subs[t].expires

AtLeastAsGood(s, t) ==
    \/ PLAN_RANK[subs[s].plan] > PLAN_RANK[subs[t].plan]
    \/ /\ subs[s].plan = subs[t].plan
       /\ \/ subs[s].expires = Null
          \/ subs[t].expires # Null /\ subs[s].expires >= subs[t].expires

(* End of the time that `plan` buys at day d: on top of a live paid plan,  *)
(* or of a live trial, or from today.  Mutated form: always from today.    *)
ExpiryFromToday(usr, plan, d) ==
    IF plan = "lifetime" THEN Null ELSE d + PLAN_DURATIONS[plan]

StackedExpiry(usr, plan, d) ==
    LET base == IF LivePlan(usr, d) \in TimedPlans THEN usr.planExp
                ELSE IF usr.trialExp # Null /\ usr.trialExp > d THEN usr.trialExp
                ELSE d
    IN IF plan = "lifetime" THEN Null ELSE base + PLAN_DURATIONS[plan]

(* get_purchase_block: a lifetime holder buys nothing, nobody buys lower. *)
PurchaseBlocked(u, plan) ==
    LET live == LivePlan(users[u], now)
    IN live = "lifetime" \/ PLAN_RANK[plan] < PLAN_RANK[live]

(* The amount activation expects: the stored one, the current price for    *)
(* rows that never stored one.  Mutated form: always the current price.    *)
CurrentPrice(o) == price[subs[o].plan]

ExpectedAmount(o) ==
    IF subs[o].expected # Null THEN subs[o].expected ELSE price[subs[o].plan]

Activatable(o) ==
    subs[o].status \in Claimable /\ gateway[o].amount = ExpectedAmount(o)

----------------------------------------------------------------------------
NewOrder(u, p, expected) ==
    [NoSub EXCEPT !.status = "pending", !.user = u, !.plan = p, !.expected = expected]

Unpaid(amount) == [pay |-> "open", amount |-> amount, refunded |-> 0, disputed |-> FALSE]

NoPayment == [pay |-> "none", amount |-> Null, refunded |-> 0, disputed |-> FALSE]

Init ==
    /\ now = 0
    /\ price \in [OnSale -> Prices]
    /\ users \in [Users -> [plan : {"free"}, planExp : {Null}, trialExp : FirstTrials]]
    /\ \E owner \in [LegacyOrders -> Users], plan \in [LegacyOrders -> OnSale],
          st \in [LegacyOrders -> Claimable] :
         /\ subs = [s \in SubIds |->
                      IF s \in LegacyOrders
                      THEN [NewOrder(owner[s], plan[s], Null) EXCEPT !.status = st[s]]
                      ELSE NoSub]
         /\ gateway = [o \in Orders |-> IF o \in LegacyOrders
                                        THEN Unpaid(price[plan[o]]) ELSE NoPayment]
    /\ coupons = [c \in Coupons |-> "unused"]
    /\ txn = [w \in Workers |-> NoTxn]
    /\ crashes = 0
    /\ activations = [s \in SubIds |-> 0]
    /\ applied = {}

----------------------------------------------------------------------------
(* create_order: fresh price and purchase block, then the Razorpay order   *)
(* (an await), then the pending row.                                       *)

BeginOrder(w, o, u, p) ==
    /\ Idle(w) /\ Unused(o)
    /\ ~PurchaseBlocked(u, p)
    /\ txn' = [txn EXCEPT ![w] = [NoTxn EXCEPT !.pc = "insert", !.sub = o, !.user = u,
                                               !.plan = p, !.amount = price[p]]]
    /\ UNCHANGED <<now, price, users, subs, coupons, gateway, crashes, history>>

InsertOrder(w) ==
    LET t == txn[w] IN
    /\ t.pc = "insert"
    /\ subs' = [subs EXCEPT ![t.sub] = NewOrder(t.user, t.plan, t.amount)]
    /\ gateway' = [gateway EXCEPT ![t.sub] = Unpaid(t.amount)]
    /\ Done(w)
    /\ UNCHANGED <<now, price, users, coupons, crashes, history>>

----------------------------------------------------------------------------
(* activate_subscription *)

(* The unlocked read of the order row.  Mutated form: the user's row is    *)
(* locked first.                                                           *)
UserLockedFirst(w, o) ==
    /\ Free(w, subs[o].user)
    /\ txn' = [txn EXCEPT ![w] = [NoTxn EXCEPT !.pc = "claim", !.sub = o,
                                               !.user = subs[o].user, !.plan = subs[o].plan,
                                               !.locks = {subs[o].user}]]

StartActivation(w, o) ==
    txn' = [txn EXCEPT ![w] = [NoTxn EXCEPT !.pc = "claim", !.sub = o,
                                            !.user = subs[o].user, !.plan = subs[o].plan]]

(* Mutated form of Captured: an authorized payment counts as paid. *)
Attempted(o) == gateway[o].pay \in {"authorized", "captured"}
Captured(o)  == gateway[o].pay = "captured"

(* payment.captured / order.paid, delivered any number of times. *)
CapturedWebhook(w, o) ==
    /\ Idle(w)
    /\ Captured(o)
    /\ Activatable(o)
    /\ StartActivation(w, o)
    /\ UNCHANGED <<now, price, users, subs, coupons, gateway, crashes, history>>

(* /verify-payment and /verify-order: _settle_order asks the gateway, and  *)
(* captures an authorized payment itself.                                  *)
Settle(w, o) ==
    /\ Idle(w)
    /\ o \notin LegacyOrders
    /\ gateway[o].pay \in {"authorized", "captured"}
    /\ gateway' = [gateway EXCEPT ![o].pay = "captured"]
    /\ \/ Activatable(o) /\ StartActivation(w, o)
       \/ ~Activatable(o) /\ UNCHANGED txn
    /\ UNCHANGED <<now, price, users, subs, coupons, crashes, history>>

(* Mutated form: the status read before the lock is trusted. *)
StatusAsRead(t)   == TRUE
StillClaimable(t) == subs[t.sub].status \in Claimable

(* UPDATE ... WHERE status IN ('pending','failed'): once the row is free   *)
(* its status is looked at again; not claimed means already_processed.     *)
Claim(w) ==
    LET t == txn[w] IN
    /\ t.pc = "claim"
    /\ Free(w, t.sub)
    /\ \/ /\ StillClaimable(t)
          /\ txn' = [txn EXCEPT ![w].pc = "lockUser", ![w].locks = {t.sub}]
       \/ ~StillClaimable(t) /\ Done(w)
    /\ UNCHANGED <<now, price, users, subs, coupons, gateway, crashes, history>>

(* SELECT plan, plan_expires_at, trial_expires_at ... FOR UPDATE *)
LockUser(w) ==
    LET t == txn[w] IN
    /\ t.pc = "lockUser"
    /\ ReadLocked(w, t.user)
    /\ txn' = [txn EXCEPT ![w].pc = "activate", ![w].at = now,
                          ![w].exp = StackedExpiry(users[t.user], t.plan, now),
                          ![w].live = LivePlan(users[t.user], now),
                          ![w].locks = @ \cup {t.user}]
    /\ UNCHANGED <<now, price, users, subs, coupons, gateway, crashes, history>>

(* The row becomes active; the user gets the plan unless that lowers it. *)
CommitActivation(w) ==
    LET t == txn[w] IN
    /\ t.pc = "activate"
    /\ subs' = [subs EXCEPT ![t.sub].status = "active", ![t.sub].expires = t.exp]
    /\ activations' = [activations EXCEPT ![t.sub] = @ + 1]
    /\ \/ /\ PLAN_RANK[t.plan] >= PLAN_RANK[t.live]
          /\ users' = [users EXCEPT ![t.user].plan = t.plan, ![t.user].planExp = t.exp,
                                    ![t.user].trialExp = EndTrial(@, t.at)]
          /\ applied' = applied \cup {t.sub}
       \/ /\ PLAN_RANK[t.plan] < PLAN_RANK[t.live]
          /\ UNCHANGED <<users, applied>>
    /\ Done(w)
    /\ UNCHANGED <<now, price, coupons, gateway, crashes>>

----------------------------------------------------------------------------
(* revoke_subscription on a full refund or a dispute *)

Issued(o, kind) ==
    \/ kind = "refunded" /\ gateway[o].refunded = 2
    \/ kind = "disputed" /\ gateway[o].disputed

BeginRevoke(w, o, kind) ==
    /\ Idle(w)
    /\ Issued(o, kind)
    /\ Free(w, o)
    /\ subs[o].status \in Revocable
    /\ txn' = [txn EXCEPT ![w] = [NoTxn EXCEPT !.pc = "readBest", !.sub = o, !.to = kind,
                                               !.user = subs[o].user, !.at = now,
                                               !.locks = {o}]]
    /\ UNCHANGED <<now, price, users, subs, coupons, gateway, crashes, history>>

(* Its own UPDATE already ended the reversed row. *)
StillInForce(t) == InForceOf(t.user, t.at) \ {t.sub}

(* _recompute_user_plan, its SELECT: the user's row is not locked. *)
ReadBest(w) ==
    LET t == txn[w]
        others == StillInForce(t)
    IN
    /\ t.pc = "readBest"
    /\ \/ /\ others = {}
          /\ txn' = [txn EXCEPT ![w].pc = "revoke", ![w].plan = "free", ![w].exp = Null]
       \/ \E s \in others :
             /\ \A o \in others : AtLeastAsGood(s, o)
             /\ txn' = [txn EXCEPT ![w].pc = "revoke", ![w].plan = subs[s].plan,
                                   ![w].exp = subs[s].expires]
    /\ UNCHANGED <<now, price, users, subs, coupons, gateway, crashes, history>>

(* _recompute_user_plan, its UPDATE, which waits for the user's row. *)
CommitRevoke(w) ==
    LET t == txn[w] IN
    /\ t.pc = "revoke"
    /\ Free(w, t.user)
    /\ subs' = [subs EXCEPT ![t.sub].status = t.to,
                            ![t.sub].refunded = IF t.to = "refunded" THEN 2 ELSE @]
    /\ users' = [users EXCEPT ![t.user].plan = t.plan, ![t.user].planExp = t.exp]
    /\ Done(w)
    /\ UNCHANGED <<now, price, coupons, gateway, crashes, history>>

(* Mutated form of Greatest: the last event wins. *)
Newest(old, new)   == new
Greatest(old, new) == IF old > new THEN old ELSE new

(* refund.processed below the charged amount: one UPDATE with GREATEST. *)
RecordPartialRefund(o) ==
    /\ gateway[o].refunded >= 1
    /\ \A w \in Workers : o \notin txn[w].locks
    /\ subs' = [subs EXCEPT ![o].refunded = Greatest(@, 1)]
    /\ UNCHANGED <<now, price, users, coupons, gateway, txn, crashes, history>>

----------------------------------------------------------------------------
(* /cancel: one UPDATE over the user's running timed subscriptions *)

Cancellable(u) ==
    {s \in InForceOf(u, now) : /\ subs[s].status = "active"
                               /\ subs[s].plan # "lifetime" /\ subs[s].expires # Null}

Cancel(u) ==
    /\ Cancellable(u) # {}
    /\ \A s \in Cancellable(u), w \in Workers : s \notin txn[w].locks
    /\ subs' = [s \in SubIds |-> IF s \in Cancellable(u)
                                 THEN [subs[s] EXCEPT !.status = "cancelled"] ELSE subs[s]]
    /\ UNCHANGED <<now, price, users, coupons, gateway, txn, crashes, history>>

----------------------------------------------------------------------------
(* grant_admin_subscription: the user's row first, then the rows it revokes *)

BeginGrant(w, g, u, p, days, allowDowngrade) ==
    LET live  == LivePlan(users[u], now)
        lower == PLAN_RANK[p] < PLAN_RANK[live]
    IN
    /\ Idle(w)
    /\ IF p = "free" THEN g = Null ELSE g # Null /\ Unused(g)
    /\ ReadLocked(w, u)
    /\ p = "free" \/ ~lower \/ allowDowngrade
    /\ txn' = [txn EXCEPT ![w] =
                 [NoTxn EXCEPT !.pc = "grant", !.sub = g, !.user = u, !.plan = p,
                               !.exp = IF p \in TimedPlans THEN now + days ELSE Null,
                               !.to = IF p = "free" \/ lower THEN "revoked" ELSE "none",
                               !.at = now, !.locks = {u}]]
    /\ UNCHANGED <<now, price, users, subs, coupons, gateway, crashes, history>>

(* Rows revoke_user_subscriptions ends. *)
GrantVictims(t) ==
    IF t.to = "revoked"
    THEN {s \in SubIds : subs[s].user = t.user /\ subs[s].status \in Held} ELSE {}

(* With every held row revoked _recompute_user_plan finds none: 'free'. *)
CommitGrant(w) ==
    LET t   == txn[w]
        row == [NoSub EXCEPT !.status = "active", !.user = t.user, !.plan = t.plan,
                             !.expires = t.exp]
    IN
    /\ t.pc = "grant"
    /\ \A s \in GrantVictims(t) : Free(w, s)
    /\ subs' = [s \in SubIds |->
                  IF s \in GrantVictims(t) THEN [subs[s] EXCEPT !.status = "revoked"]
                  ELSE IF s = t.sub THEN row ELSE subs[s]]
    /\ users' = [users EXCEPT ![t.user].plan = t.plan, ![t.user].planExp = t.exp,
                              ![t.user].trialExp = EndTrial(@, t.at)]
    /\ activations' = [s \in SubIds |-> activations[s] + IF s = t.sub THEN 1 ELSE 0]
    /\ applied' = applied \cup ({t.sub} \ {Null})
    /\ Done(w)
    /\ UNCHANGED <<now, price, coupons, gateway, crashes>>

----------------------------------------------------------------------------
(* redeem_coupon: coupon row FOR UPDATE, then the user's row *)

BeginRedeem(w, c) ==
    /\ Idle(w)
    /\ Free(w, c)
    /\ coupons[c] = "unused"
    /\ txn' = [txn EXCEPT ![w] = [NoTxn EXCEPT !.pc = "redeem", !.sub = c,
                                               !.user = CouponOwner[c], !.plan = "lifetime",
                                               !.at = now, !.locks = {c}]]
    /\ UNCHANGED <<now, price, users, subs, coupons, gateway, crashes, history>>

CommitRedeem(w) ==
    LET t   == txn[w]
        row == [NoSub EXCEPT !.status = "active", !.user = t.user, !.plan = t.plan]
    IN
    /\ t.pc = "redeem"
    /\ Free(w, t.user)
    /\ coupons' = [coupons EXCEPT ![t.sub] = "used"]
    /\ subs' = [subs EXCEPT ![t.sub] = IF @.status = "none" THEN row ELSE @]
    /\ users' = [users EXCEPT ![t.user].plan = t.plan, ![t.user].planExp = Null,
                              ![t.user].trialExp = EndTrial(@, t.at)]
    /\ activations' = [activations EXCEPT ![t.sub] = @ + 1]
    /\ applied' = applied \cup {t.sub}
    /\ Done(w)
    /\ UNCHANGED <<now, price, gateway, crashes>>

----------------------------------------------------------------------------
(* Failures.  An exception, a lost connection or a deadlock rolls one      *)
(* transaction back; a restart rolls all of them back and runs the sweep.  *)

Abort(w) ==
    /\ ~Idle(w)
    /\ crashes < MaxCrashes
    /\ crashes' = crashes + 1
    /\ Done(w)
    /\ UNCHANGED <<now, price, users, subs, coupons, gateway, history>>

(* The rows a worker is waiting for before it can take its next step. *)
Wants(w) ==
    LET t == txn[w] IN
    CASE t.pc = "claim" -> {t.sub}
      [] t.pc \in {"lockUser", "revoke", "redeem"} -> {t.user}
      [] t.pc = "grant" -> GrantVictims(t)
      [] OTHER -> {}

WaitsFor(w) == {v \in Workers \ {w} : Wants(w) \cap txn[v].locks # {}}

(* A cycle of waiting transactions that w is part of. *)
InLockCycle(w) ==
    \E S \in SUBSET Workers :
        /\ w \in S
        /\ \A x \in S : WaitsFor(x) \cap S # {} /\ \E y \in S : x \in WaitsFor(y)

(* Postgres breaks the cycle by failing one of its transactions. *)
DeadlockVictim(w) ==
    /\ InLockCycle(w)
    /\ Done(w)
    /\ UNCHANGED <<now, price, users, subs, coupons, gateway, crashes, history>>

(* core.expire_stale_subscriptions().  Mutated form: cancelled rows are    *)
(* ended before the time they were paid for is over.                       *)
CancelledIsStale(s) ==
    \/ subs[s].status = "cancelled"
    \/ subs[s].status = "active" /\ subs[s].expires # Null /\ subs[s].expires < now

Stale(s) == subs[s].status \in Held /\ subs[s].expires # Null /\ subs[s].expires < now

Lapsed(u) ==
    /\ users[u].plan \in TimedPlans
    /\ users[u].planExp # Null /\ users[u].planExp < now
    /\ InForceOf(u, now) = {}

Sweep ==
    /\ subs' = [s \in SubIds |-> IF Stale(s) THEN [subs[s] EXCEPT !.status = "expired"]
                                 ELSE subs[s]]
    /\ users' = [u \in Users |-> IF Lapsed(u)
                                 THEN [users[u] EXCEPT !.plan = "free", !.planExp = Null]
                                 ELSE users[u]]

Restart ==
    /\ crashes < MaxCrashes
    /\ crashes' = crashes + 1
    /\ txn' = [w \in Workers |-> NoTxn]
    /\ Sweep
    /\ UNCHANGED <<now, price, coupons, gateway, history>>

----------------------------------------------------------------------------
(* The gateway, the CMS and the clock *)

Pay(o) ==
    /\ gateway[o].pay = "open"
    /\ gateway' = [gateway EXCEPT ![o].pay = "authorized"]
    /\ UNCHANGED <<now, price, users, subs, coupons, txn, crashes, history>>

AutoCapture(o) ==
    /\ gateway[o].pay = "authorized"
    /\ gateway' = [gateway EXCEPT ![o].pay = "captured"]
    /\ UNCHANGED <<now, price, users, subs, coupons, txn, crashes, history>>

Refund(o, total) ==
    /\ "refunded" \in Reversals
    /\ gateway[o].pay = "captured" /\ o \notin LegacyOrders
    /\ total > gateway[o].refunded
    /\ gateway' = [gateway EXCEPT ![o].refunded = total]
    /\ UNCHANGED <<now, price, users, subs, coupons, txn, crashes, history>>

Dispute(o) ==
    /\ "disputed" \in Reversals
    /\ gateway[o].pay = "captured" /\ ~gateway[o].disputed
    /\ gateway' = [gateway EXCEPT ![o].disputed = TRUE]
    /\ UNCHANGED <<now, price, users, subs, coupons, txn, crashes, history>>

(* update_admin_plan: orders already open keep the amount they stored. *)
ChangePrice(p, amount) ==
    /\ price[p] # amount
    /\ price' = [price EXCEPT ![p] = amount]
    /\ UNCHANGED <<now, users, subs, coupons, gateway, txn, crashes, history>>

Tick ==
    /\ now < MaxDay
    /\ now' = now + 1
    /\ UNCHANGED <<price, users, subs, coupons, gateway, txn, crashes, history>>

----------------------------------------------------------------------------
(* A step of the request that worker w is serving. *)
Continue(w) ==
    \/ InsertOrder(w)
    \/ Claim(w) \/ LockUser(w) \/ CommitActivation(w)
    \/ ReadBest(w) \/ CommitRevoke(w)
    \/ CommitGrant(w)
    \/ CommitRedeem(w)

Request(w) ==
    \/ \E o \in Orders, u \in Users, p \in OnSale : BeginOrder(w, o, u, p)
    \/ \E o \in Orders : CapturedWebhook(w, o) \/ Settle(w, o)
    \/ \E o \in Orders, kind \in Reversals : BeginRevoke(w, o, kind)
    \/ \E g \in Grants \cup {Null}, u \in Users, p \in AdminPlans, d \in GrantDays,
          allow \in BOOLEAN : BeginGrant(w, g, u, p, d, allow)
    \/ \E c \in Coupons : BeginRedeem(w, c)

Environment ==
    \/ \E o \in Orders : Pay(o) \/ AutoCapture(o) \/ Dispute(o) \/ RecordPartialRefund(o)
    \/ \E o \in Orders, total \in 1..2 : Refund(o, total)
    \/ \E p \in OnSale, amount \in Prices : ChangePrice(p, amount)
    \/ \E u \in Users : Cancel(u)
    \/ Tick

Failure == Restart \/ \E w \in Workers : Abort(w) \/ DeadlockVictim(w)

Next == Environment \/ Failure \/ \E w \in Workers : Request(w) \/ Continue(w)

Spec == Init /\ [][Next]_vars

----------------------------------------------------------------------------
(* Fairness: a running request is given its turns; Postgres hands a row     *)
(* lock to its waiters in the order they came, so none waits for ever       *)
(* behind later ones, and resolves deadlocks; the gateway redelivers        *)
(* payment.captured until it is answered.                                   *)
Fairness ==
    /\ \A w \in Workers : SF_vars(Continue(w)) /\ WF_vars(DeadlockVictim(w))
    /\ \A o \in Orders : SF_vars(\E w \in Workers : CapturedWebhook(w, o))

FairSpec == Spec /\ Fairness

----------------------------------------------------------------------------
(* Properties *)

Day == Nat \cup {Null}

SubRow == [status : Statuses, user : Users \cup {Null}, plan : PaidPlans \cup {Null},
           expected : Prices \cup {Null}, expires : Day, refunded : 0..2]

UserRow == [plan : PaidPlans \cup {"free"}, planExp : Day, trialExp : Day]

GatewayOrder == [pay : {"none", "open", "authorized", "captured"},
                 amount : Prices \cup {Null}, refunded : 0..2, disputed : BOOLEAN]

Txn == [pc : {"idle", "insert", "claim", "lockUser", "activate", "readBest", "revoke",
              "grant", "redeem"},
        sub : SubIds \cup {Null}, user : Users \cup {Null},
        plan : PaidPlans \cup {"free", Null}, exp : Day, amount : Prices \cup {Null},
        at : Nat, live : PaidPlans \cup {"free"}, to : Statuses,
        locks : SUBSET (SubIds \cup Users)]

(* The promise of core.subscriptions that this module implements. *)
Lifecycle == INSTANCE OrderLifecycle WITH
    Rows <- SubIds, Purchased <- Orders,
    status <- [s \in SubIds |-> subs[s].status],
    paid <- {o \in Orders : gateway[o].pay = "captured"},
    given <- {s \in SubIds : activations[s] > 0}

(* Every row, request and counter has its shape. *)
TypeOK ==
    /\ now \in Nat
    /\ price \in [OnSale -> Prices]
    /\ users \in [Users -> UserRow]
    /\ subs \in [SubIds -> SubRow]
    /\ coupons \in [Coupons -> {"unused", "used"}]
    /\ gateway \in [Orders -> GatewayOrder]
    /\ txn \in [Workers -> Txn]
    /\ crashes \in Nat
    /\ activations \in [SubIds -> Nat]
    /\ applied \in SUBSET SubIds

(* An order is turned into a plan at most once, and a coupon is redeemed at *)
(* most once, however often webhook, /verify-order and retries race         *)
(* (activate_subscription, redeem_coupon).                                  *)
ExactlyOnce == \A s \in SubIds : activations[s] <= 1

(* Rows only move along their life cycle, and an order becomes a plan once  *)
(* and only after its payment was captured (refinement of OrderLifecycle).  *)
ImplementsLifecycle == Lifecycle!Spec

(* The commit of an activation never lowers the plan its user holds at that *)
(* moment, never brings its end forward and never wastes a running trial,   *)
(* whatever else committed while it ran (activate_subscription).            *)
ActivationNeverLowers ==
    [][\A s \in Orders : activations'[s] # activations[s] =>
         LET old  == users[subs[s].user]
             new  == users'[subs[s].user]
             live == LivePlan(old, now)
         IN /\ PLAN_RANK[new.plan] >= PLAN_RANK[live]
            /\ live # "free" => \/ new.planExp = Null
                                \/ old.planExp # Null /\ new.planExp >= old.planExp
            /\ old.trialExp # Null /\ old.trialExp > now =>
                  new.planExp = Null \/ new.planExp > old.trialExp]_vars

(* A paid plan in force is always the plan of a subscription in force with  *)
(* the same end: nobody keeps access no order, grant or coupon gives.       *)
BackedAccess ==
    \A u \in Users : LivePlan(users[u], now) # "free" =>
        \E s \in InForceOf(u, now) : /\ subs[s].plan = users[u].plan
                                     /\ subs[s].expires = users[u].planExp

(* A subscription in force whose plan was given to its user still gives the *)
(* user that plan or a higher one (_recompute_user_plan, the sweep).        *)
AppliedKeepsAccess ==
    \A s \in applied : InForce(s, now) =>
        PLAN_RANK[LivePlan(users[subs[s].user], now)] >= PLAN_RANK[subs[s].plan]

(* The days that the rows of S pay for, lifetime rows left out. *)
Duration(S) ==
      MonthDays * Cardinality({s \in S : subs[s].plan = "monthly"})
    + YearDays * Cardinality({s \in S : subs[s].plan = "yearly"})

(* Orders of u whose plan was given to u and that were not reversed. *)
Kept(u) == {s \in Orders \cap applied : subs[s].user = u /\ subs[s].status \in Held \cup {"expired"}}

(* Paid time is never discarded: the orders given to a user who never had  *)
(* a lifetime plan reach at least as far as their durations laid end to    *)
(* end (activate_subscription; an order below the plan held is not given). *)
PaidTimeKept ==
    \A u \in Users :
        LET kept == Kept(u) IN
        /\ \A s \in SubIds : subs[s].user = u => subs[s].plan # "lifetime"
        /\ kept # {}
        => \E s \in kept : subs[s].expires >= Duration(kept)

(* A timed plan in force lasts no longer than the orders, grants and        *)
(* coupons in force provide, a row counting for the days of its plan: no    *)
(* payment and no grant is counted twice (StackedExpiry, Claim). A refund   *)
(* breaks it: the order stacked on the refunded one keeps the refunded days *)
(* (_recompute_user_plan), though revoke_subscription is to end the access  *)
(* an order gave.                                                           *)
AccessIsPaidFor ==
    \A u \in Users : LivePlan(users[u], now) \in TimedPlans =>
        users[u].planExp - now <= Duration(InForceOf(u, now))

(* The refunded amount on record never goes down, in whatever order the     *)
(* refund events arrive (razorpay_webhook, revoke_subscription).            *)
RefundNeverForgotten ==
    [][\A o \in Orders : subs'[o].refunded >= subs[o].refunded]_vars

(* Requests never wait for each other in a circle. *)
NoLockCycle == \A w \in Workers : ~InLockCycle(w)

(* An order captured for the amount it was created with is eventually       *)
(* turned into a plan or reversed, price changes and crashes included.      *)
PaidIsSettled ==
    \A o \in Orders \ LegacyOrders :
        gateway[o].pay = "captured" ~> subs[o].status \notin Claimable

(* Every request ends: lock waits, deadlocks included, are resolved. *)
RequestsFinish == \A w \in Workers : ~Idle(w) ~> Idle(w)
=============================================================================
