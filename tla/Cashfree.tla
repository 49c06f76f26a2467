------------------------------ MODULE Cashfree ------------------------------
(***************************************************************************)
(* The webhook of the former gateway (payments/cashfree_legacy.py): late   *)
(* successes, refunds and disputes of orders paid through Cashfree. An     *)
(* event tells of one refund, not of the total, and its handler reads what *)
(* was paid before it opens the transaction that revokes. Events come      *)
(* late, repeatedly and in any order. What an activation or a revocation   *)
(* does to the plan of the user is in Billing.                             *)
(***************************************************************************)
EXTENDS Platform, FiniteSetsExt

CONSTANTS
    OldOrders,  \* orders created before the switch to Razorpay
    Charge,     \* what the customer paid for each
    PlanPrices, \* prices the plan of these orders is given
    RefundIds   \* refunds Cashfree may make

ASSUME CashfreeAssumption ==
    /\ Charge \in [OldOrders -> Nat \ {0}]
    /\ PlanPrices \subseteq Nat \ {0}
    /\ OldOrders \cap RefundIds = {}
    /\ Null \notin Nat /\ Null \notin OldOrders /\ Null \notin RefundIds

VARIABLES
    orders,     \* their rows of core.subscriptions
    planPrice,  \* core.subscription_plans.price_inr
    refunds,    \* what Cashfree gave back, and of which order
    handler,    \* the refund event each worker handles, what it is compared with
    reversed    \* history: refunds, and orders in dispute, whose event was answered

cashfreeVars == <<orders, planPrice, refunds, handler, reversed>>

Activates == {"pending", "failed"}
InUse     == {"active", "cancelled"}

(* WHERE status IN (...) of revoke_subscription. Mutated form: an order    *)
(* that gives no access has nothing to revoke.                             *)
RevokesInUse == InUse
Revokes      == Activates \cup InUse

NoRefund  == [of |-> Null, amount |-> 0]
NoHandler == [refund |-> Null, due |-> 0]

(* The amount stored with the order, or today's price for a row older than *)
(* that column.                                                            *)
AmountOf(o) == IF orders[o].expected # Null THEN orders[o].expected ELSE planPrice

(* What Cashfree gave back of o by the refunds in S.                       *)
Returned(o, S) == MapThenSumSet(LAMBDA r : refunds[r].amount, {r \in S : refunds[r].of = o})

(* Orders that were paid: their success event is still to come, or came.   *)
CashfreeInit ==
    /\ planPrice \in PlanPrices
    /\ \E st \in [OldOrders -> Activates \cup InUse], stored \in SUBSET OldOrders :
           orders = [o \in OldOrders |->
                       [status |-> st[o], expected |-> IF o \in stored THEN Charge[o] ELSE Null,
                        paid |-> IF st[o] \in InUse THEN Charge[o] ELSE 0, refunded |-> 0]]
    /\ refunds = [r \in RefundIds |-> NoRefund]
    /\ handler = [w \in Workers |-> NoHandler]
    /\ reversed = {}

----------------------------------------------------------------------------
(* PAYMENT_SUCCESS_WEBHOOK: activate_subscription, one transaction.        *)
PaymentSuccess(o) ==
    /\ orders[o].status \in Activates
    /\ AmountOf(o) = Charge[o]
    /\ orders' = [orders EXCEPT ![o].status = "active", ![o].paid = Charge[o]]
    /\ UNCHANGED <<planPrice, refunds, handler, reversed>>

(* REFUND_STATUS_WEBHOOK with SUCCESS: the SELECT.                         *)
ReadPaid(w, r) ==
    LET o == refunds[r].of IN
    /\ handler[w] = NoHandler /\ o # Null
    /\ handler' = [handler EXCEPT ![w] =
           [refund |-> r, due |-> IF orders[o].paid > 0 THEN orders[o].paid ELSE AmountOf(o)]]
    /\ UNCHANGED <<orders, planPrice, refunds, reversed>>

AnswerRefund(w) ==
    /\ reversed' = reversed \cup {handler[w].refund}
    /\ handler' = [handler EXCEPT ![w] = NoHandler]
    /\ UNCHANGED <<planPrice, refunds>>

(* A refund of all that is due: revoke_subscription.                       *)
FullRefund(w) ==
    LET f == refunds[handler[w].refund] IN
    /\ handler[w] # NoHandler
    /\ f.amount >= handler[w].due
    /\ orders' = IF orders[f.of].status \in Revokes
                 THEN [orders EXCEPT ![f.of].status = "refunded", ![f.of].refunded = f.amount]
                 ELSE orders
    /\ AnswerRefund(w)

(* A smaller one: UPDATE with GREATEST.                                    *)
PartialRefund(w) ==
    LET f == refunds[handler[w].refund] IN
    /\ handler[w] # NoHandler
    /\ f.amount < handler[w].due
    /\ orders' = [orders EXCEPT ![f.of].refunded = IF @ > f.amount THEN @ ELSE f.amount]
    /\ AnswerRefund(w)

(* The process stops: Cashfree sends the event again.                      *)
EventLost(w) ==
    /\ handler[w] # NoHandler
    /\ handler' = [handler EXCEPT ![w] = NoHandler]
    /\ UNCHANGED <<orders, planPrice, refunds, reversed>>

DisputeCreated(o) ==
    /\ orders' = IF orders[o].status \in Revokes
                 THEN [orders EXCEPT ![o].status = "disputed"] ELSE orders
    /\ reversed' = reversed \cup {o}
    /\ UNCHANGED <<planPrice, refunds, handler>>

----------------------------------------------------------------------------
(* The gateway, the CMS and the sweep                                      *)

MakeRefund(r, o, amount) ==
    /\ refunds[r] = NoRefund
    /\ Returned(o, RefundIds) + amount <= Charge[o]
    /\ refunds' = [refunds EXCEPT ![r] = [of |-> o, amount |-> amount]]
    /\ UNCHANGED <<orders, planPrice, handler, reversed>>

RepricePlan(amount) ==
    /\ planPrice' = amount
    /\ UNCHANGED <<orders, refunds, handler, reversed>>

Expires(o) ==
    /\ orders[o].status \in InUse
    /\ orders' = [orders EXCEPT ![o].status = "expired"]
    /\ UNCHANGED <<planPrice, refunds, handler, reversed>>

CashfreeNext ==
    \/ \E o \in OldOrders : PaymentSuccess(o) \/ DisputeCreated(o) \/ Expires(o)
    \/ \E w \in Workers : \/ \E r \in RefundIds : ReadPaid(w, r)
                          \/ FullRefund(w) \/ PartialRefund(w) \/ EventLost(w)
    \/ \E r \in RefundIds, o \in OldOrders : \E amount \in 1..Charge[o] : MakeRefund(r, o, amount)
    \/ \E amount \in PlanPrices : RepricePlan(amount)

CashfreeSpec == CashfreeInit /\ [][CashfreeNext]_cashfreeVars

----------------------------------------------------------------------------
(* An order whose amount was stored and whose whole price was given back   *)
(* by one refund, or that is in dispute, gives no access any more once the *)
(* event is answered: not even when the success of its payment arrives     *)
(* later than that (revoke_subscription, activate_subscription).           *)
EndedForGood ==
    \A o \in OldOrders :
        /\ \/ o \in reversed
           \/ /\ orders[o].expected # Null
              /\ \E r \in reversed \cap RefundIds : refunds[r] = [of |-> o, amount |-> Charge[o]]
        => orders[o].status \notin InUse
=============================================================================
