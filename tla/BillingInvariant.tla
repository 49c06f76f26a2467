-------------------------- MODULE BillingInvariant --------------------------
(***************************************************************************)
(* The inductive invariant behind the theorems of BillingProofs, stated    *)
(* apart from the proofs so that TLC can check it first.                   *)
(***************************************************************************)
EXTENDS Billing

(* A row is locked by one request at a time. *)
LocksExclusive ==
    \A v, w \in Workers : v # w => txn[v].locks \cap txn[w].locks = {}

(* What a subscription row says of itself. *)
RowsSound ==
    \A s \in SubIds :
        /\ subs[s].status = "none" <=> subs[s].user = Null
        /\ subs[s].status # "none" => subs[s].plan \in PaidPlans
        /\ subs[s].status \in Claimable =>
              s \in Orders /\ subs[s].plan \in OnSale
        /\ subs[s].status \in {"none"} \cup Claimable => activations[s] = 0

(* Nobody can pay for an order that was never stored. *)
UnstoredUnpaid ==
    \A o \in Orders : subs[o].status = "none" => gateway[o].pay = "none"

UnusedCoupons == \A c \in Coupons : coupons[c] = "unused" <=> subs[c].status = "none"

(* An id taken for a new row belongs to the request that took it. *)
NewIdsExclusive ==
    \A v, w \in Workers :
        v # w /\ txn[w].pc \in {"insert", "grant"} /\ txn[w].sub # Null =>
            txn[v].sub # txn[w].sub

(* What each request knows at each of its steps; `t` is a row of txn. *)
InsertInv(t) ==
    t.pc = "insert" => /\ t.sub \in Orders /\ subs[t.sub].status = "none"
                       /\ t.user \in Users /\ t.plan \in OnSale

ClaimInv(t) ==
    t.pc \in {"claim", "lockUser", "activate"} =>
        /\ t.sub \in Orders /\ gateway[t.sub].pay = "captured"
        /\ t.user \in Users /\ t.plan \in OnSale
        /\ subs[t.sub].user = t.user /\ subs[t.sub].plan = t.plan

ClaimedInv(t) ==
    t.pc \in {"lockUser", "activate"} =>
        t.sub \in t.locks /\ subs[t.sub].status \in Claimable

ActivateInv(t) ==
    t.pc = "activate" =>
        /\ t.user \in t.locks /\ t.at <= now
        /\ t.live = LivePlan(users[t.user], t.at)
        /\ t.exp = StackedExpiry(users[t.user], t.plan, t.at)

RevokeInv(t) ==
    t.pc \in {"readBest", "revoke"} =>
        /\ t.sub \in Orders /\ t.sub \in t.locks /\ t.user \in Users
        /\ subs[t.sub].status \in Claimable \cup Held
        /\ t.to \in {"refunded", "disputed"}
        /\ t.pc = "revoke" => t.plan # Null

GrantInv(t) ==
    t.pc = "grant" =>
        /\ t.user \in Users /\ t.user \in t.locks /\ t.plan # Null
        /\ IF t.plan = "free" THEN t.sub = Null
           ELSE t.sub \in Grants /\ subs[t.sub].status = "none"

RedeemInv(t) ==
    t.pc = "redeem" =>
        /\ t.sub \in Coupons /\ t.sub \in t.locks /\ coupons[t.sub] = "unused"
        /\ t.user \in Users /\ t.plan = "lifetime"

(* A request holds the row of a subscription or a coupon it works on, and  *)
(* the row of a user only while it activates or grants.                    *)
HoldsInv(t) ==
    /\ t.pc \in {"idle", "insert", "claim"} => t.locks = {}
    /\ t.locks \cap Users # {} => t.pc \in {"activate", "grant"}

TxnInv(t) ==
    /\ InsertInv(t) /\ ClaimInv(t) /\ ClaimedInv(t) /\ ActivateInv(t)
    /\ RevokeInv(t) /\ GrantInv(t) /\ RedeemInv(t) /\ HoldsInv(t)

IInv ==
    /\ TypeOK
    /\ LocksExclusive /\ RowsSound /\ UnstoredUnpaid /\ UnusedCoupons
    /\ NewIdsExclusive
    /\ \A w \in Workers : TxnInv(txn[w])
    /\ ExactlyOnce

----------------------------------------------------------------------------
(* What the theorems on refunds, activations and access need besides. *)

BlankRows == \A s \in SubIds : subs[s].status = "none" => subs[s] = NoSub

RefundsPaid == \A o \in Orders : gateway[o].refunded > 0 => gateway[o].pay = "captured"

(* A trial is over for good once a subscription of its user was in force.  *)
TrialOver(u) == users[u].trialExp = Null \/ users[u].trialExp <= now

TrialsEnded ==
    /\ \A u \in Users : users[u].plan # "free" => TrialOver(u)
    /\ \A s \in SubIds : subs[s].status \in Held => TrialOver(subs[s].user)
    /\ \A w \in Workers : txn[w].pc = "revoke" /\ txn[w].plan # "free" => TrialOver(txn[w].user)

(* No request has read a clock that is ahead of today. *)
ReadBefore == \A w \in Workers : txn[w].at <= now

(* A timed plan has an end, a lifetime plan and no plan have none. *)
Ends(plan, end) == plan \in TimedPlans <=> end # Null

EndsKnown ==
    /\ \A u \in Users : Ends(users[u].plan, users[u].planExp)
    /\ \A s \in SubIds : subs[s].status \in Held => Ends(subs[s].plan, subs[s].expires)
    /\ \A w \in Workers : txn[w].pc \in {"activate", "revoke", "grant"} =>
          Ends(txn[w].plan, txn[w].exp)

RowsInv == BlankRows /\ RefundsPaid /\ ReadBefore /\ TrialsEnded /\ EndsKnown

(* The plan a user holds covers every subscription in force that was given *)
(* to the user: no lower plan, no earlier end.                             *)
Covers(usr, row) ==
    /\ PLAN_RANK[usr.plan] >= PLAN_RANK[row.plan]
    /\ usr.planExp # Null => row.expires # Null /\ usr.planExp >= row.expires

AppliedCovered ==
    \A s \in applied : InForce(s, now) => Covers(users[subs[s].user], subs[s])

(* Where payments are reversed, one request at a time: coupons last, so    *)
(* that nothing above a year is taken back; a year is below a higher plan  *)
(* only; a higher plan ends no earlier than the lower ones below it; and   *)
(* what a reversal is about to write covers what it leaves in force.       *)
OwnsCoupon(u) == \E c \in Coupons : subs[c].user = u

CouponsLast ==
    /\ \A s \in Orders \cup Grants : subs[s].plan # "lifetime"
    /\ \A c \in Coupons : subs[c].status # "none" =>
          /\ c \in applied /\ subs[c].status = "active"
          /\ subs[c].plan = "lifetime" /\ subs[c].expires = Null
    /\ \A u \in Users : users[u].plan = "lifetime" => OwnsCoupon(u)
    /\ \A w \in Workers : txn[w].pc = "revoke" /\ txn[w].plan = "lifetime" =>
          OwnsCoupon(txn[w].user)

YearsApplied ==
    \A s \in SubIds : InForce(s, now) /\ subs[s].plan = "yearly" =>
        s \in applied \/ OwnsCoupon(subs[s].user)

HigherLastLonger(d) ==
    \A s \in applied, b \in SubIds :
        /\ InForce(s, d) /\ InForce(b, d) /\ subs[b].user = subs[s].user
        /\ ~OwnsCoupon(subs[s].user)
        /\ PLAN_RANK[subs[b].plan] > PLAN_RANK[subs[s].plan]
        => subs[s].expires # Null /\ subs[b].expires >= subs[s].expires

BestKnown ==
    \A w \in Workers : txn[w].pc = "revoke" =>
        \A s \in applied \ {txn[w].sub} :
            InForce(s, txn[w].at) /\ subs[s].user = txn[w].user =>
                Covers([plan |-> txn[w].plan, planExp |-> txn[w].exp], subs[s])

SerialInv ==
    /\ AppliedCovered /\ CouponsLast /\ YearsApplied /\ HigherLastLonger(now) /\ BestKnown
    /\ \A w \in Workers : txn[w].pc = "readBest" => HigherLastLonger(txn[w].at)

(* Orders given to a user stack: any of those that were not reversed reach *)
(* as far as their durations laid end to end, and an activation under way  *)
(* reaches its own duration beyond each of them.                           *)
FinitelyMany ==
    IsFiniteSet(applied) /\ IsFiniteSet({s \in SubIds : subs[s].status \in Held})

ExpiredOver ==
    \A s \in SubIds : subs[s].status = "expired" => subs[s].expires # Null /\ subs[s].expires < now

StacksOnKept ==
    \A w \in Workers :
        txn[w].pc = "activate" /\ PLAN_RANK[txn[w].plan] >= PLAN_RANK[txn[w].live] =>
            \A k \in Kept(txn[w].user) : subs[k].expires # Null /\ txn[w].exp # Null =>
                txn[w].exp >= subs[k].expires + PLAN_DURATIONS[txn[w].plan]

KeptInTurn ==
    \A u \in Users : \A S \in SUBSET Kept(u) :
        S # {} /\ (\A s \in S : subs[s].plan \in TimedPlans) =>
            \E s \in S : subs[s].expires >= Duration(S)

(* From every day to come, the end of a timed plan is no farther than what *)
(* is in force on that day pays for.                                       *)
PaidAhead ==
    \A u \in Users : users[u].plan \in TimedPlans =>
        \A d \in now .. users[u].planExp - 1 :
            users[u].planExp - d <= Duration(InForceOf(u, d))

(* A reversal ends a row of the user it works for, and what it found in    *)
(* force is still held when it writes that plan: true of one request at a  *)
(* time.                                                                   *)
BestStillHeld ==
    \A w \in Workers : txn[w].pc \in {"readBest", "revoke"} =>
        /\ subs[txn[w].sub].user = txn[w].user
        /\ txn[w].pc = "revoke" /\ txn[w].plan # "free" =>
              \E b \in SubIds \ {txn[w].sub} :
                  /\ subs[b].user = txn[w].user /\ subs[b].status \in Held
                  /\ subs[b].plan = txn[w].plan /\ subs[b].expires = txn[w].exp

(* What the billing does to the trial of a user, whom it shares with the   *)
(* launch window (module Trials): it ends a live one, when it gives a plan *)
(* or an admin takes everything back, and it never gives or moves one.     *)
TrialOnlyEnds(u) ==
    /\ users'[u].trialExp # users[u].trialExp =>
          /\ users[u].trialExp # Null /\ users[u].trialExp > users'[u].trialExp
          /\ users'[u].trialExp # Null /\ users'[u].trialExp <= now
    /\ users'[u].plan # "free" => users'[u].trialExp = Null \/ users'[u].trialExp <= now'

(* Hypotheses of the theorems on access: what nobody asks for, or how many *)
(* requests are served at once.                                            *)
NoReversals == Reversals = {}
NoGrants    == AdminPlans = {}
OnlyLifetime == AdminPlans \subseteq {"lifetime"}
OneWorker   == \A v, w \in Workers : v = w
LifetimeByCoupon == "lifetime" \notin OnSale
NoFirstTrials == FirstTrials \subseteq {Null}
=============================================================================
